-------------------------- MODULE IdentityRegistry --------------------------
(***************************************************************************)
(* The life of an identity and of its enrollment certificates in the CA    *)
(* server: the rows of the users and certificates tables, and the requests *)
(* (register, enroll, reenroll, revoke, modify, delete) whose handlers     *)
(* read and write those rows one SQL statement at a time.  Every handler   *)
(* runs in a goroutine of its own, on this server or on another one that   *)
(* shares the database, so the statements of two handlers interleave       *)
(* freely.  One action is one statement (or one run of reads between two   *)
(* statements); a transaction of dbaccessor.go is one action.              *)
(***************************************************************************)
EXTENDS Integers, Sequences, FiniteSets

CONSTANTS
    Ids,        \* enrollment IDs
    Requests,   \* request contexts that may be in flight at the same time
    Serials,    \* certificate serial numbers; bounds how often the CA signs
    Reasons,    \* revocation reason codes clients send
    Cessation,  \* ocsp.CessationOfOperation, written by DeleteUser
    Admin,      \* the bootstrap identity of the CA configuration
    Scope,      \* <<caller, identity>>: affiliation and type are the caller's
    CaMax,      \* registry.maxenrollments of the CA, -1 for no limit
    ReqMax,     \* max_enrollments values that requests carry
    ReqAttrs,   \* attributes that requests carry
    UniqueId,   \* users.id is a primary key (MySQL), or not (SQLite, Postgres)
    MaxRows,    \* bound on the rows one id can get when lookups may fail
    Faults,     \* SQL statements may fail and servers may crash
    Ops,        \* the operations clients use
    Together,   \* those of them that are in flight with others; the rest are
                \* only asked for while nothing else is
    None        \* no identity, no certificate

\* Attributes of an identity that its requests are authorized by.  "registrar"
\* stands for hf.Registrar.Roles together with hf.Registrar.Attributes=*.
Attrs == {"revoker", "registrar"}

TokenOps == {"reenroll", "register", "revokeName", "revokeSerial", "modify", "delete"}

ASSUME RegistryAssumption ==
    /\ Admin \in Ids
    /\ None \notin Ids \cup Serials \cup Reasons
    /\ Scope \subseteq Ids \X Ids
    /\ CaMax \in Int /\ CaMax >= -1
    /\ ReqMax \subseteq Int
    /\ ReqAttrs \subseteq {"revoker", "registrar"}
    /\ MaxRows \in Nat
    /\ UniqueId \in BOOLEAN
    /\ Faults \in BOOLEAN
    /\ Cessation # None
    /\ Ops \subseteq TokenOps \cup {"enroll", "start"}
    /\ Together \subseteq Ops

VARIABLES
    users,      \* Ids -> the rows of table users with that id, oldest first
    certs,      \* Serials -> the row of table certificates, or NoCert
    ctx,        \* Requests -> the request context and the handler's position
    acked,      \* observer: enrollments answered with success since the
                \* identity was last registered
    base        \* observer: what the state column would hold had none of the
                \* acked enrollments happened; negative once it was rolled back

vars == <<users, certs, ctx, acked, base>>

-----------------------------------------------------------------------------
(* Rows *)

State == Nat \cup {-1}
Row == [state : State, max : Int, attrs : SUBSET Attrs]

NoCert == [id |-> None, status |-> "none", reason |-> None]
Cert == [id : Ids, status : {"good", "revoked"},
         reason : Reasons \cup {Cessation, None}]

NewRow(max, attrs) == [state |-> 0, max |-> max, attrs |-> attrs]

Idle == [op |-> "none", pc |-> "idle", id |-> None, cert |-> None,
         caller |-> {}, target |-> None, reason |-> None,
         max |-> 0, row |-> NewRow(0, {}), listed |-> {}]

PCs == {"idle", "caller", "sign", "complete", "authorize", "check", "insert",
        "revoke", "list", "sweep", "revokeCert", "update", "delete"}

Context == [op : TokenOps \cup {"enroll", "start", "none"}, pc : PCs,
            id : Ids \cup {None}, cert : Serials \cup {None},
            caller : SUBSET Attrs, target : Ids \cup {None},
            reason : Reasons \cup {None}, max : Int, row : Row,
            listed : SUBSET Serials]

(* SELECT * FROM users WHERE id = ?, of which the handler keeps one row. *)
Rows(id) == {users[id][i] : i \in DOMAIN users[id]}

\* Variant: an UPDATE that forgets whose certificates are meant.
RevokeByIDOfAll(id, reason) ==
    [s \in Serials |->
        IF certs[s].status = "good"
        THEN [certs[s] EXCEPT !.status = "revoked", !.reason = reason]
        ELSE certs[s]]

(* updateRevokeSQL: certificates already revoked keep their record. *)
RevokeByID(id, reason) ==
    [s \in Serials |->
        IF certs[s].id = id /\ certs[s].status # "revoked"
        THEN [certs[s] EXCEPT !.status = "revoked", !.reason = reason]
        ELSE certs[s]]

Good(id) == {s \in Serials : certs[s].id = id /\ certs[s].status = "good"}

-----------------------------------------------------------------------------
(* Enrollment allowances *)

\* getMaxEnrollments: the allowance a registration stores, or none on error.
RegisteredMax(req) ==
    IF req < -1 \/ CaMax = 0 THEN {}
    ELSE IF req = 0 THEN {CaMax}
    ELSE IF CaMax # -1 /\ (req = -1 \/ req > CaMax) THEN {}
    ELSE {req}

\* getModifyReq: -2 asks for zero, and zero leaves the allowance alone.
ModifiedMax(max, req) == IF req = -2 THEN 0 ELSE IF req = 0 THEN max ELSE req

\* getModifyReq copies the whole record read, its state included.
ModifiedRow(row, req, attrs) ==
    [row EXCEPT !.max = ModifiedMax(@, req), !.attrs = attrs]

\* Login: the CA's limit caps the allowance of the identity.
LoginMax(max) ==
    IF CaMax # -1 /\ (max > CaMax \/ max = -1) THEN CaMax ELSE max

\* Variant: Login without the check of a revoked state.
LoginAcceptsRevoked(row) ==
    row.max # 0 /\ (LoginMax(row.max) # -1 => row.state < LoginMax(row.max))

LoginAccepts(row) ==
    /\ row.max # 0
    /\ row.state # -1
    /\ LoginMax(row.max) # -1 => row.state < LoginMax(row.max)

\* Variant: LoginComplete trusts the check that Login made.
CountedUnchecked(id, max) == DOMAIN users[id]

\* LoginComplete: the rows that still have an enrollment left.
Counted(id, max) ==
    {i \in DOMAIN users[id] : max = -1 \/ users[id][i].state < max}

\* Variant: an UPDATE that changed no row passes for a success.
AtMostOneRow(rows) == rows = {} \/ \E i \in rows : rows = {i}

\* Every single-row statement treats any other number of rows as an error.
OneRow(rows) == \E i \in rows : rows = {i}

-----------------------------------------------------------------------------
(* Request plumbing *)

At(p, pc) == ctx[p].pc = pc
Become(p, c) == ctx' = [ctx EXCEPT ![p] = c]
Goto(p, pc) == Become(p, [ctx[p] EXCEPT !.pc = pc])
Done(p) == Become(p, Idle)

\* A client asks for op on the context p.
Arrives(p, op) ==
    LET inFlight == {ctx[q].op : q \in {q \in Requests : ~At(q, "idle")}}
    IN  /\ op \in Ops /\ At(p, "idle")
        /\ inFlight # {} => inFlight \cup {op} \subseteq Together

\* CanManageUser, for a caller whose attributes are attrs.
CanManage(caller, attrs, id) == "registrar" \in attrs /\ <<caller, id>> \in Scope

-----------------------------------------------------------------------------
(* Authentication *)

\* BasicAuthentication and Login: the row read decides whether the password
\* may be used; only the capped allowance is kept for LoginComplete.
EnrollLogin(p, id) ==
    /\ Arrives(p, "enroll")
    /\ CaMax # 0
    /\ \E row \in Rows(id) :
        /\ LoginAccepts(row)
        /\ Become(p, [Idle EXCEPT !.op = "enroll", !.pc = "caller", !.id = id,
                                  !.max = LoginMax(row.max)])
    /\ UNCHANGED <<users, certs, acked, base>>

\* TokenAuthentication: the caller is whoever the certificate was issued to,
\* if the certificate is not revoked.  The users table is not consulted.  Only
\* revokeHandler looks at ctx.enrollmentCert again.
Authenticates(s) == certs[s].status = "good"

TokenAuthentication(p, op, s) ==
    /\ op \in TokenOps /\ Arrives(p, op)
    /\ certs[s] # NoCert /\ Authenticates(s)
    /\ Become(p, [Idle EXCEPT !.op = op, !.pc = "caller", !.id = certs[s].id,
                              !.cert = IF op = "revokeSerial" THEN s ELSE None])
    /\ UNCHANGED <<users, certs, acked, base>>

\* The first read of the caller's row: GetCaller, or for revokeHandler
\* attributeIsTrue(id, "hf.Revoker").  The handlers that authorize by the cached
\* ctx.caller keep its attributes.
GetCaller(p) ==
    /\ At(p, "caller")
    /\ \E row \in Rows(ctx[p].id) :
        /\ ctx[p].op \in {"revokeName", "revokeSerial"} => "revoker" \in row.attrs
        /\ Become(p, [ctx[p] EXCEPT
             !.pc = IF ctx[p].op \in {"enroll", "reenroll"} THEN "sign" ELSE "authorize",
             !.caller = IF ctx[p].op \in {"register", "modify", "delete"}
                        THEN row.attrs ELSE {}])
    /\ UNCHANGED <<users, certs, acked, base>>

-----------------------------------------------------------------------------
(* Enroll and reenroll *)

\* signCert: the signed certificate is stored before it is answered, and
\* before LoginComplete has counted the enrollment.
SignCert(p) ==
    /\ At(p, "sign")
    /\ \E s \in Serials :
        /\ certs[s] = NoCert
        /\ certs' = [certs EXCEPT ![s] =
                        [id |-> ctx[p].id, status |-> "good", reason |-> None]]
    /\ IF ctx[p].op = "enroll" THEN Goto(p, "complete") ELSE Done(p)
    /\ UNCHANGED <<users, acked, base>>

\* LoginComplete: one UPDATE, answered with success if it changed one row.
LoginComplete(p) ==
    LET id == ctx[p].id
        counted == Counted(id, ctx[p].max)
    IN  /\ At(p, "complete")
        /\ users' = [users EXCEPT ![id] = [i \in DOMAIN users[id] |->
                        IF i \in counted THEN [users[id][i] EXCEPT !.state = @ + 1]
                        ELSE users[id][i]]]
        /\ acked' = IF OneRow(counted) THEN [acked EXCEPT ![id] = @ + 1] ELSE acked
        /\ Done(p)
        /\ UNCHANGED <<certs, base>>

-----------------------------------------------------------------------------
(* Register, and the bootstrap identity a starting server registers *)

\* canRegister with the cached caller, then the allowance.
AuthorizeRegister(p) ==
    /\ At(p, "authorize") /\ ctx[p].op = "register"
    /\ \E id \in Ids, attrs \in SUBSET (ReqAttrs \cap ctx[p].caller), req \in ReqMax :
        /\ CanManage(ctx[p].id, ctx[p].caller, id)
        /\ \E max \in RegisteredMax(req) :
            Become(p, [ctx[p] EXCEPT !.pc = "check", !.target = id,
                                     !.row = NewRow(max, attrs)])
    /\ UNCHANGED <<users, certs, acked, base>>

\* Any error of GetUser, a lost connection too, is taken for "not registered".
NotRegistered(id) == users[id] = <<>> \/ Faults

RegisterCheck(p) ==
    /\ At(p, "check")
    /\ NotRegistered(ctx[p].target)
    /\ Goto(p, "insert")
    /\ UNCHANGED <<users, certs, acked, base>>

\* loadUsersTable and addIdentity of a server that starts on this database.
StartServer(p) ==
    /\ Arrives(p, "start")
    /\ NotRegistered(Admin)
    /\ \E max \in RegisteredMax(0) :
        Become(p, [Idle EXCEPT !.op = "start", !.pc = "insert", !.target = Admin,
                               !.row = NewRow(max, Attrs)])
    /\ UNCHANGED <<users, certs, acked, base>>

\* The primary key of the users table, where it has one.
Conflicts(id) == UniqueId /\ users[id] # <<>>

InsertUser(p) ==
    LET id == ctx[p].target
        revoked == \E row \in Rows(id) : row.state = -1
    IN  /\ At(p, "insert")
        /\ IF Conflicts(id)
           THEN UNCHANGED <<users, acked, base>>
           ELSE /\ Len(users[id]) < MaxRows
                /\ users' = [users EXCEPT ![id] = Append(@, ctx[p].row)]
                /\ acked' = [acked EXCEPT ![id] = 0]
                /\ base' = [base EXCEPT ![id] = IF revoked THEN -1 ELSE 0]
        /\ Done(p)
        /\ UNCHANGED certs

-----------------------------------------------------------------------------
(* Revoke *)

\* revokeHandler, by name: the caller may revoke itself, or an identity it
\* manages by the row GetCaller reads now.
AuthorizeRevokeName(p) ==
    /\ At(p, "authorize") /\ ctx[p].op = "revokeName"
    /\ \E id \in Ids, reason \in Reasons :
        /\ Rows(id) # {}
        /\ \E row \in Rows(ctx[p].id) :
            id = ctx[p].id \/ CanManage(ctx[p].id, row.attrs, id)
        /\ Become(p, [ctx[p] EXCEPT !.pc = "revoke", !.target = id, !.reason = reason])
    /\ UNCHANGED <<users, certs, acked, base>>

RevokedRow(row) == [row EXCEPT !.state = -1]

\* DBUser.Revoke: more than one row is an error, after all were written.
RevokeUser(p) ==
    LET id == ctx[p].target
    IN  /\ At(p, "revoke")
        /\ users' = [users EXCEPT ![id] = [i \in DOMAIN users[id] |->
                        RevokedRow(users[id][i])]]
        /\ base' = [base EXCEPT ![id] = -1 - acked[id]]
        /\ IF OneRow(DOMAIN users[id]) THEN Goto(p, "list") ELSE Done(p)
        /\ UNCHANGED <<certs, acked>>

\* RevokeCertificatesByID: the SELECT that fills the response ...
ListCertificates(p) ==
    /\ At(p, "list")
    /\ Become(p, [ctx[p] EXCEPT !.pc = "sweep", !.listed = Good(ctx[p].target)])
    /\ UNCHANGED <<users, certs, acked, base>>

\* ... and the UPDATE that revokes.
RevokeCertificatesByID(p) ==
    /\ At(p, "sweep")
    /\ certs' = RevokeByID(ctx[p].target, ctx[p].reason)
    /\ Done(p)
    /\ UNCHANGED <<users, acked, base>>

\* revokeHandler, by serial number and AKI; a name, when the request has one,
\* must be the owner's and is not used otherwise.
AuthorizeRevokeSerial(p) ==
    /\ At(p, "authorize") /\ ctx[p].op = "revokeSerial"
    /\ \E s \in Serials, reason \in Reasons :
        /\ certs[s].status = "good"
        /\ Rows(certs[s].id) # {}
        /\ \/ s = ctx[p].cert
           \/ \E row \in Rows(ctx[p].id) : CanManage(ctx[p].id, row.attrs, certs[s].id)
        /\ Become(p, [ctx[p] EXCEPT !.pc = "revokeCert", !.reason = reason,
                                    !.listed = {s}])
    /\ UNCHANGED <<users, certs, acked, base>>

\* RevokeCertificate of the certificate store: an unconditional UPDATE.
RevokeCertificate(p) ==
    /\ At(p, "revokeCert")
    /\ certs' = [s \in Serials |->
                    IF s \in ctx[p].listed
                    THEN [certs[s] EXCEPT !.status = "revoked", !.reason = ctx[p].reason]
                    ELSE certs[s]]
    /\ Done(p)
    /\ UNCHANGED <<users, acked, base>>

-----------------------------------------------------------------------------
(* Modify and delete *)

\* processPutRequest up to UpdateUser: the row that will be written is made
\* from the row read here.  An attribute changes only if the caller owns it.
AuthorizeModify(p) ==
    /\ At(p, "authorize") /\ ctx[p].op = "modify"
    /\ \E id \in Ids, req \in ReqMax : \E row \in Rows(id),
          added \in SUBSET (ReqAttrs \cap ctx[p].caller),
          removed \in SUBSET (ReqAttrs \cap ctx[p].caller) :
        /\ CanManage(ctx[p].id, ctx[p].caller, id)
        /\ Become(p, [ctx[p] EXCEPT !.pc = "update", !.target = id,
             !.row = ModifiedRow(row, req, (row.attrs \cup added) \ removed)])
    /\ UNCHANGED <<users, certs, acked, base>>

\* UpdateUser writes every column of the row.
UpdateUser(p) ==
    LET id == ctx[p].target
    IN  /\ At(p, "update")
        /\ users' = [users EXCEPT ![id] = [i \in DOMAIN users[id] |-> ctx[p].row]]
        /\ base' = [base EXCEPT ![id] = ctx[p].row.state - acked[id]]
        /\ Done(p)
        /\ UNCHANGED <<certs, acked>>

AuthorizeDelete(p) ==
    /\ At(p, "authorize") /\ ctx[p].op = "delete"
    /\ \E id \in Ids :
        /\ Rows(id) # {}
        /\ CanManage(ctx[p].id, ctx[p].caller, id)
        /\ Become(p, [ctx[p] EXCEPT !.pc = "delete", !.target = id])
    /\ UNCHANGED <<users, certs, acked, base>>

\* deleteUserTx: rolled back when the row is gone by now.
DeleteUser(p) ==
    LET id == ctx[p].target
    IN  /\ At(p, "delete")
        /\ IF users[id] = <<>>
           THEN UNCHANGED <<users, certs>>
           ELSE /\ users' = [users EXCEPT ![id] = <<>>]
                /\ certs' = RevokeByID(id, Cessation)
        /\ Done(p)
        /\ UNCHANGED <<acked, base>>

-----------------------------------------------------------------------------
\* The request ends with an error: it is refused by one of the checks, or the
\* next statement fails, or its server dies.  What was written stays.
Fail(p) ==
    /\ ~At(p, "idle")
    /\ Faults \/ ctx[p].pc \in {"caller", "authorize", "check", "sign"}
    /\ Done(p)
    /\ UNCHANGED <<users, certs, acked, base>>

Authenticate(p) ==
    \/ \E id \in Ids : EnrollLogin(p, id)
    \/ \E op \in TokenOps, s \in Serials : TokenAuthentication(p, op, s)
    \/ GetCaller(p)

Enroll(p) == SignCert(p) \/ LoginComplete(p)

Register(p) == AuthorizeRegister(p) \/ RegisterCheck(p) \/ StartServer(p) \/ InsertUser(p)

Revoke(p) ==
    \/ AuthorizeRevokeName(p) \/ RevokeUser(p)
    \/ ListCertificates(p) \/ RevokeCertificatesByID(p)
    \/ AuthorizeRevokeSerial(p) \/ RevokeCertificate(p)

ModifyOrDelete(p) ==
    AuthorizeModify(p) \/ UpdateUser(p) \/ AuthorizeDelete(p) \/ DeleteUser(p)

Init ==
    /\ users = [id \in Ids |-> IF id = Admin /\ CaMax # 0
                               THEN <<NewRow(CaMax, Attrs)>> ELSE <<>>]
    /\ certs = [s \in Serials |-> NoCert]
    /\ ctx = [p \in Requests |-> Idle]
    /\ acked = [id \in Ids |-> 0]
    /\ base = [id \in Ids |-> 0]

Next == \E p \in Requests :
    Authenticate(p) \/ Enroll(p) \/ Register(p) \/ Revoke(p) \/ ModifyOrDelete(p) \/ Fail(p)

Spec == Init /\ [][Next]_vars
-----------------------------------------------------------------------------
(* Properties *)

\* Every variable keeps the shape of its table or of serverRequestContext.
TypeOK ==
    /\ users \in [Ids -> Seq(Row)]
    /\ certs \in [Serials -> Cert \cup {NoCert}]
    /\ ctx \in [Requests -> Context]
    /\ acked \in [Ids -> Nat]
    /\ base \in [Ids -> Int]

\* No identity's enrollment counter passes the CA's limit, whatever allowance
\* a registration or a modification stored for it, and however many logins
\* were accepted before the first of them was counted (Login, LoginComplete).
CounterWithinCALimit ==
    CaMax # -1 => \A id \in Ids : \A row \in Rows(id) : row.state <= CaMax

\* Every enrollment that was answered with success is in the counter: with
\* what the counter would hold without them, the acked enrollments do not
\* exceed it.  Concurrent LoginComplete statements may not share one count,
\* nor may a duplicate row of the identity be counted in place of the other.
AckedEnrollmentsAreCounted ==
    \A id \in Ids : \A row \in Rows(id) : base[id] + acked[id] <= row.state

\* No identity is answered more enrollments than the CA allows one (the
\* max_enrollments promise for the secret of a registered identity).
EnrollmentAllowance ==
    CaMax # -1 => \A id \in Ids : Rows(id) # {} => acked[id] <= CaMax

\* A request in flight, of context c, that may still hand id a certificate, or a counter
\* from which Login accepts it.
MayReadmit(c, id) ==
    \/ c.id = id /\ c.op \in {"enroll", "reenroll"}
    \/ c.target = id /\ c.pc = "insert"
    \/ c.target = id /\ c.pc = "update" /\ c.row.state # -1

Disabled(id) == \A row \in Rows(id) : row.state = -1

Excluded(id) ==
    /\ Disabled(id)
    /\ Good(id) = {}
    /\ \A p \in Requests : ~MayReadmit(ctx[p], id)

Registering(id) ==
    \E p \in Requests : ctx'[p].pc = "insert" /\ ctx'[p].target = id

\* An identity that was revoked or deleted, that has no good certificate left
\* and no request in flight from before, stays out: no sequence of requests
\* gives it a certificate or a counter to enroll from, unless a registration
\* finds the ID free (revokeHandler, deleteUserTx, getModifyReq, Login and
\* TokenAuthentication together).
ExcludedStaysOut ==
    [][\A id \in Ids : Excluded(id) => Excluded(id)' \/ Registering(id)]_vars

\* A revoked identity is not enabled again: its rows stay in state -1 until it
\* is deleted (DBUser.Revoke against LoginComplete and UpdateUser).
RevocationIsPermanent ==
    [][\A id \in Ids : users[id] # <<>> /\ Disabled(id)
                         => users'[id] = <<>> \/ Disabled(id)']_vars

\* The handlers implement the ledger of members and certificates: whatever the
\* order of their statements, and wherever they stop, a deletion takes every
\* certificate with it (deleteUserTx), no certificate comes back or changes
\* hands, and every answered enrollment has one of its own (signCert before
\* LoginComplete).
Ledger == INSTANCE EnrollmentLedger
          WITH Founders <- IF CaMax = 0 THEN {} ELSE {Admin},
               member <- {id \in Ids : users[id] # <<>>},
               owner <- [s \in Serials |-> certs[s].id],
               good <- {s \in Serials : certs[s].status = "good"},
               answered <- acked

LedgerSpec == Ledger!Spec
=============================================================================
