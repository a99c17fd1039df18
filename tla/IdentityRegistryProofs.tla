----------------------- MODULE IdentityRegistryProofs -----------------------
(***************************************************************************)
(* Theorems about IdentityRegistry, for every set of identities, requests  *)
(* and serial numbers, and every limit of the CA.                          *)
(***************************************************************************)
EXTENDS IdentityRegistry, FiniteSetTheorems, TLAPS

\* What is left of the CA's limit in a request context: an accepted login
\* carries an allowance within it, and a row to be written a counter within it.
Limited(n) == CaMax # -1 => n <= CaMax

ContextOK(c) ==
    /\ c.pc \in {"caller", "sign", "complete", "authorize"} => c.id \in Ids
    /\ c.pc \in {"check", "insert", "revoke", "list", "sweep", "update", "delete"}
         => c.target \in Ids
    /\ c.pc \in {"revoke", "list", "sweep", "revokeCert"} => c.reason \in Reasons
    /\ c.pc = "sign" => c.op \in {"enroll", "reenroll"}
    /\ c.pc = "complete" => c.op = "enroll"
    /\ c.op = "enroll" => Limited(c.max) /\ (CaMax # -1 => c.max # -1)
    /\ c.pc \in {"check", "insert"} => c.row.state = 0
    /\ Limited(c.row.state)

\* The inductive invariant: the contexts in flight, and what the properties
\* say of the tables.
ContextsOK == \A p \in Requests : ContextOK(ctx[p])
ListedOK == \A p \in Requests : \A s \in ctx[p].listed : certs[s] # NoCert

TypeInv == TypeOK /\ ContextsOK /\ ListedOK

-----------------------------------------------------------------------------
(* Rows and contexts *)

\* An UPDATE maps the rows of an identity to rows.
LEMMA MappedRows ==
    ASSUME NEW rows \in Seq(Row), NEW f \in [DOMAIN rows -> Row]
    PROVE  f \in Seq(Row)
  <1>1. DOMAIN rows = 1..Len(rows) /\ Len(rows) \in Nat
    OBVIOUS
  <1> QED BY <1>1

\* A row of a SELECT on the users table is a row.
LEMMA RowsTyped ==
    ASSUME TypeOK, NEW id \in Ids, NEW row \in Rows(id)
    PROVE  row \in Row
  <1>1. users[id] \in Seq(Row)
    BY DEF TypeOK
  <1>2. PICK i \in DOMAIN users[id] : row = users[id][i]
    BY DEF Rows
  <1> QED BY <1>1, <1>2

\* A request that is not in flight satisfies the invariant.
LEMMA IdleContext == Idle \in Context /\ ContextOK(Idle) /\ Idle.listed = {}
  BY RegistryAssumption DEF Idle, Context, PCs, ContextOK, Limited, NewRow, Row, State

\* The allowance Login keeps never exceeds the CA's limit.
LEMMA LoginMaxLimited ==
    ASSUME NEW max \in Int
    PROVE  /\ LoginMax(max) \in Int
           /\ Limited(LoginMax(max))
           /\ CaMax # -1 => LoginMax(max) # -1
  BY RegistryAssumption DEF LoginMax, Limited

\* A step that only moves one request on keeps the invariant, if the context
\* it moves to is a sound one.
LEMMA MoveRequest ==
    ASSUME TypeInv, NEW p \in Requests, NEW c \in Context, ContextOK(c),
           \A s \in c.listed : certs[s] # NoCert, Become(p, c)
    PROVE  /\ ctx' \in [Requests -> Context]
           /\ ContextsOK'
           /\ certs' = certs => ListedOK'
  BY DEF TypeInv, TypeOK, ContextsOK, ListedOK, Become

\* Ending a request is always sound, and so is what it leaves behind as long
\* as no certificate record disappears.
LEMMA EndRequest ==
    ASSUME TypeInv, NEW p \in Requests, Done(p),
           \A s \in Serials : certs[s] # NoCert => certs'[s] # NoCert
    PROVE  ctx' \in [Requests -> Context] /\ ContextsOK' /\ ListedOK'
  BY IdleContext DEF TypeInv, TypeOK, ContextsOK, ListedOK, Done, Become, Context

-----------------------------------------------------------------------------
(* Typing *)

\* The initial tables and contexts have their types.
LEMMA TypeInvInit == Init => TypeInv
  <1> SUFFICES ASSUME Init PROVE TypeInv
    OBVIOUS
  <1>1. NewRow(CaMax, Attrs) \in Row
    BY RegistryAssumption DEF NewRow, Row, State
  <1>2. users \in [Ids -> Seq(Row)]
    BY <1>1 DEF Init
  <1> QED
    BY <1>2, IdleContext DEF Init, TypeInv, TypeOK, ContextsOK, ListedOK

\* The UPDATE that revokes an identity's certificates loses no record.
LEMMA RevokeByIDCerts ==
    ASSUME TypeOK, NEW id \in Ids, NEW reason \in Reasons \cup {Cessation}
    PROVE  /\ RevokeByID(id, reason) \in [Serials -> Cert \cup {NoCert}]
           /\ \A s \in Serials : certs[s] # NoCert => RevokeByID(id, reason)[s] # NoCert
  <1>1. ASSUME NEW s \in Serials, certs[s].id = id
        PROVE  certs[s] \in Cert
    BY <1>1, RegistryAssumption DEF TypeOK, NoCert
  <1>2. ASSUME NEW s \in Serials
        PROVE  /\ RevokeByID(id, reason)[s] \in Cert \cup {NoCert}
               /\ certs[s] # NoCert => RevokeByID(id, reason)[s] # NoCert
    BY <1>1, <1>2, RegistryAssumption DEF RevokeByID, TypeOK, Cert, NoCert
  <1> QED BY <1>2 DEF RevokeByID

\* Authentication copies nothing into a context but what a row or a record has.
LEMMA TypeInvAuthenticate ==
    ASSUME TypeInv, NEW p \in Requests, Authenticate(p)
    PROVE  TypeInv'
  <1> USE DEF TypeInv
  <1>1. ASSUME NEW id \in Ids, EnrollLogin(p, id) PROVE TypeInv'
    <2>1. PICK row \in Rows(id) :
            Become(p, [Idle EXCEPT !.op = "enroll", !.pc = "caller", !.id = id,
                                   !.max = LoginMax(row.max)])
      BY <1>1 DEF EnrollLogin
    <2>2. row.max \in Int
      BY <2>1, RowsTyped DEF Row
    <2> DEFINE c == [Idle EXCEPT !.op = "enroll", !.pc = "caller", !.id = id,
                                 !.max = LoginMax(row.max)]
    <2>3. c \in Context /\ ContextOK(c) /\ c.listed = {}
      <3>1. c.max = LoginMax(row.max) /\ c.id = id /\ c.pc = "caller" /\ c.op = "enroll"
            /\ c.row = Idle.row /\ c.listed = {}
        BY DEF Idle
      <3>2. c \in Context
        BY <2>2, LoginMaxLimited, IdleContext DEF Context, PCs
      <3> QED BY <3>1, <3>2, <2>2, LoginMaxLimited, IdleContext DEF ContextOK
    <2> QED BY <1>1, <2>1, <2>3, MoveRequest DEF EnrollLogin, TypeOK
  <1>2. ASSUME NEW op \in TokenOps, NEW s \in Serials, TokenAuthentication(p, op, s)
        PROVE TypeInv'
    <2> DEFINE c == [Idle EXCEPT !.op = op, !.pc = "caller", !.id = certs[s].id,
                                 !.cert = IF op = "revokeSerial" THEN s ELSE None]
    <2>1. certs[s].id \in Ids
      BY <1>2 DEF TokenAuthentication, TypeOK, Cert
    <2>2. c \in Context /\ ContextOK(c) /\ c.listed = {}
      <3>1. c.op = op /\ op # "enroll" /\ c.pc = "caller" /\ c.id = certs[s].id
            /\ c.row = Idle.row /\ c.listed = {}
        BY DEF Idle, TokenOps
      <3>2. c \in Context
        BY <2>1, IdleContext DEF Context, PCs
      <3> QED BY <3>1, <3>2, <2>1, IdleContext DEF ContextOK
    <2> QED BY <1>2, <2>2, MoveRequest DEF TokenAuthentication, TypeOK
  <1>3. ASSUME GetCaller(p) PROVE TypeInv'
    <2>1. ctx[p].id \in Ids /\ ctx[p] \in Context /\ ContextOK(ctx[p])
      BY <1>3 DEF GetCaller, At, ContextsOK, ContextOK, TypeOK
    <2>2. PICK row \in Rows(ctx[p].id) : Become(p, [ctx[p] EXCEPT
             !.pc = IF ctx[p].op \in {"enroll", "reenroll"} THEN "sign" ELSE "authorize",
             !.caller = IF ctx[p].op \in {"register", "modify", "delete"}
                        THEN row.attrs ELSE {}])
      BY <1>3 DEF GetCaller
    <2>3. row.attrs \in SUBSET Attrs
      BY <2>1, <2>2, RowsTyped DEF Row
    <2> DEFINE c == [ctx[p] EXCEPT
             !.pc = IF ctx[p].op \in {"enroll", "reenroll"} THEN "sign" ELSE "authorize",
             !.caller = IF ctx[p].op \in {"register", "modify", "delete"}
                        THEN row.attrs ELSE {}]
    <2>4. c \in Context /\ ContextOK(c) /\ c.listed = ctx[p].listed
      <3>1. c.op = ctx[p].op /\ c.pc \in {"sign", "authorize"} /\ c.id = ctx[p].id
            /\ c.max = ctx[p].max /\ c.row = ctx[p].row /\ c.listed = ctx[p].listed
        BY <2>1 DEF Context
      <3>2. c.pc \in PCs
        BY <3>1 DEF PCs
      <3>3. c.caller \in SUBSET Attrs
        BY <2>1, <2>3 DEF Context
      <3>4. c \in Context
        BY <2>1, <3>2, <3>3 DEF Context
      <3> QED BY <3>1, <3>4, <2>1 DEF ContextOK
    <2> QED BY <1>3, <2>2, <2>4, MoveRequest DEF GetCaller, TypeOK, ListedOK
  <1> QED BY <1>1, <1>2, <1>3 DEF Authenticate

\* Signing adds a certificate record; counting keeps rows rows.
LEMMA TypeInvEnroll ==
    ASSUME TypeInv, NEW p \in Requests, Enroll(p)
    PROVE  TypeInv'
  <1> USE DEF TypeInv
  <1>1. ASSUME SignCert(p) PROVE TypeInv'
    <2>1. ctx[p].id \in Ids /\ ctx[p] \in Context /\ ContextOK(ctx[p])
      BY <1>1 DEF SignCert, At, ContextsOK, ContextOK, TypeOK
    <2>2. /\ certs' \in [Serials -> Cert \cup {NoCert}]
          /\ \A s \in Serials : certs[s] # NoCert => certs'[s] # NoCert
      BY <1>1, <2>1, RegistryAssumption DEF SignCert, TypeOK, Cert, NoCert
    <2>3. CASE Done(p)
      BY <1>1, <2>2, <2>3, EndRequest DEF SignCert, TypeOK
    <2>4. CASE ctx[p].op = "enroll" /\ Goto(p, "complete")
      <3> DEFINE c == [ctx[p] EXCEPT !.pc = "complete"]
      <3>1. c \in Context /\ c.listed = ctx[p].listed
        BY <2>1 DEF Context, PCs
      <3>2. ContextOK(c)
        BY <2>1, <2>4 DEF ContextOK, Context
      <3>3. ctx' \in [Requests -> Context] /\ ContextsOK'
        BY <3>1, <3>2, <2>4, MoveRequest DEF Goto, ListedOK
      <3>4. ListedOK'
        BY <2>2, <2>4, <3>1, <2>1 DEF Goto, Become, ListedOK, TypeOK, Context
      <3> QED BY <1>1, <2>2, <3>3, <3>4 DEF SignCert, TypeOK
    <2> QED BY <1>1, <2>3, <2>4 DEF SignCert
  <1>2. ASSUME LoginComplete(p) PROVE TypeInv'
    <2> DEFINE id == ctx[p].id
               f == [i \in DOMAIN users[id] |->
                      IF i \in Counted(id, ctx[p].max)
                      THEN [users[id][i] EXCEPT !.state = @ + 1] ELSE users[id][i]]
    <2>1. id \in Ids /\ users[id] \in Seq(Row)
      BY <1>2 DEF LoginComplete, At, ContextsOK, ContextOK, TypeOK
    <2>2. ASSUME NEW i \in DOMAIN users[id] PROVE f[i] \in Row
      <3>1. users[id][i] \in Row
        BY <2>1, <2>2
      <3>2. [users[id][i] EXCEPT !.state = @ + 1] \in Row
        BY <3>1 DEF Row, State
      <3> QED BY <2>2, <3>1, <3>2
    <2>3. f \in Seq(Row)
      BY <2>1, <2>2, MappedRows
    <2>4. users' \in [Ids -> Seq(Row)] /\ acked' \in [Ids -> Nat]
      BY <1>2, <2>1, <2>3 DEF LoginComplete, TypeOK
    <2> QED BY <1>2, <2>4, EndRequest DEF LoginComplete, TypeOK
  <1> QED BY <1>1, <1>2 DEF Enroll

\* A registration carries an unused row and appends it.
LEMMA TypeInvRegister ==
    ASSUME TypeInv, NEW p \in Requests, Register(p)
    PROVE  TypeInv'
  <1> USE DEF TypeInv
  <1>0. ctx[p] \in Context /\ ContextOK(ctx[p])
    BY DEF TypeOK, ContextsOK
  <1>1. ASSUME AuthorizeRegister(p) PROVE TypeInv'
    <2>1. PICK id \in Ids, attrs \in SUBSET (ReqAttrs \cap ctx[p].caller), req \in ReqMax :
            \E max \in RegisteredMax(req) :
              Become(p, [ctx[p] EXCEPT !.pc = "check", !.target = id,
                                       !.row = NewRow(max, attrs)])
      BY <1>1 DEF AuthorizeRegister
    <2>2. PICK max \in RegisteredMax(req) :
            Become(p, [ctx[p] EXCEPT !.pc = "check", !.target = id,
                                     !.row = NewRow(max, attrs)])
      BY <2>1
    <2> DEFINE c == [ctx[p] EXCEPT !.pc = "check", !.target = id,
                                   !.row = NewRow(max, attrs)]
    <2>3. max \in Int
      BY <2>2, RegistryAssumption DEF RegisteredMax
    <2>4. NewRow(max, attrs) \in Row /\ NewRow(max, attrs).state = 0
          /\ Limited(0)
      BY <2>3, <2>1, RegistryAssumption DEF NewRow, Row, State, Limited, Attrs
    <2>5. c \in Context /\ c.listed = ctx[p].listed
      BY <1>0, <2>1, <2>4 DEF Context, PCs
    <2>6. ContextOK(c)
      BY <1>0, <2>4 DEF ContextOK, Context
    <2> QED BY <1>1, <2>2, <2>5, <2>6, MoveRequest DEF AuthorizeRegister, TypeOK, ListedOK
  <1>2. ASSUME RegisterCheck(p) PROVE TypeInv'
    <2> DEFINE c == [ctx[p] EXCEPT !.pc = "insert"]
    <2>1. c \in Context /\ c.listed = ctx[p].listed
      BY <1>0 DEF Context, PCs
    <2>2. ContextOK(c)
      BY <1>0, <1>2 DEF RegisterCheck, At, ContextOK, Context
    <2> QED BY <1>2, <2>1, <2>2, MoveRequest DEF RegisterCheck, Goto, TypeOK, ListedOK
  <1>3. ASSUME StartServer(p) PROVE TypeInv'
    <2>1. PICK max \in RegisteredMax(0) :
            Become(p, [Idle EXCEPT !.op = "start", !.pc = "insert", !.target = Admin,
                                   !.row = NewRow(max, Attrs)])
      BY <1>3 DEF StartServer
    <2> DEFINE c == [Idle EXCEPT !.op = "start", !.pc = "insert", !.target = Admin,
                                 !.row = NewRow(max, Attrs)]
    <2>2. max \in Int
      BY <2>1, RegistryAssumption DEF RegisteredMax
    <2>3. NewRow(max, Attrs) \in Row /\ NewRow(max, Attrs).state = 0
          /\ Limited(0)
      BY <2>2, RegistryAssumption DEF NewRow, Row, State, Limited
    <2>4. c.op = "start" /\ c.pc = "insert" /\ c.target = Admin
          /\ c.row = NewRow(max, Attrs) /\ c.listed = {}
      BY DEF Idle
    <2>5. c \in Context
      BY <2>3, IdleContext, RegistryAssumption DEF Context, PCs
    <2>6. ContextOK(c)
      BY <2>3, <2>4, RegistryAssumption DEF ContextOK
    <2> QED BY <1>3, <2>1, <2>4, <2>5, <2>6, MoveRequest DEF StartServer, TypeOK
  <1>4. ASSUME InsertUser(p) PROVE TypeInv'
    <2>1. ctx[p].target \in Ids /\ ctx[p].row \in Row
      BY <1>0, <1>4 DEF InsertUser, At, ContextOK, Context
    <2>2. users' \in [Ids -> Seq(Row)]
      <3>1. Append(users[ctx[p].target], ctx[p].row) \in Seq(Row)
        BY <2>1 DEF TypeOK
      <3> QED BY <1>4, <2>1, <3>1 DEF InsertUser, TypeOK
    <2>3. acked' \in [Ids -> Nat] /\ base' \in [Ids -> Int]
      BY <1>4, <2>1 DEF InsertUser, TypeOK
    <2> QED BY <1>4, <2>2, <2>3, EndRequest DEF InsertUser, TypeOK
  <1> QED BY <1>1, <1>2, <1>3, <1>4 DEF Register

\* Revocation only touches records that exist.
LEMMA TypeInvRevoke ==
    ASSUME TypeInv, NEW p \in Requests, Revoke(p)
    PROVE  TypeInv'
  <1> USE DEF TypeInv
  <1>0. ctx[p] \in Context /\ ContextOK(ctx[p])
    BY DEF TypeOK, ContextsOK
  <1>1. ASSUME AuthorizeRevokeName(p) PROVE TypeInv'
    <2>1. PICK id \in Ids, reason \in Reasons :
            Become(p, [ctx[p] EXCEPT !.pc = "revoke", !.target = id, !.reason = reason])
      BY <1>1 DEF AuthorizeRevokeName
    <2> DEFINE c == [ctx[p] EXCEPT !.pc = "revoke", !.target = id, !.reason = reason]
    <2>2. c \in Context /\ c.listed = ctx[p].listed
      BY <1>0 DEF Context, PCs
    <2>3. ContextOK(c)
      BY <1>0 DEF ContextOK, Context
    <2> QED BY <1>1, <2>1, <2>2, <2>3, MoveRequest DEF AuthorizeRevokeName, TypeOK, ListedOK
  <1>2. ASSUME RevokeUser(p) PROVE TypeInv'
    <2> DEFINE id == ctx[p].target
               f == [i \in DOMAIN users[id] |-> RevokedRow(users[id][i])]
               c == [ctx[p] EXCEPT !.pc = "list"]
    <2>1. id \in Ids /\ users[id] \in Seq(Row)
      BY <1>0, <1>2 DEF RevokeUser, At, ContextOK, TypeOK
    <2>2. ASSUME NEW i \in DOMAIN users[id] PROVE f[i] \in Row
      <3>1. users[id][i] \in Row
        BY <2>1, <2>2
      <3> QED BY <2>2, <3>1 DEF RevokedRow, Row, State
    <2>3. f \in Seq(Row)
      BY <2>1, <2>2, MappedRows
    <2>4. users' \in [Ids -> Seq(Row)] /\ base' \in [Ids -> Int]
      BY <1>2, <2>1, <2>3 DEF RevokeUser, TypeOK
    <2>5. CASE Done(p)
      BY <1>2, <2>4, <2>5, EndRequest DEF RevokeUser, TypeOK
    <2>6. CASE Goto(p, "list")
      <3>1. c \in Context /\ c.listed = ctx[p].listed
        BY <1>0 DEF Context, PCs
      <3>2. ContextOK(c)
        BY <1>0, <1>2, <2>1 DEF RevokeUser, At, ContextOK, Context
      <3> QED BY <1>2, <2>4, <2>6, <3>1, <3>2, MoveRequest DEF RevokeUser, Goto, TypeOK, ListedOK
    <2> QED BY <1>2, <2>5, <2>6 DEF RevokeUser
  <1>3. ASSUME ListCertificates(p) PROVE TypeInv'
    <2>1. PICK good \in SUBSET Serials :
            /\ good = Good(ctx[p].target)
            /\ \A s \in good : certs[s] # NoCert
      <3>1. Good(ctx[p].target) \in SUBSET Serials
        BY DEF Good
      <3>2. \A s \in Good(ctx[p].target) : certs[s] # NoCert
        BY DEF Good, NoCert
      <3> QED BY <3>1, <3>2
    <2> DEFINE c == [ctx[p] EXCEPT !.pc = "sweep", !.listed = good]
    <2>2. c \in Context /\ c.listed = good
      BY <1>0 DEF Context, PCs
    <2>3. ContextOK(c)
      BY <1>0, <1>3 DEF ListCertificates, At, ContextOK, Context
    <2> QED BY <1>3, <2>1, <2>2, <2>3, MoveRequest DEF ListCertificates, TypeOK
  <1>4. ASSUME RevokeCertificatesByID(p) PROVE TypeInv'
    <2>1. ctx[p].target \in Ids /\ ctx[p].reason \in Reasons
      BY <1>0, <1>4 DEF RevokeCertificatesByID, At, ContextOK
    <2> QED BY <1>4, <2>1, RevokeByIDCerts, EndRequest DEF RevokeCertificatesByID, TypeOK
  <1>5. ASSUME AuthorizeRevokeSerial(p) PROVE TypeInv'
    <2>1. PICK s \in Serials, reason \in Reasons :
            /\ certs[s].status = "good"
            /\ Become(p, [ctx[p] EXCEPT !.pc = "revokeCert", !.reason = reason,
                                        !.listed = {s}])
      BY <1>5 DEF AuthorizeRevokeSerial
    <2> DEFINE c == [ctx[p] EXCEPT !.pc = "revokeCert", !.reason = reason, !.listed = {s}]
    <2>3. certs[s] # NoCert
      BY <2>1 DEF TypeOK, Cert, NoCert
    <2>4. c \in Context /\ c.listed = {s}
      BY <1>0, <2>3 DEF Context, PCs
    <2>5. ContextOK(c)
      BY <1>0 DEF ContextOK, Context
    <2> QED BY <1>5, <2>1, <2>3, <2>4, <2>5, MoveRequest DEF AuthorizeRevokeSerial, TypeOK
  <1>6. ASSUME RevokeCertificate(p) PROVE TypeInv'
    <2>1. ctx[p].reason \in Reasons /\ \A s \in ctx[p].listed : certs[s] # NoCert
      BY <1>0, <1>6 DEF RevokeCertificate, At, ContextOK, ListedOK
    <2>2. ASSUME NEW s \in Serials
          PROVE  certs'[s] \in Cert \cup {NoCert} /\ (certs[s] # NoCert => certs'[s] # NoCert)
      BY <1>6, <2>1 DEF RevokeCertificate, TypeOK, Cert, NoCert
    <2> QED BY <1>6, <2>2, EndRequest DEF RevokeCertificate, TypeOK
  <1> QED BY <1>1, <1>2, <1>3, <1>4, <1>5, <1>6 DEF Revoke

\* The row a modification carries is within the limit because the row it was
\* read from is.
LEMMA TypeInvModifyOrDelete ==
    ASSUME TypeInv, CounterWithinCALimit, NEW p \in Requests, ModifyOrDelete(p)
    PROVE  TypeInv'
  <1> USE DEF TypeInv
  <1>0. ctx[p] \in Context /\ ContextOK(ctx[p])
    BY DEF TypeOK, ContextsOK
  <1>1. ASSUME AuthorizeModify(p) PROVE TypeInv'
    <2>1. PICK id \in Ids, req \in ReqMax : \E row \in Rows(id),
            added \in SUBSET (ReqAttrs \cap ctx[p].caller),
            removed \in SUBSET (ReqAttrs \cap ctx[p].caller) :
              Become(p, [ctx[p] EXCEPT !.pc = "update", !.target = id,
                !.row = ModifiedRow(row, req, (row.attrs \cup added) \ removed)])
      BY <1>1 DEF AuthorizeModify
    <2>2. PICK row \in Rows(id),
            added \in SUBSET (ReqAttrs \cap ctx[p].caller),
            removed \in SUBSET (ReqAttrs \cap ctx[p].caller) :
              Become(p, [ctx[p] EXCEPT !.pc = "update", !.target = id,
                !.row = ModifiedRow(row, req, (row.attrs \cup added) \ removed)])
      BY <2>1
    <2> DEFINE new == ModifiedRow(row, req, (row.attrs \cup added) \ removed)
               c == [ctx[p] EXCEPT !.pc = "update", !.target = id, !.row = new]
    <2>3. row \in Row
      BY RowsTyped
    <2>4. new \in Row /\ new.state = row.state
      <3>1. ModifiedMax(row.max, req) \in Int
        BY <2>3, RegistryAssumption DEF ModifiedMax, Row
      <3>2. (row.attrs \cup added) \ removed \in SUBSET Attrs
        BY <2>3, RegistryAssumption DEF Row, Attrs
      <3> QED BY <2>3, <3>1, <3>2 DEF ModifiedRow, Row
    <2>5. Limited(new.state)
      BY <2>4 DEF CounterWithinCALimit, Limited
    <2>6. c \in Context /\ c.listed = ctx[p].listed
      BY <1>0, <2>4 DEF Context, PCs
    <2>7. ContextOK(c)
      BY <1>0, <2>5 DEF ContextOK, Context
    <2> QED BY <1>1, <2>2, <2>6, <2>7, MoveRequest DEF AuthorizeModify, TypeOK, ListedOK
  <1>2. ASSUME UpdateUser(p) PROVE TypeInv'
    <2> DEFINE id == ctx[p].target
               f == [i \in DOMAIN users[id] |-> ctx[p].row]
    <2>1. id \in Ids /\ users[id] \in Seq(Row) /\ ctx[p].row \in Row
      BY <1>0, <1>2 DEF UpdateUser, At, ContextOK, TypeOK, Context
    <2>2. f \in Seq(Row)
      BY <2>1, MappedRows
    <2>3. users' \in [Ids -> Seq(Row)]
      BY <1>2, <2>1, <2>2 DEF UpdateUser, TypeOK
    <2>4. base' \in [Ids -> Int]
      BY <1>2, <2>1 DEF UpdateUser, TypeOK, Row, State
    <2> QED BY <1>2, <2>3, <2>4, EndRequest DEF UpdateUser, TypeOK
  <1>3. ASSUME AuthorizeDelete(p) PROVE TypeInv'
    <2>1. PICK id \in Ids : Become(p, [ctx[p] EXCEPT !.pc = "delete", !.target = id])
      BY <1>3 DEF AuthorizeDelete
    <2> DEFINE c == [ctx[p] EXCEPT !.pc = "delete", !.target = id]
    <2>2. c \in Context /\ c.listed = ctx[p].listed
      BY <1>0 DEF Context, PCs
    <2>3. ContextOK(c)
      BY <1>0 DEF ContextOK, Context
    <2> QED BY <1>3, <2>1, <2>2, <2>3, MoveRequest DEF AuthorizeDelete, TypeOK, ListedOK
  <1>4. ASSUME DeleteUser(p) PROVE TypeInv'
    <2>1. ctx[p].target \in Ids
      BY <1>0, <1>4 DEF DeleteUser, At, ContextOK
    <2>2. users' \in [Ids -> Seq(Row)]
      <3>1. <<>> \in Seq(Row)
        OBVIOUS
      <3> QED BY <1>4, <2>1, <3>1 DEF DeleteUser, TypeOK
    <2>3. /\ certs' \in [Serials -> Cert \cup {NoCert}]
          /\ \A s \in Serials : certs[s] # NoCert => certs'[s] # NoCert
      BY <1>4, <2>1, RevokeByIDCerts DEF DeleteUser, TypeOK
    <2> QED BY <1>4, <2>2, <2>3, EndRequest DEF DeleteUser, TypeOK
  <1> QED BY <1>1, <1>2, <1>3, <1>4 DEF ModifyOrDelete

\* A request that ends with an error leaves the tables alone.
LEMMA TypeInvFail ==
    ASSUME TypeInv, NEW p \in Requests, Fail(p)
    PROVE  TypeInv'
  BY EndRequest DEF TypeInv, Fail, TypeOK

\* Every step keeps types and contexts, given counters within the limit.
LEMMA TypeInvNext ==
    ASSUME TypeInv, CounterWithinCALimit, [Next]_vars
    PROVE  TypeInv'
  <1>1. ASSUME NEW p \in Requests,
               Authenticate(p) \/ Enroll(p) \/ Register(p) \/ Revoke(p)
               \/ ModifyOrDelete(p) \/ Fail(p)
        PROVE  TypeInv'
    BY <1>1, TypeInvAuthenticate, TypeInvEnroll, TypeInvRegister, TypeInvRevoke,
       TypeInvModifyOrDelete, TypeInvFail
  <1>2. ASSUME UNCHANGED vars PROVE TypeInv'
    BY <1>2 DEF TypeInv, TypeOK, ContextsOK, ContextOK, ListedOK, vars
  <1> QED BY <1>1, <1>2 DEF Next

-----------------------------------------------------------------------------
(* The enrollment counter *)

CountersOK == CounterWithinCALimit /\ AckedEnrollmentsAreCounted

\* What CountersOK says of the rows of one identity.
Sound(id, row) == Limited(row.state) /\ base[id] + acked[id] <= row.state

\* CountersOK, row by row.
LEMMA CountersOKDef == CountersOK <=> \A id \in Ids : \A row \in Rows(id) : Sound(id, row)
  BY DEF CountersOK, CounterWithinCALimit, AckedEnrollmentsAreCounted, Sound, Limited

\* A statement that writes the rows of one identity only has to make those
\* sound.
LEMMA OneIdentity ==
    ASSUME TypeOK, CountersOK, NEW id \in Ids, NEW rows \in Seq(Row),
           users' = [users EXCEPT ![id] = rows],
           \A other \in Ids \ {id} : acked'[other] = acked[other] /\ base'[other] = base[other],
           \A i \in DOMAIN rows :
               Limited(rows[i].state) /\ base'[id] + acked'[id] <= rows[i].state
    PROVE  CountersOK'
  <1>1. ASSUME NEW x \in Ids, NEW i \in DOMAIN users'[x]
        PROVE  Limited(users'[x][i].state) /\ base'[x] + acked'[x] <= users'[x][i].state
    <2>1. CASE x = id
      BY <1>1, <2>1 DEF TypeOK
    <2>2. CASE x # id
      BY <1>1, <2>2, CountersOKDef DEF TypeOK, Rows, Sound
    <2> QED BY <2>1, <2>2
  <1> QED
    BY <1>1 DEF CountersOK, CounterWithinCALimit, AckedEnrollmentsAreCounted, Rows, Limited

\* The counting UPDATE keeps within the limit, and the one row an answered
\* enrollment was counted in bounds every other row of the identity.
LEMMA LoginCompleteCounters ==
    ASSUME TypeInv, CountersOK, NEW p \in Requests, LoginComplete(p)
    PROVE  CountersOK'
  <1> DEFINE id == ctx[p].id
             max == ctx[p].max
             counted == Counted(id, max)
             rows == [i \in DOMAIN users[id] |->
                       IF i \in counted THEN [users[id][i] EXCEPT !.state = @ + 1]
                       ELSE users[id][i]]
  <1>1. /\ id \in Ids /\ users[id] \in Seq(Row) /\ max \in Int
        /\ Limited(max) /\ (CaMax # -1 => max # -1)
    BY DEF LoginComplete, At, TypeInv, TypeOK, ContextsOK, ContextOK, Context
  <1>2. ASSUME NEW i \in DOMAIN users[id]
        PROVE  /\ users[id][i] \in Row /\ users[id][i].state \in Int
               /\ Limited(users[id][i].state)
               /\ base[id] + acked[id] <= users[id][i].state
    <2>1. users[id][i] \in Row
      BY <1>1, <1>2
    <2>2. Sound(id, users[id][i])
      BY <1>1, <1>2, CountersOKDef DEF Rows
    <2> QED BY <2>1, <2>2 DEF Sound, Row, State
  <1>3. ASSUME NEW i \in DOMAIN users[id]
        PROVE  rows[i] \in Row /\ rows[i].state \in Int
               /\ rows[i].state = IF i \in counted THEN users[id][i].state + 1
                                  ELSE users[id][i].state
    BY <1>2, <1>3 DEF Row, State
  <1>4. ASSUME NEW i \in DOMAIN users[id]
        PROVE  Limited(rows[i].state)
    <2>1. CASE i \notin counted
      BY <1>2, <1>3, <1>4, <2>1
    <2>2. CASE i \in counted
      <3>1. rows[i].state = users[id][i].state + 1 /\ users[id][i].state \in Int
        BY <1>2, <1>3, <1>4, <2>2
      <3>2. CaMax # -1 => users[id][i].state < max /\ max <= CaMax
        BY <1>1, <2>2 DEF Counted, Limited
      <3> HIDE DEF rows, id, max, counted
      <3> QED BY <1>1, <3>1, <3>2, RegistryAssumption DEF Limited
    <2> QED BY <2>1, <2>2
  <1>5. ASSUME NEW i \in DOMAIN users[id]
        PROVE  base'[id] + acked'[id] <= rows[i].state
    <2>1. base'[id] = base[id] /\ acked[id] \in Nat /\ base[id] \in Int
      BY <1>1 DEF LoginComplete, TypeInv, TypeOK
    <2>2. CASE ~OneRow(counted)
      <3>1. acked'[id] = acked[id]
        BY <2>2 DEF LoginComplete
      <3>2. /\ users[id][i].state \in Int /\ rows[i].state \in Int
            /\ rows[i].state >= users[id][i].state
        BY <1>2, <1>3, <1>5
      <3>3. base[id] + acked[id] <= users[id][i].state
        BY <1>2, <1>5
      <3> HIDE DEF rows, id, counted
      <3> QED BY <2>1, <3>1, <3>2, <3>3
    <2>3. CASE OneRow(counted)
      <3>1. PICK j \in DOMAIN users[id] : counted = {j}
        BY <2>3 DEF OneRow, Counted
      <3>2. acked'[id] = acked[id] + 1
        BY <1>1, <2>3 DEF LoginComplete, TypeInv, TypeOK
      <3>3. /\ users[id][i].state \in Int /\ users[id][j].state \in Int
            /\ base[id] + acked[id] <= users[id][i].state
            /\ base[id] + acked[id] <= users[id][j].state
        BY <1>2, <1>5
      <3>4. CASE i = j
        <4>1. rows[i].state = users[id][i].state + 1
          BY <1>3, <1>5, <3>1, <3>4
        <4> HIDE DEF rows, id, max, counted
        <4> QED BY <2>1, <3>2, <3>3, <4>1
      <3>5. CASE i # j
        <4>1. rows[i].state = users[id][i].state
          BY <1>3, <1>5, <3>1, <3>5
        <4>2. ~(users[id][i].state < max) /\ users[id][j].state < max
          <5>1. i \notin counted /\ j \in counted
            BY <3>1, <3>5
          <5> QED BY <1>5, <5>1 DEF Counted
        <4> HIDE DEF rows, id, max, counted
        <4> QED BY <1>1, <2>1, <3>2, <3>3, <4>1, <4>2
      <3> QED BY <3>4, <3>5
    <2> QED BY <2>2, <2>3
  <1>6. rows \in Seq(Row)
    BY <1>1, <1>3, MappedRows
  <1>7. /\ users' = [users EXCEPT ![id] = rows]
        /\ \A other \in Ids \ {id} : acked'[other] = acked[other] /\ base'[other] = base[other]
    BY <1>1 DEF LoginComplete, TypeInv, TypeOK
  <1>8. DOMAIN rows = DOMAIN users[id]
    OBVIOUS
  <1> HIDE DEF rows
  <1> QED BY <1>1, <1>4, <1>5, <1>6, <1>7, <1>8, OneIdentity DEF TypeInv

\* The statements that leave the users table and its observers alone.
LEMMA UntouchedCounters ==
    ASSUME CountersOK, UNCHANGED <<users, acked, base>>
    PROVE  CountersOK'
  BY DEF CountersOK, CounterWithinCALimit, AckedEnrollmentsAreCounted, Rows

\* A new row starts at zero, and so does the count of acked enrollments; a
\* revoked row it may be appended to is what base stands for.
LEMMA InsertUserCounters ==
    ASSUME TypeInv, CountersOK, NEW p \in Requests, InsertUser(p)
    PROVE  CountersOK'
  <1> DEFINE id == ctx[p].target
             rows == Append(users[id], ctx[p].row)
             revoked == \E row \in Rows(id) : row.state = -1
  <1>1. /\ id \in Ids /\ users[id] \in Seq(Row) /\ ctx[p].row \in Row
        /\ ctx[p].row.state = 0
    BY DEF InsertUser, At, TypeInv, TypeOK, ContextsOK, ContextOK, Context
  <1>2. CASE Conflicts(id)
    BY <1>2, UntouchedCounters DEF InsertUser
  <1>3. CASE ~Conflicts(id)
    <2>1. /\ users' = [users EXCEPT ![id] = rows]
          /\ acked'[id] = 0 /\ base'[id] = (IF revoked THEN -1 ELSE 0)
          /\ \A other \in Ids \ {id} :
                acked'[other] = acked[other] /\ base'[other] = base[other]
      BY <1>1, <1>3 DEF InsertUser, TypeInv, TypeOK
    <2>2. ASSUME NEW i \in DOMAIN rows
          PROVE  Limited(rows[i].state) /\ base'[id] + acked'[id] <= rows[i].state
      <3>1. CASE i \in DOMAIN users[id]
        <4>1. users[id][i] \in Row /\ rows[i] = users[id][i] /\ users[id][i] \in Rows(id)
          BY <1>1, <3>1 DEF Rows
        <4>2. Limited(rows[i].state)
          BY <1>1, <4>1, CountersOKDef DEF Sound
        <4>3. rows[i].state \in Nat \/ (rows[i].state = -1 /\ revoked)
          BY <4>1 DEF Row, State
        <4> HIDE DEF rows, id, revoked
        <4> QED BY <2>1, <4>2, <4>3
      <3>2. CASE i \notin DOMAIN users[id]
        <4>1. rows[i] = ctx[p].row
          BY <1>1, <2>2, <3>2
        <4> QED BY <1>1, <2>1, <4>1, RegistryAssumption DEF Limited
      <3> QED BY <3>1, <3>2
    <2>3. rows \in Seq(Row)
      BY <1>1
    <2> HIDE DEF rows
    <2> QED BY <1>1, <2>1, <2>2, <2>3, OneIdentity DEF TypeInv
  <1> QED BY <1>2, <1>3

\* Revocation and modification write the same counter to every row, and base
\* is set to what that leaves of it.
LEMMA OverwriteCounters ==
    ASSUME TypeInv, CountersOK, NEW id \in Ids, NEW state \in State, NEW rows \in Seq(Row),
           Limited(state), \A i \in DOMAIN rows : rows[i].state = state,
           users' = [users EXCEPT ![id] = rows],
           \A x \in Ids : /\ acked'[x] = acked[x]
                          /\ base'[x] = IF x = id THEN state - acked[id] ELSE base[x]
    PROVE  CountersOK'
  <1>1. base'[id] + acked'[id] = state
    BY DEF TypeInv, TypeOK, State
  <1>2. \A i \in DOMAIN rows :
            Limited(rows[i].state) /\ base'[id] + acked'[id] <= rows[i].state
    BY <1>1 DEF State
  <1>3. \A other \in Ids \ {id} : acked'[other] = acked[other] /\ base'[other] = base[other]
    OBVIOUS
  <1> QED BY <1>2, <1>3, OneIdentity DEF TypeInv

\* A revoked row holds -1.
LEMMA RevokeUserCounters ==
    ASSUME TypeInv, CountersOK, NEW p \in Requests, RevokeUser(p)
    PROVE  CountersOK'
  <1> DEFINE id == ctx[p].target
             rows == [i \in DOMAIN users[id] |-> RevokedRow(users[id][i])]
  <1>1. id \in Ids /\ users[id] \in Seq(Row)
    BY DEF RevokeUser, At, TypeInv, TypeOK, ContextsOK, ContextOK
  <1>2. ASSUME NEW i \in DOMAIN users[id]
        PROVE  rows[i] \in Row /\ rows[i].state = -1
    <2>1. users[id][i] \in Row
      BY <1>1, <1>2
    <2> QED BY <1>2, <2>1 DEF RevokedRow, Row, State
  <1>3. rows \in Seq(Row)
    BY <1>1, <1>2, MappedRows
  <1>4. -1 \in State /\ Limited(-1)
    BY RegistryAssumption DEF State, Limited
  <1>5. /\ users' = [users EXCEPT ![id] = rows]
        /\ \A x \in Ids : /\ acked'[x] = acked[x]
                          /\ base'[x] = IF x = id THEN -1 - acked[id] ELSE base[x]
    BY DEF RevokeUser, TypeInv, TypeOK
  <1>6. \A i \in DOMAIN rows : rows[i].state = -1
    BY <1>2
  <1> HIDE DEF rows, id
  <1> QED BY <1>1, <1>3, <1>4, <1>5, <1>6, OverwriteCounters

\* The row UpdateUser writes was read with a counter within the limit.
LEMMA UpdateUserCounters ==
    ASSUME TypeInv, CountersOK, NEW p \in Requests, UpdateUser(p)
    PROVE  CountersOK'
  <1> DEFINE id == ctx[p].target
             row == ctx[p].row
             rows == [i \in DOMAIN users[id] |-> row]
  <1>1. /\ id \in Ids /\ users[id] \in Seq(Row)
        /\ row \in Row /\ row.state \in State /\ Limited(row.state)
    BY DEF UpdateUser, At, TypeInv, TypeOK, ContextsOK, ContextOK, Context, Row
  <1>2. rows \in Seq(Row) /\ \A i \in DOMAIN rows : rows[i].state = row.state
    BY <1>1, MappedRows
  <1>3. /\ users' = [users EXCEPT ![id] = rows]
        /\ \A x \in Ids : /\ acked'[x] = acked[x]
                          /\ base'[x] = IF x = id THEN row.state - acked[id] ELSE base[x]
    BY DEF UpdateUser, TypeInv, TypeOK
  <1> HIDE DEF rows, id, row
  <1> QED BY <1>1, <1>2, <1>3, OverwriteCounters

\* A deleted identity has no counter left.
LEMMA DeleteUserCounters ==
    ASSUME TypeInv, CountersOK, NEW p \in Requests, DeleteUser(p)
    PROVE  CountersOK'
  <1>1. ctx[p].target \in Ids
    BY DEF DeleteUser, At, TypeInv, ContextsOK, ContextOK
  <1>2. CASE users[ctx[p].target] = <<>>
    BY <1>2, UntouchedCounters DEF DeleteUser
  <1>3. CASE users[ctx[p].target] # <<>>
    <2>1. /\ users' = [users EXCEPT ![ctx[p].target] = <<>>]
          /\ UNCHANGED <<acked, base>>
      BY <1>3 DEF DeleteUser
    <2>2. PICK none \in Seq(Row) : none = <<>> /\ DOMAIN none = {}
      <3>1. <<>> \in Seq(Row) /\ Len(<<>>) = 0
        OBVIOUS
      <3>2. \A rows \in Seq(Row) : Len(rows) = 0 => DOMAIN rows = {}
        OBVIOUS
      <3> QED BY <3>1, <3>2
    <2>3. users' = [users EXCEPT ![ctx[p].target] = none]
      BY <2>1, <2>2
    <2>4. \A i \in DOMAIN none :
            /\ Limited(none[i].state)
            /\ base'[ctx[p].target] + acked'[ctx[p].target] <= none[i].state
      BY <2>2
    <2> HIDE <2>2
    <2> QED BY <1>1, <2>1, <2>3, <2>4, OneIdentity DEF TypeInv
  <1> QED BY <1>2, <1>3

-----------------------------------------------------------------------------
(* The inductive invariant *)

\* Typing needs the counters within the limit, for the row a modification
\* reads, and the counters need the contexts: neither is inductive alone.
Inv == TypeInv /\ CountersOK

\* The bootstrap identity starts with an unused counter.
LEMMA InvInit == Init => Inv
  <1> SUFFICES ASSUME Init PROVE CountersOK
    BY TypeInvInit DEF Inv
  <1>1. ASSUME NEW id \in Ids, NEW row \in Rows(id) PROVE row.state = 0
    BY <1>1 DEF Init, Rows, NewRow
  <1>2. \A id \in Ids : base[id] + acked[id] = 0
    BY DEF Init
  <1>3. ASSUME NEW id \in Ids, NEW row \in Rows(id) PROVE Sound(id, row)
    BY <1>1, <1>2, <1>3, RegistryAssumption DEF Sound, Limited
  <1> QED BY <1>3, CountersOKDef

\* Every step of every handler keeps the counters sound.
LEMMA CountersNext ==
    ASSUME TypeInv, CountersOK, [Next]_vars
    PROVE  CountersOK'
  <1>1. ASSUME NEW p \in Requests, Authenticate(p) PROVE CountersOK'
    BY <1>1, UntouchedCounters DEF Authenticate, EnrollLogin, TokenAuthentication, GetCaller
  <1>2. ASSUME NEW p \in Requests, Enroll(p) PROVE CountersOK'
    BY <1>2, UntouchedCounters, LoginCompleteCounters DEF Enroll, SignCert
  <1>3. ASSUME NEW p \in Requests, Register(p) PROVE CountersOK'
    BY <1>3, UntouchedCounters, InsertUserCounters
       DEF Register, AuthorizeRegister, RegisterCheck, StartServer
  <1>4. ASSUME NEW p \in Requests, Revoke(p) PROVE CountersOK'
    BY <1>4, UntouchedCounters, RevokeUserCounters
       DEF Revoke, AuthorizeRevokeName, ListCertificates, RevokeCertificatesByID,
           AuthorizeRevokeSerial, RevokeCertificate
  <1>5. ASSUME NEW p \in Requests, ModifyOrDelete(p) PROVE CountersOK'
    BY <1>5, UntouchedCounters, UpdateUserCounters, DeleteUserCounters
       DEF ModifyOrDelete, AuthorizeModify, AuthorizeDelete
  <1>6. ASSUME NEW p \in Requests, Fail(p) PROVE CountersOK'
    BY <1>6, UntouchedCounters DEF Fail
  <1>7. ASSUME UNCHANGED vars PROVE CountersOK'
    BY <1>7, UntouchedCounters DEF vars
  <1> QED BY <1>1, <1>2, <1>3, <1>4, <1>5, <1>6, <1>7 DEF Next

\* The invariant is inductive.
LEMMA InvNext == Inv /\ [Next]_vars => Inv'
  BY TypeInvNext, CountersNext DEF Inv, CountersOK

\* The invariant holds in every reachable state.
LEMMA Invariant == Spec => []Inv
  BY InvInit, InvNext, PTL DEF Spec

-----------------------------------------------------------------------------
(* Staying out *)

\* A record that is written as revoked is.
LEMMA RevokedIsNotGood ==
    ASSUME TypeOK, NEW s \in Serials, NEW reason
    PROVE  [certs[s] EXCEPT !.status = "revoked", !.reason = reason].status = "revoked"
  <1>1. CASE certs[s] \in Cert
    BY <1>1 DEF Cert
  <1>2. CASE certs[s] = NoCert
    BY <1>2 DEF NoCert
  <1> QED BY <1>1, <1>2 DEF TypeOK

\* A step that revokes certificates but issues none leaves id without one.
LEMMA NoNewGood ==
    ASSUME NEW id \in Ids, Good(id) = {},
           \A s \in Serials : certs'[s].id = id /\ certs'[s].status = "good"
                                => certs[s].id = id /\ certs[s].status = "good"
    PROVE  Good(id)' = {}
  BY DEF Good

\* A request moves on to a context that readmits nobody.
LEMMA NoNewReadmission ==
    ASSUME TypeOK, NEW id \in Ids, Excluded(id), NEW p \in Requests, NEW c,
           Become(p, c), ~MayReadmit(c, id)
    PROVE  \A q \in Requests : ~MayReadmit(ctx'[q], id)
  BY DEF TypeOK, Excluded, Become

\* What reads only, and ends or moves to such a context, keeps id out.
LEMMA ReadOnly ==
    ASSUME TypeOK, NEW id \in Ids, Excluded(id), NEW p \in Requests, NEW c,
           Become(p, c), ~MayReadmit(c, id), UNCHANGED <<users, certs>>
    PROVE  Excluded(id)'
  BY NoNewReadmission DEF Excluded, Disabled, Rows, Good

\* An answered request readmits nobody.
LEMMA IdleReadmitsNobody == \A id \in Ids : ~MayReadmit(Idle, id)
  BY RegistryAssumption DEF MayReadmit, Idle

\* The row Login reads is disabled, TokenAuthentication finds no certificate.
LEMMA ExcludedAuthenticate ==
    ASSUME Inv, NEW id \in Ids, Excluded(id), NEW p \in Requests, Authenticate(p)
    PROVE  Excluded(id)'
  <1> USE DEF Inv, TypeInv
  <1>1. ASSUME NEW x \in Ids, EnrollLogin(p, x) PROVE Excluded(id)'
    <2>1. PICK row \in Rows(x) : LoginAccepts(row) /\
            Become(p, [Idle EXCEPT !.op = "enroll", !.pc = "caller", !.id = x,
                                   !.max = LoginMax(row.max)])
      BY <1>1 DEF EnrollLogin
    <2>2. x # id
      BY <2>1 DEF LoginAccepts, Excluded, Disabled
    <2> DEFINE c == [Idle EXCEPT !.op = "enroll", !.pc = "caller", !.id = x,
                                 !.max = LoginMax(row.max)]
    <2>3. ~MayReadmit(c, id)
      BY <2>2 DEF MayReadmit, Idle
    <2> HIDE DEF c
    <2> QED BY <1>1, <2>1, <2>3, ReadOnly DEF EnrollLogin, c
  <1>2. ASSUME NEW op \in TokenOps, NEW s \in Serials, TokenAuthentication(p, op, s)
        PROVE  Excluded(id)'
    <2> DEFINE c == [Idle EXCEPT !.op = op, !.pc = "caller", !.id = certs[s].id,
                                 !.cert = IF op = "revokeSerial" THEN s ELSE None]
    <2>1. certs[s].id # id
      BY <1>2 DEF TokenAuthentication, Authenticates, Excluded, Good
    <2>2. ~MayReadmit(c, id)
      BY <2>1, RegistryAssumption DEF MayReadmit, Idle
    <2>3. Become(p, c) /\ UNCHANGED <<users, certs>>
      BY <1>2 DEF TokenAuthentication
    <2> HIDE DEF c
    <2> QED BY <2>2, <2>3, ReadOnly
  <1>3. ASSUME GetCaller(p) PROVE Excluded(id)'
    <2>1. PICK row \in Rows(ctx[p].id) : Become(p, [ctx[p] EXCEPT
             !.pc = IF ctx[p].op \in {"enroll", "reenroll"} THEN "sign" ELSE "authorize",
             !.caller = IF ctx[p].op \in {"register", "modify", "delete"}
                        THEN row.attrs ELSE {}])
      BY <1>3 DEF GetCaller
    <2> DEFINE c == [ctx[p] EXCEPT
             !.pc = IF ctx[p].op \in {"enroll", "reenroll"} THEN "sign" ELSE "authorize",
             !.caller = IF ctx[p].op \in {"register", "modify", "delete"}
                        THEN row.attrs ELSE {}]
    <2>2. ctx[p] \in Context /\ ~MayReadmit(ctx[p], id)
      BY DEF TypeOK, Excluded
    <2>3. c.id = ctx[p].id /\ c.op = ctx[p].op /\ c.pc \in {"sign", "authorize"}
      BY <2>2 DEF Context
    <2>4. ~MayReadmit(c, id)
      BY <2>2, <2>3 DEF MayReadmit
    <2> HIDE DEF c
    <2> QED BY <1>3, <2>1, <2>4, ReadOnly DEF GetCaller, c
  <1> QED BY <1>1, <1>2, <1>3 DEF Authenticate

\* A certificate is signed, and an enrollment counted, for another identity.
LEMMA ExcludedEnroll ==
    ASSUME Inv, NEW id \in Ids, Excluded(id), NEW p \in Requests, Enroll(p)
    PROVE  Excluded(id)'
  <1> USE DEF Inv, TypeInv
  <1>1. ctx[p] \in Context /\ ContextOK(ctx[p]) /\ ~MayReadmit(ctx[p], id)
    BY DEF TypeOK, ContextsOK, Excluded
  <1>2. ASSUME SignCert(p) PROVE Excluded(id)'
    <2>1. ctx[p].id # id
      BY <1>1, <1>2 DEF SignCert, At, ContextOK, MayReadmit
    <2>2. Good(id)' = {}
      <3>1. \A s \in Serials : certs'[s].id = id => certs'[s] = certs[s]
        BY <1>2, <2>1 DEF SignCert, TypeOK
      <3> QED BY <3>1, NoNewGood DEF Excluded
    <2> DEFINE c == [ctx[p] EXCEPT !.pc = "complete"]
    <2>3. ~MayReadmit(c, id)
      BY <1>1, <2>1 DEF MayReadmit, Context
    <2>4. Become(p, c) \/ Become(p, Idle)
      BY <1>2 DEF SignCert, Goto, Done
    <2>5. \A q \in Requests : ~MayReadmit(ctx'[q], id)
      <3> HIDE DEF c
      <3> QED BY <2>3, <2>4, NoNewReadmission, IdleReadmitsNobody
    <2> QED BY <1>2, <2>2, <2>5 DEF SignCert, Excluded, Disabled, Rows
  <1>3. ASSUME LoginComplete(p) PROVE Excluded(id)'
    <2>1. ctx[p].id # id
      BY <1>1, <1>3 DEF LoginComplete, At, ContextOK, MayReadmit
    <2>2. users'[id] = users[id] /\ certs' = certs
      BY <1>3, <2>1 DEF LoginComplete, TypeOK
    <2>3. \A q \in Requests : ~MayReadmit(ctx'[q], id)
      BY <1>3, NoNewReadmission, IdleReadmitsNobody DEF LoginComplete, Done
    <2> QED BY <2>2, <2>3 DEF Excluded, Disabled, Rows, Good
  <1> QED BY <1>2, <1>3 DEF Enroll

\* A registration of id has to find the ID free again first.
LEMMA ExcludedRegister ==
    ASSUME Inv, NEW id \in Ids, Excluded(id), NEW p \in Requests, Register(p)
    PROVE  Excluded(id)' \/ Registering(id)
  <1> USE DEF Inv, TypeInv
  <1>1. ctx[p] \in Context /\ ContextOK(ctx[p]) /\ ~MayReadmit(ctx[p], id)
    BY DEF TypeOK, ContextsOK, Excluded
  <1>2. ASSUME AuthorizeRegister(p) PROVE Excluded(id)'
    <2>1. PICK x \in Ids, attrs \in SUBSET (ReqAttrs \cap ctx[p].caller), req \in ReqMax :
            \E max \in RegisteredMax(req) :
              Become(p, [ctx[p] EXCEPT !.pc = "check", !.target = x,
                                       !.row = NewRow(max, attrs)])
      BY <1>2 DEF AuthorizeRegister
    <2>2. PICK max : Become(p, [ctx[p] EXCEPT !.pc = "check", !.target = x,
                                              !.row = NewRow(max, attrs)])
      BY <2>1
    <2> DEFINE c == [ctx[p] EXCEPT !.pc = "check", !.target = x,
                                   !.row = NewRow(max, attrs)]
    <2>3. c.id = ctx[p].id /\ c.op = ctx[p].op /\ c.pc = "check"
      BY <1>1 DEF Context
    <2>4. ~MayReadmit(c, id)
      BY <1>1, <2>3 DEF MayReadmit
    <2> HIDE DEF c
    <2> QED BY <1>2, <2>2, <2>4, ReadOnly DEF AuthorizeRegister, c
  <1>3. ASSUME RegisterCheck(p) PROVE Excluded(id)' \/ Registering(id)
    <2> DEFINE c == [ctx[p] EXCEPT !.pc = "insert"]
    <2>1. Become(p, c) /\ UNCHANGED <<users, certs>>
      BY <1>3 DEF RegisterCheck, Goto
    <2>2. /\ c.id = ctx[p].id /\ c.op = ctx[p].op
          /\ c.pc = "insert" /\ c.target = ctx[p].target
      BY <1>1 DEF Context
    <2>3. CASE ctx[p].target = id
      <3>1. ctx'[p] = c
        BY <2>1 DEF Become, TypeOK
      <3> HIDE DEF c
      <3> QED BY <2>2, <2>3, <3>1 DEF Registering
    <2>4. CASE ctx[p].target # id
      <3>1. ~MayReadmit(c, id)
        BY <1>1, <2>2, <2>4 DEF MayReadmit
      <3> HIDE DEF c
      <3> QED BY <2>1, <3>1, ReadOnly
    <2> QED BY <2>3, <2>4
  <1>4. ASSUME StartServer(p) PROVE Excluded(id)' \/ Registering(id)
    <2>1. PICK max : Become(p, [Idle EXCEPT !.op = "start", !.pc = "insert",
                                  !.target = Admin, !.row = NewRow(max, Attrs)])
      BY <1>4 DEF StartServer
    <2> DEFINE c == [Idle EXCEPT !.op = "start", !.pc = "insert", !.target = Admin,
                                 !.row = NewRow(max, Attrs)]
    <2>2. c.op = "start" /\ c.pc = "insert" /\ c.target = Admin
      BY DEF Idle
    <2>3. Become(p, c) /\ UNCHANGED <<users, certs>>
      BY <1>4, <2>1 DEF StartServer
    <2>4. CASE Admin = id
      <3>1. ctx'[p] = c
        BY <2>3 DEF Become, TypeOK
      <3> HIDE DEF c
      <3> QED BY <2>2, <2>4, <3>1 DEF Registering
    <2>5. CASE Admin # id
      <3>1. ~MayReadmit(c, id)
        BY <2>2, <2>5 DEF MayReadmit
      <3> HIDE DEF c
      <3> QED BY <2>3, <3>1, ReadOnly
    <2> QED BY <2>4, <2>5
  <1>5. ASSUME InsertUser(p) PROVE Excluded(id)'
    <2>1. ctx[p].target # id
      BY <1>1, <1>5 DEF InsertUser, At, MayReadmit
    <2>2. users'[id] = users[id] /\ certs' = certs
      BY <1>5, <2>1 DEF InsertUser, TypeOK
    <2>3. \A q \in Requests : ~MayReadmit(ctx'[q], id)
      BY <1>5, NoNewReadmission, IdleReadmitsNobody DEF InsertUser, Done
    <2> QED BY <2>2, <2>3 DEF Excluded, Disabled, Rows, Good
  <1> QED BY <1>2, <1>3, <1>4, <1>5 DEF Register

\* Revocation disables and revokes, whoever it names.
LEMMA ExcludedRevoke ==
    ASSUME Inv, NEW id \in Ids, Excluded(id), NEW p \in Requests, Revoke(p)
    PROVE  Excluded(id)'
  <1> USE DEF Inv, TypeInv
  <1>1. ctx[p] \in Context /\ ~MayReadmit(ctx[p], id)
    BY DEF TypeOK, Excluded
  <1>2. ASSUME AuthorizeRevokeName(p) PROVE Excluded(id)'
    <2>1. PICK x, reason :
            Become(p, [ctx[p] EXCEPT !.pc = "revoke", !.target = x, !.reason = reason])
      BY <1>2 DEF AuthorizeRevokeName
    <2> DEFINE c == [ctx[p] EXCEPT !.pc = "revoke", !.target = x, !.reason = reason]
    <2>2. ~MayReadmit(c, id)
      BY <1>1 DEF MayReadmit, Context
    <2> HIDE DEF c
    <2> QED BY <1>2, <2>1, <2>2, ReadOnly DEF AuthorizeRevokeName, c
  <1>3. ASSUME RevokeUser(p) PROVE Excluded(id)'
    <2> DEFINE c == [ctx[p] EXCEPT !.pc = "list"]
    <2>1. ~MayReadmit(c, id) /\ (Become(p, c) \/ Become(p, Idle))
      BY <1>1, <1>3 DEF MayReadmit, Context, RevokeUser, Goto, Done
    <2>2. \A q \in Requests : ~MayReadmit(ctx'[q], id)
      <3> HIDE DEF c
      <3> QED BY <2>1, NoNewReadmission, IdleReadmitsNobody
    <2>3. Disabled(id)'
      <3>1. CASE ctx[p].target = id
        <4>1. users'[id] = [i \in DOMAIN users[id] |-> RevokedRow(users[id][i])]
          BY <1>3, <3>1 DEF RevokeUser, TypeOK
        <4>2. ASSUME NEW i \in DOMAIN users[id] PROVE RevokedRow(users[id][i]).state = -1
          <5>1. users[id][i] \in Row
            BY <4>2 DEF TypeOK
          <5> QED BY <5>1 DEF RevokedRow, Row
        <4> QED BY <4>1, <4>2 DEF Disabled, Rows
      <3>2. CASE ctx[p].target # id
        BY <1>3, <3>2 DEF RevokeUser, TypeOK, Excluded, Disabled, Rows
      <3> QED BY <3>1, <3>2
    <2> QED BY <1>3, <2>2, <2>3 DEF RevokeUser, Excluded, Good
  <1>4. ASSUME ListCertificates(p) PROVE Excluded(id)'
    <2>1. PICK good : Become(p, [ctx[p] EXCEPT !.pc = "sweep", !.listed = good])
      BY <1>4 DEF ListCertificates
    <2> DEFINE c == [ctx[p] EXCEPT !.pc = "sweep", !.listed = good]
    <2>2. ~MayReadmit(c, id)
      BY <1>1 DEF MayReadmit, Context
    <2> HIDE DEF c
    <2> QED BY <1>4, <2>1, <2>2, ReadOnly DEF ListCertificates, c
  <1>5. ASSUME RevokeCertificatesByID(p) PROVE Excluded(id)'
    <2>1. Good(id)' = {}
      <3>1. \A s \in Serials : certs'[s].id = id /\ certs'[s].status = "good"
                                 => certs'[s] = certs[s]
        BY <1>5, RevokedIsNotGood DEF RevokeCertificatesByID, RevokeByID
      <3> QED BY <3>1, NoNewGood DEF Excluded
    <2>2. \A q \in Requests : ~MayReadmit(ctx'[q], id)
      BY <1>5, NoNewReadmission, IdleReadmitsNobody DEF RevokeCertificatesByID, Done
    <2> QED BY <1>5, <2>1, <2>2 DEF RevokeCertificatesByID, Excluded, Disabled, Rows
  <1>6. ASSUME AuthorizeRevokeSerial(p) PROVE Excluded(id)'
    <2>1. PICK s, reason :
            Become(p, [ctx[p] EXCEPT !.pc = "revokeCert", !.reason = reason,
                                     !.listed = {s}])
      BY <1>6 DEF AuthorizeRevokeSerial
    <2> DEFINE c == [ctx[p] EXCEPT !.pc = "revokeCert", !.reason = reason, !.listed = {s}]
    <2>2. ~MayReadmit(c, id)
      BY <1>1 DEF MayReadmit, Context
    <2> HIDE DEF c
    <2> QED BY <1>6, <2>1, <2>2, ReadOnly DEF AuthorizeRevokeSerial, c
  <1>7. ASSUME RevokeCertificate(p) PROVE Excluded(id)'
    <2>1. Good(id)' = {}
      <3>1. \A s \in Serials : certs'[s].status = "good" => certs'[s] = certs[s]
        BY <1>7, RevokedIsNotGood DEF RevokeCertificate
      <3> QED BY <3>1, NoNewGood DEF Excluded
    <2>2. \A q \in Requests : ~MayReadmit(ctx'[q], id)
      BY <1>7, NoNewReadmission, IdleReadmitsNobody DEF RevokeCertificate, Done
    <2> QED BY <1>7, <2>1, <2>2 DEF RevokeCertificate, Excluded, Disabled, Rows
  <1> QED BY <1>2, <1>3, <1>4, <1>5, <1>6, <1>7 DEF Revoke

\* A modification writes back the disabled row it read.
LEMMA ExcludedModifyOrDelete ==
    ASSUME Inv, NEW id \in Ids, Excluded(id), NEW p \in Requests, ModifyOrDelete(p)
    PROVE  Excluded(id)'
  <1> USE DEF Inv, TypeInv
  <1>1. ctx[p] \in Context /\ ~MayReadmit(ctx[p], id)
    BY DEF TypeOK, Excluded
  <1>2. ASSUME AuthorizeModify(p) PROVE Excluded(id)'
    <2>1. PICK x \in Ids, req \in ReqMax : \E row \in Rows(x),
            added \in SUBSET (ReqAttrs \cap ctx[p].caller),
            removed \in SUBSET (ReqAttrs \cap ctx[p].caller) :
              Become(p, [ctx[p] EXCEPT !.pc = "update", !.target = x,
                !.row = ModifiedRow(row, req, (row.attrs \cup added) \ removed)])
      BY <1>2 DEF AuthorizeModify
    <2>2. PICK row, attrs : row \in Rows(x) /\
              Become(p, [ctx[p] EXCEPT !.pc = "update", !.target = x,
                                       !.row = ModifiedRow(row, req, attrs)])
      BY <2>1
    <2> DEFINE new == ModifiedRow(row, req, attrs)
               c == [ctx[p] EXCEPT !.pc = "update", !.target = x, !.row = new]
    <2>3. new.state = row.state
      BY <2>2, RowsTyped DEF ModifiedRow, Row
    <2>4. x = id => new.state = -1
      BY <2>2, <2>3 DEF Excluded, Disabled
    <2> HIDE DEF new
    <2>5. c.id = ctx[p].id /\ c.op = ctx[p].op /\ c.pc = "update" /\ c.target = x /\ c.row = new
      BY <1>1 DEF Context
    <2> HIDE DEF c
    <2>6. ~MayReadmit(c, id)
      BY <1>1, <2>4, <2>5 DEF MayReadmit
    <2> QED BY <1>2, <2>2, <2>6, ReadOnly DEF AuthorizeModify, c, new
  <1>3. ASSUME UpdateUser(p) PROVE Excluded(id)'
    <2>1. ctx[p].target = id => ctx[p].row.state = -1
      BY <1>1, <1>3 DEF UpdateUser, At, MayReadmit
    <2>2. Disabled(id)'
      <3>1. CASE ctx[p].target = id
        <4>1. users'[id] = [i \in DOMAIN users[id] |-> ctx[p].row]
          BY <1>3, <3>1 DEF UpdateUser, TypeOK
        <4> QED BY <2>1, <3>1, <4>1 DEF Disabled, Rows
      <3>2. CASE ctx[p].target # id
        BY <1>3, <3>2 DEF UpdateUser, TypeOK, Excluded, Disabled, Rows
      <3> QED BY <3>1, <3>2
    <2>3. \A q \in Requests : ~MayReadmit(ctx'[q], id)
      BY <1>3, NoNewReadmission, IdleReadmitsNobody DEF UpdateUser, Done
    <2> QED BY <1>3, <2>2, <2>3 DEF UpdateUser, Excluded, Good
  <1>4. ASSUME AuthorizeDelete(p) PROVE Excluded(id)'
    <2>1. PICK x : Become(p, [ctx[p] EXCEPT !.pc = "delete", !.target = x])
      BY <1>4 DEF AuthorizeDelete
    <2> DEFINE c == [ctx[p] EXCEPT !.pc = "delete", !.target = x]
    <2>2. ~MayReadmit(c, id)
      BY <1>1 DEF MayReadmit, Context
    <2> HIDE DEF c
    <2> QED BY <1>4, <2>1, <2>2, ReadOnly DEF AuthorizeDelete, c
  <1>5. ASSUME DeleteUser(p) PROVE Excluded(id)'
    <2>1. Good(id)' = {}
      <3>1. \A s \in Serials : certs'[s].id = id /\ certs'[s].status = "good"
                                 => certs'[s] = certs[s]
        <4>1. certs' = certs \/ certs' = RevokeByID(ctx[p].target, Cessation)
          BY <1>5 DEF DeleteUser
        <4> QED BY <4>1, RevokedIsNotGood DEF RevokeByID
      <3> QED BY <3>1, NoNewGood DEF Excluded
    <2>2. Disabled(id)'
      <3>1. DOMAIN <<>> = {}
        <4>1. <<>> \in Seq(Row) /\ Len(<<>>) = 0
          OBVIOUS
        <4> QED BY <4>1
      <3>2. users'[id] = users[id] \/ users'[id] = <<>>
        BY <1>5 DEF DeleteUser, TypeOK
      <3> QED BY <3>1, <3>2 DEF Excluded, Disabled, Rows
    <2>3. \A q \in Requests : ~MayReadmit(ctx'[q], id)
      BY <1>5, NoNewReadmission, IdleReadmitsNobody DEF DeleteUser, Done
    <2> QED BY <2>1, <2>2, <2>3 DEF Excluded
  <1> QED BY <1>2, <1>3, <1>4, <1>5 DEF ModifyOrDelete

\* No step lets an excluded identity back in but one that registers it.
LEMMA ExcludedNext ==
    ASSUME Inv, NEW id \in Ids, Excluded(id), [Next]_vars
    PROVE  Excluded(id)' \/ Registering(id)
  <1>1. ASSUME NEW p \in Requests, Fail(p) PROVE Excluded(id)'
    BY <1>1, ReadOnly, IdleReadmitsNobody DEF Fail, Done, Inv, TypeInv
  <1>2. ASSUME UNCHANGED vars PROVE Excluded(id)'
    BY <1>2 DEF vars, Excluded, Disabled, Rows, Good, MayReadmit
  <1> QED
    BY <1>1, <1>2, ExcludedAuthenticate, ExcludedEnroll, ExcludedRegister, ExcludedRevoke,
       ExcludedModifyOrDelete DEF Next

-----------------------------------------------------------------------------
(* The allowance of an identity *)

\* Nobody modifies or revokes an identity by name while other requests are in
\* flight, and no failed statement or crash lets an id be inserted twice.
Disciplined ==
    /\ UniqueId \/ ~Faults
    /\ {"modify", "revokeName"} \cap Together = {}

NoneRevoked(id) == \A row \in Rows(id) : row.state # -1

\* A counter that has the enrollments acked for id, or that of a revoked row.
Has(id, state) == acked[id] <= state \/ (state = -1 /\ Limited(acked[id]))

\* The rows of an identity are revoked together.
RowsAllowed(id) ==
    /\ Disabled(id) \/ NoneRevoked(id)
    /\ \A row \in Rows(id) : Has(id, row.state)

\* What a request in flight keeps true of the rows it read: an accepted login,
\* an id found free, a record to be written back.
ContextAllowed(c) ==
    /\ c.pc = "revoke" => c.op = "revokeName"
    /\ c.pc = "update" => c.op = "modify" /\ Has(c.target, c.row.state)
    /\ c.pc \in {"caller", "sign", "complete"} /\ c.op = "enroll" => NoneRevoked(c.id)
    /\ c.pc = "insert" => UniqueId \/ NoneRevoked(c.target)

\* Requests in flight with others are of the operations that may be.
InFlightTogether == \A p, q \in Requests :
    p # q /\ ~At(p, "idle") /\ ~At(q, "idle") => ctx[p].op \in Together

AllowanceInv ==
    /\ \A id \in Ids : RowsAllowed(id)
    /\ \A p \in Requests : ContextAllowed(ctx[p])
    /\ InFlightTogether

LEMMA InFlightStep ==
    ASSUME TypeOK, InFlightTogether, NEW p \in Requests, NEW c, Become(p, c),
           c.pc = "idle" \/ (c.op = ctx[p].op /\ ~At(p, "idle")) \/ Arrives(p, c.op)
    PROVE  InFlightTogether'
  <1>1. \A q \in Requests : ctx'[q] = IF q = p THEN c ELSE ctx[q]
    BY DEF TypeOK, Become
  <1>2. ASSUME NEW q \in Requests \ {p}, c.pc # "idle", ~At(q, "idle")
        PROVE  c.op \in Together /\ ctx[q].op \in Together
    <2>1. CASE c.op = ctx[p].op /\ ~At(p, "idle")
      BY <1>2, <2>1 DEF InFlightTogether
    <2>2. CASE Arrives(p, c.op)
      BY <1>2, <2>2 DEF Arrives
    <2> QED BY <1>2, <2>1, <2>2
  <1> QED BY <1>1, <1>2 DEF InFlightTogether, At

\* A step that leaves the users table alone.
LEMMA ReadAllowance ==
    ASSUME TypeInv, AllowanceInv, NEW p \in Requests, NEW c, Become(p, c),
           UNCHANGED <<users, acked>>, ContextAllowed(c),
           c.pc = "idle" \/ (c.op = ctx[p].op /\ ~At(p, "idle")) \/ Arrives(p, c.op)
    PROVE  AllowanceInv'
  <1>1. \A q \in Requests : ctx'[q] = IF q = p THEN c ELSE ctx[q]
    BY DEF TypeInv, TypeOK, Become
  <1>2. InFlightTogether'
    BY InFlightStep DEF TypeInv, AllowanceInv
  <1>3. \A id \in Ids : RowsAllowed(id)'
    BY DEF AllowanceInv, RowsAllowed, Disabled, NoneRevoked, Has, Rows
  <1>4. ASSUME NEW d, ContextAllowed(d), NEW q \in Requests, ctx'[q] = d
        PROVE  ContextAllowed(ctx[q])'
    BY <1>4 DEF ContextAllowed, NoneRevoked, Has, Rows
  <1>5. \A q \in Requests : ContextAllowed(ctx[q])'
    BY <1>1, <1>4 DEF AllowanceInv
  <1> QED BY <1>2, <1>3, <1>5 DEF AllowanceInv

\* A statement that writes the rows of identities either runs alone, or
\* revokes nobody.
LEMMA WriteAllowance ==
    ASSUME TypeInv, AllowanceInv, {"modify", "revokeName"} \cap Together = {},
           NEW p \in Requests, NEW c, Become(p, c), ~At(p, "idle"),
           c.pc \notin {"revoke", "update", "insert", "caller", "sign", "complete"},
           c.pc = "idle" \/ c.op = ctx[p].op,
           \A id \in Ids : RowsAllowed(id)',
           \/ ctx[p].op \notin Together
           \/ \A id \in Ids : NoneRevoked(id) => NoneRevoked(id)'
    PROVE  AllowanceInv'
  <1>1. \A q \in Requests : ctx'[q] = IF q = p THEN c ELSE ctx[q]
    BY DEF TypeInv, TypeOK, Become
  <1>2. InFlightTogether'
    BY InFlightStep DEF TypeInv, AllowanceInv
  <1>3. ContextAllowed(ctx[p])'
    BY <1>1 DEF ContextAllowed
  <1>4. ASSUME NEW q \in Requests \ {p} PROVE ContextAllowed(ctx[q])'
    <2>1. ctx'[q] = ctx[q] /\ ContextAllowed(ctx[q]) /\ ContextOK(ctx[q])
      BY <1>1 DEF AllowanceInv, TypeInv, ContextsOK
    <2>2. CASE At(q, "idle")
      BY <2>1, <2>2 DEF At, ContextAllowed
    <2>3. CASE ~At(q, "idle")
      <3>1. ctx[p].op \in Together /\ ctx[q].op \in Together
        BY <2>3 DEF AllowanceInv, InFlightTogether
      <3>2. ctx[q].pc # "revoke" /\ ctx[q].pc # "update"
        BY <2>1, <3>1 DEF ContextAllowed
      <3>3. \A id \in Ids : NoneRevoked(id) => NoneRevoked(id)'
        BY <3>1
      <3>4. /\ ctx[q].pc \in {"caller", "sign", "complete"} => ctx[q].id \in Ids
            /\ ctx[q].pc = "insert" => ctx[q].target \in Ids
        BY <2>1 DEF ContextOK
      <3>5. /\ ctx[q].pc \in {"caller", "sign", "complete"} /\ ctx[q].op = "enroll"
                 => NoneRevoked(ctx[q].id)'
            /\ ctx[q].pc = "insert" => UniqueId \/ NoneRevoked(ctx[q].target)'
        BY <2>1, <3>3, <3>4 DEF ContextAllowed
      <3> QED BY <2>1, <3>2, <3>5 DEF ContextAllowed, NoneRevoked, Rows
    <2> QED BY <2>2, <2>3
  <1> QED BY <1>2, <1>3, <1>4 DEF AllowanceInv

\* It only has to be seen to for the rows it writes.
LEMMA OneAllowance ==
    ASSUME TypeOK, AllowanceInv, NEW id \in Ids, NEW rows \in Seq(Row),
           users' = [users EXCEPT ![id] = rows],
           \A other \in Ids \ {id} : acked'[other] = acked[other],
           (\A i \in DOMAIN rows : rows[i].state = -1) \/ (\A i \in DOMAIN rows : rows[i].state # -1),
           \A i \in DOMAIN rows :
               acked'[id] <= rows[i].state \/ (rows[i].state = -1 /\ Limited(acked'[id]))
    PROVE  /\ \A x \in Ids : RowsAllowed(x)'
           /\ (NoneRevoked(id) => \A i \in DOMAIN rows : rows[i].state # -1)
                => \A x \in Ids : NoneRevoked(x) => NoneRevoked(x)'
  <1>1. \A x \in Ids : users'[x] = IF x = id THEN rows ELSE users[x]
    BY DEF TypeOK
  <1>2. ASSUME NEW x \in Ids \ {id}
        PROVE  RowsAllowed(x)' /\ (NoneRevoked(x) => NoneRevoked(x)')
    BY <1>1 DEF AllowanceInv, RowsAllowed, Disabled, NoneRevoked, Has, Rows
  <1>3. RowsAllowed(id)'
    BY <1>1 DEF RowsAllowed, Disabled, NoneRevoked, Has, Rows
  <1>4. (\A i \in DOMAIN rows : rows[i].state # -1) => NoneRevoked(id)'
    BY <1>1 DEF NoneRevoked, Rows
  <1> QED BY <1>2, <1>3, <1>4

\* LoginComplete counts in rows that nobody revoked since Login.
LEMMA LoginCompleteAllowance ==
    ASSUME TypeInv, CountersOK, AllowanceInv, Disciplined, NEW p \in Requests, LoginComplete(p)
    PROVE  AllowanceInv'
  <1> DEFINE id == ctx[p].id
             max == ctx[p].max
             counted == Counted(id, max)
             rows == [i \in DOMAIN users[id] |->
                       IF i \in counted THEN [users[id][i] EXCEPT !.state = @ + 1]
                       ELSE users[id][i]]
  <1>1. /\ id \in Ids /\ users[id] \in Seq(Row) /\ max \in Int /\ acked[id] \in Nat
        /\ ~At(p, "idle") /\ ctx[p].pc = "complete" /\ ctx[p].op = "enroll"
    BY DEF LoginComplete, At, TypeInv, TypeOK, ContextsOK, ContextOK, Context
  <1>2. NoneRevoked(id)
    BY <1>1 DEF AllowanceInv, ContextAllowed
  <1>3. ASSUME NEW i \in DOMAIN users[id]
        PROVE  users[id][i] \in Row /\ users[id][i].state \in Nat /\ acked[id] <= users[id][i].state
    <2>1. users[id][i] \in Row
      BY <1>1, <1>3
    <2>2. users[id][i].state # -1 /\ Has(id, users[id][i].state)
      BY <1>1, <1>2, <1>3 DEF NoneRevoked, Rows, AllowanceInv, RowsAllowed
    <2> QED BY <2>1, <2>2 DEF Has, Row, State
  <1>4. ASSUME NEW i \in DOMAIN users[id]
        PROVE  /\ rows[i] \in Row /\ rows[i].state \in Nat
               /\ rows[i].state = IF i \in counted THEN users[id][i].state + 1
                                  ELSE users[id][i].state
    <2>1. users[id][i] \in Row /\ users[id][i].state \in Nat
      BY <1>3, <1>4
    <2>2. /\ [users[id][i] EXCEPT !.state = @ + 1] \in Row
          /\ [users[id][i] EXCEPT !.state = @ + 1].state = users[id][i].state + 1
      BY <2>1 DEF Row, State
    <2>3. rows[i] = IF i \in counted THEN [users[id][i] EXCEPT !.state = @ + 1]
                    ELSE users[id][i]
      BY <1>4
    <2> HIDE DEF rows, counted, id, max
    <2> QED BY <2>1, <2>2, <2>3
  <1>5. ASSUME NEW i \in DOMAIN users[id]
        PROVE  acked'[id] <= rows[i].state
    <2>1. CASE ~OneRow(counted)
      <3>1. acked'[id] = acked[id]
        BY <2>1 DEF LoginComplete
      <3>2. /\ users[id][i].state \in Nat /\ rows[i].state \in Nat
            /\ acked[id] <= users[id][i].state
            /\ rows[i].state \in {users[id][i].state, users[id][i].state + 1}
        <4> HIDE DEF rows, counted, id
        <4> QED BY <1>3, <1>4, <1>5
      <3> HIDE DEF rows, id, counted
      <3> QED BY <1>1, <3>1, <3>2
    <2>2. CASE OneRow(counted)
      <3>1. PICK j \in DOMAIN users[id] : counted = {j}
        BY <2>2 DEF OneRow, Counted
      <3>2. acked'[id] = acked[id] + 1
        BY <1>1, <2>2 DEF LoginComplete, TypeInv, TypeOK
      <3>3. /\ users[id][i].state \in Nat /\ users[id][j].state \in Nat
            /\ acked[id] <= users[id][i].state /\ acked[id] <= users[id][j].state
        BY <1>3, <1>5
      <3>4. CASE i = j
        <4>1. rows[i].state = users[id][i].state + 1
          BY <1>4, <1>5, <3>1, <3>4
        <4> HIDE DEF rows, id, max, counted
        <4> QED BY <1>1, <3>2, <3>3, <4>1
      <3>5. CASE i # j
        <4>1. rows[i].state = users[id][i].state
          BY <1>4, <1>5, <3>1, <3>5
        <4>2. ~(users[id][i].state < max) /\ users[id][j].state < max
          <5>1. i \notin counted /\ j \in counted
            BY <3>1, <3>5
          <5> QED BY <1>5, <5>1 DEF Counted
        <4> HIDE DEF rows, id, max, counted
        <4> QED BY <1>1, <3>2, <3>3, <4>1, <4>2
      <3> QED BY <3>4, <3>5
    <2> QED BY <2>1, <2>2
  <1>6. rows \in Seq(Row) /\ DOMAIN rows = DOMAIN users[id]
    BY <1>1, <1>4, MappedRows
  <1>7. /\ users' = [users EXCEPT ![id] = rows]
        /\ \A other \in Ids \ {id} : acked'[other] = acked[other]
        /\ Become(p, Idle)
    BY <1>1 DEF LoginComplete, TypeInv, TypeOK, Done
  <1> HIDE DEF rows, counted, max, id
  <1>8. \A i \in DOMAIN rows : rows[i].state # -1 /\ acked'[id] <= rows[i].state
    BY <1>4, <1>5, <1>6
  <1>9. /\ \A x \in Ids : RowsAllowed(x)'
        /\ \A x \in Ids : NoneRevoked(x) => NoneRevoked(x)'
    BY <1>1, <1>6, <1>7, <1>8, OneAllowance DEF TypeInv
  <1>10. Idle.pc = "idle"
    BY DEF Idle
  <1> QED BY <1>1, <1>7, <1>9, <1>10, WriteAllowance DEF Disciplined

\* An id is inserted when no row of it is revoked, and starts a new count.
LEMMA InsertUserAllowance ==
    ASSUME TypeInv, CountersOK, AllowanceInv, Disciplined, NEW p \in Requests, InsertUser(p)
    PROVE  AllowanceInv'
  <1> DEFINE id == ctx[p].target
             rows == Append(users[id], ctx[p].row)
  <1>1. /\ id \in Ids /\ users[id] \in Seq(Row) /\ ctx[p].row \in Row
        /\ ctx[p].row.state = 0 /\ ~At(p, "idle") /\ ctx[p].pc = "insert"
        /\ Become(p, Idle) /\ Idle.pc = "idle"
    BY DEF InsertUser, At, TypeInv, TypeOK, ContextsOK, ContextOK, Context, Done, Idle
  <1>2. CASE Conflicts(id)
    <2>1. UNCHANGED <<users, acked>>
      BY <1>2 DEF InsertUser
    <2>2. ContextAllowed(Idle)
      BY <1>1 DEF ContextAllowed
    <2> QED BY <1>1, <2>1, <2>2, ReadAllowance
  <1>3. CASE ~Conflicts(id)
    <2>1. /\ users' = [users EXCEPT ![id] = rows]
          /\ acked'[id] = 0
          /\ \A other \in Ids \ {id} : acked'[other] = acked[other]
      BY <1>1, <1>3 DEF InsertUser, TypeInv, TypeOK
    <2>2. NoneRevoked(id)
      <3>1. CASE UniqueId
        <4>1. Rows(id) = {}
          BY <1>3, <3>1 DEF Conflicts, Rows
        <4> QED BY <4>1 DEF NoneRevoked
      <3>2. CASE ~UniqueId
        BY <1>1, <3>2 DEF AllowanceInv, ContextAllowed
      <3> QED BY <3>1, <3>2
    <2>3. ASSUME NEW i \in DOMAIN rows
          PROVE  rows[i].state # -1 /\ acked'[id] <= rows[i].state
      <3>1. CASE i \in DOMAIN users[id]
        <4>1. users[id][i] \in Row /\ rows[i] = users[id][i] /\ users[id][i] \in Rows(id)
          BY <1>1, <3>1 DEF Rows
        <4>2. rows[i].state \in Nat
          BY <2>2, <4>1 DEF NoneRevoked, Row, State
        <4> HIDE DEF rows, id
        <4> QED BY <2>1, <4>2
      <3>2. CASE i \notin DOMAIN users[id]
        <4>1. rows[i] = ctx[p].row
          BY <1>1, <2>3, <3>2
        <4> QED BY <1>1, <2>1, <4>1
      <3> QED BY <3>1, <3>2
    <2>4. rows \in Seq(Row)
      BY <1>1
    <2> HIDE DEF rows, id
    <2>5. /\ \A x \in Ids : RowsAllowed(x)'
          /\ \A x \in Ids : NoneRevoked(x) => NoneRevoked(x)'
      BY <1>1, <2>1, <2>3, <2>4, OneAllowance DEF TypeInv
    <2> QED BY <1>1, <2>5, WriteAllowance DEF Disciplined
  <1> QED BY <1>2, <1>3

\* A revocation by name runs alone, and what was acked stays within the limit.
LEMMA RevokeUserAllowance ==
    ASSUME TypeInv, CountersOK, AllowanceInv, Disciplined, NEW p \in Requests, RevokeUser(p)
    PROVE  AllowanceInv'
  <1> DEFINE id == ctx[p].target
             rows == [i \in DOMAIN users[id] |-> RevokedRow(users[id][i])]
             c == IF OneRow(DOMAIN users[id]) THEN [ctx[p] EXCEPT !.pc = "list"] ELSE Idle
  <1>1. /\ id \in Ids /\ users[id] \in Seq(Row) /\ ~At(p, "idle") /\ ctx[p].pc = "revoke"
        /\ acked[id] \in Nat /\ ctx[p] \in Context
    BY DEF RevokeUser, At, TypeInv, TypeOK, ContextsOK, ContextOK
  <1>2. ctx[p].op = "revokeName" /\ ctx[p].op \notin Together
    BY <1>1 DEF AllowanceInv, ContextAllowed, Disciplined
  <1>3. Become(p, c) /\ (c.pc = "idle" \/ (c.pc = "list" /\ c.op = ctx[p].op))
    BY <1>1 DEF RevokeUser, Goto, Done, Context, Idle
  <1>4. ASSUME NEW i \in DOMAIN users[id]
        PROVE  rows[i] \in Row /\ rows[i].state = -1 /\ Limited(acked[id])
    <2>1. users[id][i] \in Row /\ users[id][i] \in Rows(id)
      BY <1>1, <1>4 DEF Rows
    <2>2. rows[i] \in Row /\ rows[i].state = -1
      BY <1>4, <2>1 DEF RevokedRow, Row, State
    <2>3. Has(id, users[id][i].state) /\ Limited(users[id][i].state)
      BY <1>1, <2>1, CountersOKDef DEF AllowanceInv, RowsAllowed, Sound
    <2>4. users[id][i].state \in Int
      BY <2>1 DEF Row, State
    <2>5. Limited(acked[id])
      BY <1>1, <2>3, <2>4, RegistryAssumption DEF Has, Limited
    <2> QED BY <2>2, <2>5
  <1>5. rows \in Seq(Row) /\ DOMAIN rows = DOMAIN users[id]
    BY <1>1, <1>4, MappedRows
  <1>6. users' = [users EXCEPT ![id] = rows] /\ acked' = acked
    BY DEF RevokeUser
  <1>7. \A i \in DOMAIN rows : rows[i].state = -1 /\ Limited(acked'[id])
    BY <1>4, <1>5, <1>6
  <1> HIDE DEF rows, id, c
  <1>8. \A x \in Ids : RowsAllowed(x)'
    BY <1>1, <1>5, <1>6, <1>7, OneAllowance DEF TypeInv
  <1> QED BY <1>1, <1>2, <1>3, <1>8, WriteAllowance DEF Disciplined

\* A modification runs alone, so the record it writes back is not stale.
LEMMA UpdateUserAllowance ==
    ASSUME TypeInv, CountersOK, AllowanceInv, Disciplined, NEW p \in Requests, UpdateUser(p)
    PROVE  AllowanceInv'
  <1> DEFINE id == ctx[p].target
             row == ctx[p].row
             rows == [i \in DOMAIN users[id] |-> row]
  <1>1. /\ id \in Ids /\ users[id] \in Seq(Row) /\ row \in Row
        /\ ~At(p, "idle") /\ ctx[p].pc = "update" /\ Become(p, Idle) /\ Idle.pc = "idle"
    BY DEF UpdateUser, At, TypeInv, TypeOK, ContextsOK, ContextOK, Context, Done, Idle
  <1>2. ctx[p].op \notin Together /\ Has(id, row.state)
    BY <1>1 DEF AllowanceInv, ContextAllowed, Disciplined
  <1>3. rows \in Seq(Row) /\ \A i \in DOMAIN rows : rows[i].state = row.state
    BY <1>1, MappedRows
  <1>4. users' = [users EXCEPT ![id] = rows] /\ acked' = acked
    BY DEF UpdateUser
  <1> HIDE DEF rows, id, row
  <1>5. \A x \in Ids : RowsAllowed(x)'
    BY <1>1, <1>2, <1>3, <1>4, OneAllowance DEF TypeInv, Has
  <1> QED BY <1>1, <1>2, <1>5, WriteAllowance DEF Disciplined

LEMMA DeleteUserAllowance ==
    ASSUME TypeInv, AllowanceInv, Disciplined, NEW p \in Requests, DeleteUser(p)
    PROVE  AllowanceInv'
  <1>1. /\ ctx[p].target \in Ids /\ ~At(p, "idle")
        /\ Become(p, Idle) /\ Idle.pc = "idle" /\ acked' = acked
    BY DEF DeleteUser, At, TypeInv, ContextsOK, ContextOK, Done, Idle
  <1>2. CASE users[ctx[p].target] = <<>>
    <2>1. UNCHANGED <<users, acked>> /\ ContextAllowed(Idle)
      BY <1>1, <1>2 DEF DeleteUser, ContextAllowed
    <2> QED BY <1>1, <2>1, ReadAllowance
  <1>3. CASE users[ctx[p].target] # <<>>
    <2>1. users' = [users EXCEPT ![ctx[p].target] = <<>>]
      BY <1>3 DEF DeleteUser
    <2>2. PICK none \in Seq(Row) : none = <<>> /\ DOMAIN none = {}
      <3>1. <<>> \in Seq(Row) /\ Len(<<>>) = 0
        OBVIOUS
      <3>2. \A rows \in Seq(Row) : Len(rows) = 0 => DOMAIN rows = {}
        OBVIOUS
      <3> QED BY <3>1, <3>2
    <2>3. users' = [users EXCEPT ![ctx[p].target] = none] /\ DOMAIN none = {}
      BY <2>1, <2>2
    <2> HIDE <2>2
    <2>4. /\ \A x \in Ids : RowsAllowed(x)'
          /\ \A x \in Ids : NoneRevoked(x) => NoneRevoked(x)'
      BY <1>1, <2>3, OneAllowance DEF TypeInv
    <2> QED BY <1>1, <2>4, WriteAllowance DEF Disciplined
  <1> QED BY <1>2, <1>3

\* The steps that read, ask and end.
LEMMA AuthenticateAllowance ==
    ASSUME TypeInv, AllowanceInv, NEW p \in Requests, Authenticate(p)
    PROVE  AllowanceInv'
  <1>1. ASSUME NEW id \in Ids, EnrollLogin(p, id) PROVE AllowanceInv'
    <2>1. PICK row \in Rows(id) :
            /\ LoginAccepts(row)
            /\ Become(p, [Idle EXCEPT !.op = "enroll", !.pc = "caller", !.id = id,
                                      !.max = LoginMax(row.max)])
      BY <1>1 DEF EnrollLogin
    <2> DEFINE c == [Idle EXCEPT !.op = "enroll", !.pc = "caller", !.id = id,
                                 !.max = LoginMax(row.max)]
    <2>2. c.op = "enroll" /\ c.pc = "caller" /\ c.id = id
      BY DEF Idle
    <2>3. NoneRevoked(id)
      BY <2>1 DEF LoginAccepts, AllowanceInv, RowsAllowed, Disabled
    <2>4. ContextAllowed(c)
      BY <2>2, <2>3 DEF ContextAllowed
    <2>5. Become(p, c) /\ Arrives(p, c.op) /\ UNCHANGED <<users, acked>>
      BY <1>1, <2>1, <2>2 DEF EnrollLogin
    <2> HIDE DEF c
    <2> QED BY <2>4, <2>5, ReadAllowance
  <1>2. ASSUME NEW op \in TokenOps, NEW s \in Serials, TokenAuthentication(p, op, s)
        PROVE AllowanceInv'
    <2> DEFINE c == [Idle EXCEPT !.op = op, !.pc = "caller", !.id = certs[s].id,
                                 !.cert = IF op = "revokeSerial" THEN s ELSE None]
    <2>1. c.op = op /\ c.pc = "caller" /\ op # "enroll"
      BY DEF Idle, TokenOps
    <2>2. ContextAllowed(c)
      BY <2>1 DEF ContextAllowed
    <2>3. Become(p, c) /\ Arrives(p, c.op) /\ UNCHANGED <<users, acked>>
      BY <1>2, <2>1 DEF TokenAuthentication
    <2> HIDE DEF c
    <2> QED BY <2>2, <2>3, ReadAllowance
  <1>3. ASSUME GetCaller(p) PROVE AllowanceInv'
    <2>1. ctx[p] \in Context /\ ContextAllowed(ctx[p]) /\ ctx[p].pc = "caller" /\ ~At(p, "idle")
      BY <1>3 DEF GetCaller, At, TypeInv, TypeOK, AllowanceInv
    <2>2. PICK row \in Rows(ctx[p].id) : Become(p, [ctx[p] EXCEPT
             !.pc = IF ctx[p].op \in {"enroll", "reenroll"} THEN "sign" ELSE "authorize",
             !.caller = IF ctx[p].op \in {"register", "modify", "delete"}
                        THEN row.attrs ELSE {}])
      BY <1>3 DEF GetCaller
    <2> DEFINE c == [ctx[p] EXCEPT
             !.pc = IF ctx[p].op \in {"enroll", "reenroll"} THEN "sign" ELSE "authorize",
             !.caller = IF ctx[p].op \in {"register", "modify", "delete"}
                        THEN row.attrs ELSE {}]
    <2>3. c.op = ctx[p].op /\ c.id = ctx[p].id /\ c.pc \in {"sign", "authorize"}
      BY <2>1 DEF Context
    <2>4. Become(p, c) /\ UNCHANGED <<users, acked>>
      BY <1>3, <2>2 DEF GetCaller
    <2> HIDE DEF c
    <2>5. ContextAllowed(c)
      BY <2>1, <2>3 DEF ContextAllowed
    <2> QED BY <2>1, <2>3, <2>4, <2>5, ReadAllowance
  <1> QED BY <1>1, <1>2, <1>3 DEF Authenticate

\* A request ends, or moves on to a position that relies on no row.
LEMMA MoveAllowance ==
    ASSUME TypeInv, AllowanceInv, NEW p \in Requests, NEW c, Become(p, c),
           UNCHANGED <<users, acked>>, ~At(p, "idle"),
           c.pc = "idle" \/ c.op = ctx[p].op,
           c.pc \notin {"revoke", "update", "insert", "caller", "sign", "complete"}
    PROVE  AllowanceInv'
  BY ReadAllowance DEF ContextAllowed

LEMMA DoneAllowance ==
    ASSUME TypeInv, AllowanceInv, NEW p \in Requests, Done(p),
           UNCHANGED <<users, acked>>, ~At(p, "idle")
    PROVE  AllowanceInv'
  <1>1. Idle.pc = "idle" /\ Become(p, Idle)
    BY DEF Idle, Done
  <1> QED BY <1>1, MoveAllowance

LEMMA EnrollAllowance ==
    ASSUME TypeInv, CountersOK, AllowanceInv, Disciplined, NEW p \in Requests, Enroll(p)
    PROVE  AllowanceInv'
  <1>1. ASSUME SignCert(p) PROVE AllowanceInv'
    <2>1. /\ ctx[p] \in Context /\ ContextAllowed(ctx[p]) /\ ctx[p].pc = "sign"
          /\ ~At(p, "idle") /\ UNCHANGED <<users, acked>>
      BY <1>1 DEF SignCert, At, TypeInv, TypeOK, AllowanceInv
    <2>2. CASE Done(p)
      BY <2>1, <2>2, DoneAllowance
    <2>3. CASE Goto(p, "complete")
      <3> DEFINE c == [ctx[p] EXCEPT !.pc = "complete"]
      <3>1. c.op = ctx[p].op /\ c.id = ctx[p].id /\ c.pc = "complete" /\ Become(p, c)
        BY <2>1, <2>3 DEF Context, Goto
      <3> HIDE DEF c
      <3>2. ContextAllowed(c)
        BY <2>1, <3>1 DEF ContextAllowed
      <3> QED BY <2>1, <3>1, <3>2, ReadAllowance
    <2> QED BY <1>1, <2>2, <2>3 DEF SignCert
  <1> QED BY <1>1, LoginCompleteAllowance DEF Enroll

LEMMA RegisterAllowance ==
    ASSUME TypeInv, CountersOK, AllowanceInv, Disciplined, NEW p \in Requests, Register(p)
    PROVE  AllowanceInv'
  <1>0. ctx[p] \in Context /\ ContextAllowed(ctx[p])
    BY DEF TypeInv, TypeOK, AllowanceInv
  <1>f. ASSUME NEW id \in Ids, NotRegistered(id) PROVE UniqueId \/ NoneRevoked(id)
    <2>1. Rows(id) = {} \/ UniqueId
      BY <1>f DEF NotRegistered, Disciplined, Rows
    <2> QED BY <2>1 DEF NoneRevoked
  <1>1. ASSUME AuthorizeRegister(p) PROVE AllowanceInv'
    <2>1. PICK id \in Ids, attrs \in SUBSET (ReqAttrs \cap ctx[p].caller), req \in ReqMax :
            \E max \in RegisteredMax(req) :
              Become(p, [ctx[p] EXCEPT !.pc = "check", !.target = id,
                                       !.row = NewRow(max, attrs)])
      BY <1>1 DEF AuthorizeRegister
    <2>2. PICK max \in RegisteredMax(req) :
            Become(p, [ctx[p] EXCEPT !.pc = "check", !.target = id,
                                     !.row = NewRow(max, attrs)])
      BY <2>1
    <2> DEFINE c == [ctx[p] EXCEPT !.pc = "check", !.target = id,
                                   !.row = NewRow(max, attrs)]
    <2>3. c.op = ctx[p].op /\ c.pc = "check" /\ Become(p, c)
      BY <1>0, <2>2 DEF Context
    <2> HIDE DEF c
    <2> QED BY <1>1, <2>3, MoveAllowance DEF AuthorizeRegister, At
  <1>2. ASSUME RegisterCheck(p) PROVE AllowanceInv'
    <2> DEFINE c == [ctx[p] EXCEPT !.pc = "insert"]
    <2>1. ctx[p].target \in Ids /\ ~At(p, "idle") /\ NotRegistered(ctx[p].target)
      BY <1>2 DEF RegisterCheck, At, TypeInv, ContextsOK, ContextOK
    <2>2. c.op = ctx[p].op /\ c.pc = "insert" /\ c.target = ctx[p].target /\ Become(p, c)
      BY <1>0, <1>2 DEF RegisterCheck, Goto, Context
    <2> HIDE DEF c
    <2>3. ContextAllowed(c)
      BY <1>f, <2>1, <2>2 DEF ContextAllowed
    <2> QED BY <1>2, <2>1, <2>2, <2>3, ReadAllowance DEF RegisterCheck
  <1>3. ASSUME StartServer(p) PROVE AllowanceInv'
    <2>1. PICK max \in RegisteredMax(0) :
            Become(p, [Idle EXCEPT !.op = "start", !.pc = "insert", !.target = Admin,
                                   !.row = NewRow(max, Attrs)])
      BY <1>3 DEF StartServer
    <2> DEFINE c == [Idle EXCEPT !.op = "start", !.pc = "insert", !.target = Admin,
                                 !.row = NewRow(max, Attrs)]
    <2>2. c.op = "start" /\ c.pc = "insert" /\ c.target = Admin /\ Become(p, c)
      BY <2>1 DEF Idle
    <2> HIDE DEF c
    <2>3. UniqueId \/ NoneRevoked(Admin)
      BY <1>3, <1>f, RegistryAssumption DEF StartServer
    <2>4. ContextAllowed(c)
      BY <2>2, <2>3 DEF ContextAllowed
    <2> QED BY <1>3, <2>2, <2>4, ReadAllowance DEF StartServer
  <1> QED BY <1>1, <1>2, <1>3, InsertUserAllowance DEF Register

LEMMA RevokeAllowance ==
    ASSUME TypeInv, CountersOK, AllowanceInv, Disciplined, NEW p \in Requests, Revoke(p)
    PROVE  AllowanceInv'
  <1>0. ctx[p] \in Context
    BY DEF TypeInv, TypeOK
  <1>1. ASSUME AuthorizeRevokeName(p) PROVE AllowanceInv'
    <2>1. PICK id \in Ids, reason \in Reasons :
            Become(p, [ctx[p] EXCEPT !.pc = "revoke", !.target = id, !.reason = reason])
      BY <1>1 DEF AuthorizeRevokeName
    <2> DEFINE c == [ctx[p] EXCEPT !.pc = "revoke", !.target = id, !.reason = reason]
    <2>2. c.op = ctx[p].op /\ c.pc = "revoke" /\ c.op = "revokeName" /\ Become(p, c)
      BY <1>0, <1>1, <2>1 DEF Context, AuthorizeRevokeName
    <2> HIDE DEF c
    <2>3. ContextAllowed(c)
      BY <2>2 DEF ContextAllowed
    <2> QED BY <1>1, <2>2, <2>3, ReadAllowance DEF AuthorizeRevokeName, At
  <1>2. ASSUME ListCertificates(p) PROVE AllowanceInv'
    <2> DEFINE c == [ctx[p] EXCEPT !.pc = "sweep", !.listed = Good(ctx[p].target)]
    <2>1. c.op = ctx[p].op /\ c.pc = "sweep" /\ Become(p, c)
      BY <1>0, <1>2 DEF Context, ListCertificates
    <2> HIDE DEF c
    <2> QED BY <1>2, <2>1, MoveAllowance DEF ListCertificates, At
  <1>3. ASSUME RevokeCertificatesByID(p) \/ RevokeCertificate(p) PROVE AllowanceInv'
    BY <1>3, DoneAllowance DEF RevokeCertificatesByID, RevokeCertificate, At
  <1>4. ASSUME AuthorizeRevokeSerial(p) PROVE AllowanceInv'
    <2>1. PICK s \in Serials, reason \in Reasons :
            Become(p, [ctx[p] EXCEPT !.pc = "revokeCert", !.reason = reason, !.listed = {s}])
      BY <1>4 DEF AuthorizeRevokeSerial
    <2> DEFINE c == [ctx[p] EXCEPT !.pc = "revokeCert", !.reason = reason, !.listed = {s}]
    <2>2. c.op = ctx[p].op /\ c.pc = "revokeCert" /\ Become(p, c)
      BY <1>0, <2>1 DEF Context
    <2> HIDE DEF c
    <2> QED BY <1>4, <2>2, MoveAllowance DEF AuthorizeRevokeSerial, At
  <1> QED BY <1>1, <1>2, <1>3, <1>4, RevokeUserAllowance DEF Revoke

LEMMA ModifyOrDeleteAllowance ==
    ASSUME TypeInv, CountersOK, AllowanceInv, Disciplined, NEW p \in Requests, ModifyOrDelete(p)
    PROVE  AllowanceInv'
  <1>0. ctx[p] \in Context
    BY DEF TypeInv, TypeOK
  <1>1. ASSUME AuthorizeModify(p) PROVE AllowanceInv'
    <2>1. PICK id \in Ids, req \in ReqMax : \E row \in Rows(id),
            added \in SUBSET (ReqAttrs \cap ctx[p].caller),
            removed \in SUBSET (ReqAttrs \cap ctx[p].caller) :
          Become(p, [ctx[p] EXCEPT !.pc = "update", !.target = id,
               !.row = ModifiedRow(row, req, (row.attrs \cup added) \ removed)])
      BY <1>1 DEF AuthorizeModify
    <2>2. PICK row, attrs : row \in Rows(id) /\
          Become(p, [ctx[p] EXCEPT !.pc = "update", !.target = id,
               !.row = ModifiedRow(row, req, attrs)])
      BY <2>1
    <2> DEFINE new == ModifiedRow(row, req, attrs)
               c == [ctx[p] EXCEPT !.pc = "update", !.target = id, !.row = new]
    <2>3. c.op = ctx[p].op /\ c.op = "modify" /\ c.pc = "update" /\ c.target = id
          /\ c.row = new /\ Become(p, c)
      BY <1>0, <1>1, <2>2 DEF Context, AuthorizeModify
    <2>4. new.state = row.state
      BY <2>2, RowsTyped DEF TypeInv, ModifiedRow, Row
    <2>5. Has(id, row.state)
      BY <2>2 DEF AllowanceInv, RowsAllowed
    <2> HIDE DEF c, new
    <2>6. ContextAllowed(c)
      BY <2>3, <2>4, <2>5 DEF ContextAllowed
    <2> QED BY <1>1, <2>3, <2>6, ReadAllowance DEF AuthorizeModify, At
  <1>2. ASSUME AuthorizeDelete(p) PROVE AllowanceInv'
    <2>1. PICK id \in Ids : Become(p, [ctx[p] EXCEPT !.pc = "delete", !.target = id])
      BY <1>2 DEF AuthorizeDelete
    <2> DEFINE c == [ctx[p] EXCEPT !.pc = "delete", !.target = id]
    <2>2. c.op = ctx[p].op /\ c.pc = "delete" /\ Become(p, c)
      BY <1>0, <2>1 DEF Context
    <2> HIDE DEF c
    <2> QED BY <1>2, <2>2, MoveAllowance DEF AuthorizeDelete, At
  <1> QED BY <1>1, <1>2, UpdateUserAllowance, DeleteUserAllowance DEF ModifyOrDelete

LEMMA AllowanceNext == Disciplined /\ Inv /\ AllowanceInv /\ [Next]_vars => AllowanceInv'
  <1> SUFFICES ASSUME Disciplined, TypeInv, CountersOK, AllowanceInv, [Next]_vars
               PROVE  AllowanceInv'
    BY DEF Inv
  <1>1. ASSUME NEW p \in Requests, Fail(p) PROVE AllowanceInv'
    BY <1>1, DoneAllowance DEF Fail
  <1>2. ASSUME UNCHANGED vars PROVE AllowanceInv'
    BY <1>2 DEF vars, AllowanceInv, RowsAllowed, Disabled, NoneRevoked, Has, Rows,
                ContextAllowed, InFlightTogether, At
  <1> QED
    BY <1>1, <1>2, AuthenticateAllowance, EnrollAllowance, RegisterAllowance, RevokeAllowance,
       ModifyOrDeleteAllowance DEF Next

LEMMA AllowanceInit == Init => AllowanceInv
  <1> SUFFICES ASSUME Init PROVE AllowanceInv
    OBVIOUS
  <1>1. \A id \in Ids : acked[id] = 0 /\ \A row \in Rows(id) : row.state = 0
    BY DEF Init, Rows, NewRow
  <1>2. \A id \in Ids : RowsAllowed(id)
    BY <1>1 DEF RowsAllowed, NoneRevoked, Has
  <1>3. \A p \in Requests : ctx[p].pc = "idle"
    BY DEF Init, Idle
  <1> QED BY <1>2, <1>3 DEF AllowanceInv, ContextAllowed, InFlightTogether, At

-----------------------------------------------------------------------------
(* The ledger of members and certificates *)

\* The enrollments that are stored but not answered yet.
Pending(id) == {p \in Requests : ctx[p].pc = "complete" /\ ctx[p].id = id}

\* The state that the handlers show the ledger.
Members == {id \in Ids : users[id] # <<>>}
Owners == [s \in Serials |-> certs[s].id]
GoodCerts == {s \in Serials : certs[s].status = "good"}
Owned(id) == {s \in Serials : Owners[s] = id}
ledger == <<Members, Owners, GoodCerts, acked>>

\* Every enrollment, answered or about to be, has a certificate of its own; and
\* a request that revokes by serial number has found one certificate.
Covered(id) ==
    /\ IsFiniteSet(Pending(id)) /\ IsFiniteSet(Owned(id))
    /\ acked[id] + Cardinality(Pending(id)) <= Cardinality(Owned(id))

OneListed(c) == c.pc = "revokeCert" => \E s \in Serials : c.listed = {s}

LedgerInv ==
    /\ \A id \in Ids : Covered(id)
    /\ \A p \in Requests : OneListed(ctx[p])

\* A step that stores no certificate and starts no count keeps them covered.
LEMMA StaysCovered ==
    ASSUME TypeInv, LedgerInv, NEW p \in Requests, NEW c, Become(p, c),
           c.pc # "complete", OneListed(c), Owners' = Owners,
           acked' \in [Ids -> Nat], \A id \in Ids : acked'[id] <= acked[id]
    PROVE  LedgerInv'
  <1>1. \A q \in Requests : ctx'[q] = IF q = p THEN c ELSE ctx[q]
    BY DEF TypeInv, TypeOK, Become
  <1>2. ASSUME NEW id \in Ids PROVE Covered(id)'
    <2>1. Pending(id)' \in SUBSET Pending(id)
      BY <1>1 DEF Pending
    <2>2. Owned(id)' = Owned(id)
      BY DEF Owned
    <2>3. Covered(id)
      BY DEF LedgerInv
    <2>4. IsFiniteSet(Pending(id)') /\ Cardinality(Pending(id)') <= Cardinality(Pending(id))
      BY <2>1, <2>3, FS_Subset DEF Covered
    <2>5. /\ Cardinality(Pending(id)) \in Nat /\ Cardinality(Pending(id)') \in Nat
          /\ Cardinality(Owned(id)) \in Nat
      BY <2>3, <2>4, FS_CardinalityType DEF Covered
    <2>6. acked[id] \in Nat /\ acked'[id] \in Nat /\ acked'[id] <= acked[id]
      BY DEF TypeInv, TypeOK
    <2> QED BY <2>2, <2>3, <2>4, <2>5, <2>6 DEF Covered
  <1>3. \A q \in Requests : OneListed(ctx[q])'
    BY <1>1 DEF LedgerInv, OneListed
  <1> QED BY <1>2, <1>3 DEF LedgerInv

\* signCert issues a certificate nobody has; an enrollment awaits its count.
LEMMA SignCertLedger ==
    ASSUME TypeInv, LedgerInv, NEW p \in Requests, SignCert(p)
    PROVE  LedgerInv' /\ \E s \in Serials, id \in Ids : Ledger!Issue(s, id)
  <1>1. PICK id \in Ids : id = ctx[p].id /\ ctx[p].pc = "sign" /\ ctx[p] \in Context
    BY DEF SignCert, At, TypeInv, ContextsOK, ContextOK, TypeOK
  <1>2. PICK s \in Serials :
          /\ certs[s] = NoCert
          /\ certs' = [certs EXCEPT ![s] =
                          [id |-> id, status |-> "good", reason |-> None]]
    BY <1>1 DEF SignCert
  <1>3. \A t \in Serials : certs'[t] =
           IF t = s THEN [id |-> id, status |-> "good", reason |-> None] ELSE certs[t]
    BY <1>2 DEF TypeInv, TypeOK
  <1>4. Owners[s] = None /\ Owners' = [Owners EXCEPT ![s] = id]
    <2>1. certs[s].id = None /\ certs'[s].id = id
      BY <1>2, <1>3 DEF NoCert
    <2>2. \A t \in Serials : t # s => certs'[t].id = certs[t].id
      BY <1>3
    <2>3. Owners[s] = None
      BY <2>1 DEF Owners
    <2>4. [t \in Serials |-> certs'[t].id]
          = [[t \in Serials |-> certs[t].id] EXCEPT ![s] = id]
      BY <2>1, <2>2
    <2> QED BY <2>3, <2>4 DEF Owners
  <1>5. GoodCerts' = GoodCerts \cup {s}
    BY <1>3 DEF GoodCerts
  <1>6. Members' = Members /\ acked' = acked
    BY DEF SignCert, Members
  <1>7. Ledger!Issue(s, id)
    BY <1>4, <1>5, <1>6 DEF Ledger!Issue, Members, Owners, GoodCerts
  <1>8. PICK c : Become(p, c) /\ OneListed(c)
                 /\ (c.pc = "complete" => c.id = id)
    <2>1. CASE Goto(p, "complete")
      <3> DEFINE c == [ctx[p] EXCEPT !.pc = "complete"]
      <3>1. Become(p, c) /\ c.pc = "complete" /\ c.id = id
        BY <2>1, <1>1 DEF Goto, Context
      <3> QED BY <3>1 DEF OneListed
    <2>2. CASE Done(p)
      BY <2>2 DEF Done, OneListed, Idle
    <2> QED BY <2>1, <2>2 DEF SignCert
  <1>9. \A q \in Requests : ctx'[q] = IF q = p THEN c ELSE ctx[q]
    BY <1>8 DEF TypeInv, TypeOK, Become
  <1>10. ASSUME NEW other \in Ids PROVE Covered(other)'
    <2>1. Covered(other)
      BY DEF LedgerInv
    <2>2. s \notin Owned(other)
      BY <1>4, RegistryAssumption DEF Owned
    <2>3. CASE other = id
      <3>1. Owned(id)' = Owned(id) \cup {s}
        BY <1>4 DEF Owned, Owners
      <3>2. IsFiniteSet(Owned(id)') /\ Cardinality(Owned(id)') = Cardinality(Owned(id)) + 1
        BY <2>1, <2>2, <2>3, <3>1, FS_AddElement DEF Covered
      <3>3. p \notin Pending(id)
        BY <1>1 DEF Pending
      <3>4. IsFiniteSet(Pending(id)')
            /\ Cardinality(Pending(id)') <= Cardinality(Pending(id)) + 1
        <4>1. CASE c.pc = "complete"
          <5>1. Pending(id)' = Pending(id) \cup {p}
            BY <1>8, <1>9, <4>1 DEF Pending
          <5>2. IsFiniteSet(Pending(id) \cup {p})
                /\ Cardinality(Pending(id) \cup {p}) = Cardinality(Pending(id)) + 1
            BY <2>1, <2>3, <3>3, FS_AddElement DEF Covered
          <5>3. Cardinality(Pending(id)) \in Nat
            BY <2>1, <2>3, FS_CardinalityType DEF Covered
          <5> QED BY <5>1, <5>2, <5>3
        <4>2. CASE c.pc # "complete"
          <5>1. Pending(id)' = Pending(id)
            BY <1>9, <4>2, <3>3 DEF Pending
          <5>2. IsFiniteSet(Pending(id)) /\ Cardinality(Pending(id)) \in Nat
            BY <2>1, <2>3, FS_CardinalityType DEF Covered
          <5> QED BY <5>1, <5>2
        <4> QED BY <4>1, <4>2
      <3>5. /\ Cardinality(Pending(id)) \in Nat /\ Cardinality(Pending(id)') \in Nat
            /\ Cardinality(Owned(id)) \in Nat
        BY <2>1, <2>3, <3>4, FS_CardinalityType DEF Covered
      <3>6. acked[id] \in Nat /\ acked'[id] = acked[id]
        BY <1>1, <1>6 DEF TypeInv, TypeOK
      <3> QED BY <2>1, <2>3, <3>2, <3>4, <3>5, <3>6 DEF Covered
    <2>4. CASE other # id
      <3>1. Owned(other)' = Owned(other)
        BY <1>4, <2>2, <2>4 DEF Owned, Owners
      <3>2. Pending(other)' = Pending(other)
        BY <1>1, <1>8, <1>9, <2>4 DEF Pending
      <3> QED BY <2>1, <3>1, <3>2, <1>6 DEF Covered
    <2> QED BY <2>3, <2>4
  <1>11. \A q \in Requests : OneListed(ctx[q])'
    BY <1>8, <1>9 DEF LedgerInv, OneListed
  <1> QED BY <1>1, <1>7, <1>10, <1>11 DEF LedgerInv

\* A function over the indices of a list is empty if the list is.
LEMMA SameLength ==
    ASSUME NEW rows \in Seq(Row), NEW f, f = [i \in DOMAIN rows |-> f[i]]
    PROVE  f = <<>> <=> rows = <<>>
  <1>1. DOMAIN rows = 1..Len(rows) /\ Len(rows) \in Nat
    OBVIOUS
  <1>2. f = <<>> => DOMAIN rows = {}
    OBVIOUS
  <1>3. DOMAIN rows = {} => rows = <<>>
    BY <1>1
  <1>4. rows = <<>> => f = <<>>
    OBVIOUS
  <1> QED BY <1>2, <1>3, <1>4

\* LoginComplete answers a member whose certificate is stored already.
LEMMA LoginCompleteLedger ==
    ASSUME TypeInv, LedgerInv, NEW p \in Requests, LoginComplete(p)
    PROVE  LedgerInv' /\ (UNCHANGED ledger \/ \E id \in Ids : Ledger!Answer(id))
  <1>0. PICK id \in Ids : id = ctx[p].id
    BY DEF LoginComplete, At, TypeInv, ContextsOK, ContextOK, TypeOK
  <1> DEFINE counted == Counted(id, ctx[p].max)
             f == [i \in DOMAIN users[id] |->
                      IF i \in counted THEN [users[id][i] EXCEPT !.state = @ + 1]
                      ELSE users[id][i]]
  <1>1. p \in Pending(id) /\ users[id] \in Seq(Row) /\ Covered(id)
    BY <1>0 DEF LoginComplete, At, TypeInv, TypeOK, Pending, LedgerInv
  <1>2. users' = [users EXCEPT ![id] = f] /\ Done(p) /\ certs' = certs
        /\ acked' = IF OneRow(counted) THEN [acked EXCEPT ![id] = @ + 1] ELSE acked
    BY <1>0 DEF LoginComplete
  <1>3. f = [i \in DOMAIN users[id] |-> f[i]]
    OBVIOUS
  <1>4. OneRow(counted) => users[id] # <<>>
    BY <1>1 DEF OneRow, Counted
  <1>5. Members' = Members
    <2> HIDE DEF f
    <2>1. f = <<>> <=> users[id] = <<>>
      BY <1>1, <1>3, SameLength
    <2> QED BY <1>1, <1>2, <2>1 DEF Members, TypeInv, TypeOK
  <1>6. Owners' = Owners /\ GoodCerts' = GoodCerts
    BY <1>2 DEF Owners, GoodCerts
  <1>7. \A q \in Requests : ctx'[q] = IF q = p THEN Idle ELSE ctx[q]
    BY <1>2 DEF Done, Become, TypeInv, TypeOK
  <1>8. \A x \in Ids : acked'[x] = IF OneRow(counted) /\ x = id THEN acked[x] + 1 ELSE acked[x]
    BY <1>2 DEF TypeInv, TypeOK
  <1> HIDE DEF counted, f
  <1>9. /\ acked[id] + Cardinality(Pending(id)) <= Cardinality(Owned(id))
        /\ IsFiniteSet(Pending(id)) /\ IsFiniteSet(Owned(id))
        /\ Cardinality(Owned(id)) \in Nat /\ acked[id] \in Nat
    BY <1>1, FS_CardinalityType DEF Covered, TypeInv, TypeOK
  <1>10. /\ IsFiniteSet(Pending(id) \ {p})
         /\ Cardinality(Pending(id) \ {p}) = Cardinality(Pending(id)) - 1
         /\ Cardinality(Pending(id) \ {p}) \in Nat
    BY <1>1, <1>9, FS_RemoveElement, FS_CardinalityType
  <1>11. Pending(id)' = Pending(id) \ {p}
    BY <1>1, <1>7 DEF Pending, Idle
  <1>12. Covered(id)'
    <2>1. Owned(id)' = Owned(id)
      BY <1>6 DEF Owned
    <2>2. acked'[id] <= acked[id] + 1 /\ acked'[id] \in Nat
      BY <1>1, <1>8, <1>9
    <2>3. Cardinality(Pending(id)) \in Nat
      BY <1>9, FS_CardinalityType
    <2>4. acked'[id] + Cardinality(Pending(id) \ {p}) <= Cardinality(Owned(id))
      BY <1>9, <1>10, <2>2, <2>3
    <2> QED BY <1>9, <1>10, <1>11, <2>1, <2>4 DEF Covered
  <1>13. ASSUME NEW x \in Ids, x # id PROVE Covered(x)'
    <2>1. Pending(x)' = Pending(x) /\ Owned(x)' = Owned(x) /\ acked'[x] = acked[x]
      BY <1>1, <1>6, <1>7, <1>8, <1>13 DEF Pending, Owned, Idle
    <2> QED BY <2>1 DEF LedgerInv, Covered
  <1>14. \A q \in Requests : OneListed(ctx[q])'
    BY <1>7 DEF LedgerInv, OneListed, Idle
  <1>15. CASE OneRow(counted)
    <2>1. id \in Members
      BY <1>1, <1>4, <1>15 DEF Members
    <2>2. acked[id] < Cardinality(Owned(id))
      <3>1. Cardinality(Pending(id)) \in Nat
        BY <1>9, FS_CardinalityType
      <3> QED BY <1>9, <1>10, <3>1
    <2>3. acked' = [acked EXCEPT ![id] = @ + 1]
      BY <1>2, <1>15
    <2>4. acked[id] < Ledger!Cardinality(Ledger!Issued(id))
      <3>1. Cardinality(Owned(id)) = Ledger!Cardinality(Owned(id))
        BY Zenon DEF Cardinality, Ledger!Cardinality
      <3>2. Ledger!Issued(id) = Owned(id)
        BY DEF Ledger!Issued, Owned, Owners
      <3> QED BY <2>2, <3>1, <3>2
    <2>5. Ledger!Answer(id)
      BY <1>5, <1>6, <2>1, <2>3, <2>4 DEF Ledger!Answer, Members, Owners, GoodCerts
    <2> QED BY <1>1, <1>12, <1>13, <1>14, <2>5 DEF LedgerInv
  <1>16. CASE ~OneRow(counted)
    BY <1>2, <1>5, <1>6, <1>12, <1>13, <1>14, <1>16 DEF LedgerInv, ledger
  <1> QED BY <1>15, <1>16

\* A handler that only reads, or ends, shows the ledger nothing.
LEMMA ReadLedger ==
    ASSUME TypeInv, LedgerInv, NEW p \in Requests, NEW c, Become(p, c),
           c.pc # "complete", OneListed(c), UNCHANGED <<users, certs, acked>>
    PROVE  LedgerInv' /\ UNCHANGED ledger
  <1>1. Owners' = Owners /\ acked' = acked
    BY DEF Owners
  <1>2. acked' \in [Ids -> Nat] /\ \A id \in Ids : acked'[id] <= acked[id]
    BY <1>1 DEF TypeInv, TypeOK
  <1> QED BY <1>1, <1>2, StaysCovered DEF ledger, Members, Owners, GoodCerts

LEMMA DoneLedger ==
    ASSUME TypeInv, LedgerInv, NEW p \in Requests, Done(p), Owners' = Owners,
           acked' \in [Ids -> Nat], \A id \in Ids : acked'[id] <= acked[id]
    PROVE  LedgerInv'
  <1>1. Idle.pc # "complete" /\ OneListed(Idle)
    BY DEF Idle, OneListed
  <1> QED BY <1>1, StaysCovered DEF Done

LEMMA AuthenticateLedger ==
    ASSUME TypeInv, LedgerInv, NEW p \in Requests, Authenticate(p)
    PROVE  LedgerInv' /\ UNCHANGED ledger
  <1>0. ctx[p] \in Context
    BY DEF TypeInv, TypeOK
  <1>1. ASSUME NEW id \in Ids, EnrollLogin(p, id) PROVE LedgerInv' /\ UNCHANGED ledger
    <2>1. PICK row \in Rows(id) :
            Become(p, [Idle EXCEPT !.op = "enroll", !.pc = "caller", !.id = id,
                                   !.max = LoginMax(row.max)])
      BY <1>1 DEF EnrollLogin
    <2> DEFINE c == [Idle EXCEPT !.op = "enroll", !.pc = "caller", !.id = id,
                                 !.max = LoginMax(row.max)]
    <2>2. c.pc = "caller"
      BY DEF Idle
    <2>3. Become(p, c) /\ UNCHANGED <<users, certs, acked>>
      BY <1>1, <2>1 DEF EnrollLogin
    <2> QED BY <2>2, <2>3, ReadLedger DEF OneListed
  <1>2. ASSUME NEW op \in TokenOps, NEW s \in Serials, TokenAuthentication(p, op, s)
        PROVE  LedgerInv' /\ UNCHANGED ledger
    <2> DEFINE c == [Idle EXCEPT !.op = op, !.pc = "caller", !.id = certs[s].id,
                                 !.cert = IF op = "revokeSerial" THEN s ELSE None]
    <2>1. c.pc = "caller"
      BY DEF Idle
    <2>2. Become(p, c) /\ UNCHANGED <<users, certs, acked>>
      BY <1>2 DEF TokenAuthentication
    <2> QED BY <2>1, <2>2, ReadLedger DEF OneListed
  <1>3. ASSUME GetCaller(p) PROVE LedgerInv' /\ UNCHANGED ledger
    <2>1. PICK row \in Rows(ctx[p].id) : Become(p, [ctx[p] EXCEPT
             !.pc = IF ctx[p].op \in {"enroll", "reenroll"} THEN "sign" ELSE "authorize",
             !.caller = IF ctx[p].op \in {"register", "modify", "delete"}
                        THEN row.attrs ELSE {}])
      BY <1>3 DEF GetCaller
    <2> DEFINE c == [ctx[p] EXCEPT
             !.pc = IF ctx[p].op \in {"enroll", "reenroll"} THEN "sign" ELSE "authorize",
             !.caller = IF ctx[p].op \in {"register", "modify", "delete"}
                        THEN row.attrs ELSE {}]
    <2>2. c.pc \in {"sign", "authorize"}
      BY <1>0 DEF Context
    <2>3. Become(p, c) /\ UNCHANGED <<users, certs, acked>>
      BY <1>3, <2>1 DEF GetCaller
    <2> QED BY <2>2, <2>3, ReadLedger DEF OneListed
  <1> QED BY <1>1, <1>2, <1>3 DEF Authenticate

\* An identity with a new row is a member.
LEMMA AppendedIsNotEmpty ==
    ASSUME NEW rows \in Seq(Row), NEW row \in Row
    PROVE  Append(rows, row) # <<>>
  <1> DEFINE more == Append(rows, row)
  <1>1. Len(more) = Len(rows) + 1 /\ Len(rows) \in Nat /\ more \in Seq(Row)
    OBVIOUS
  <1>2. DOMAIN more = 1..(Len(rows) + 1)
    BY <1>1
  <1>3. 1 \in DOMAIN more
    BY <1>1, <1>2
  <1>4. DOMAIN <<>> = {}
    OBVIOUS
  <1> HIDE DEF more
  <1>5. more # <<>>
    BY <1>3, <1>4
  <1> QED BY <1>5 DEF more

\* InsertUser registers the identity, or finds the ID taken.
LEMMA RegisterLedger ==
    ASSUME TypeInv, LedgerInv, NEW p \in Requests, Register(p)
    PROVE  LedgerInv' /\ (UNCHANGED ledger \/ \E id \in Ids : Ledger!Register(id))
  <1>0. ctx[p] \in Context
    BY DEF TypeInv, TypeOK
  <1>1. ASSUME AuthorizeRegister(p) PROVE LedgerInv' /\ UNCHANGED ledger
    <2>1. PICK id \in Ids, attrs \in SUBSET (ReqAttrs \cap ctx[p].caller), req \in ReqMax :
            \E max \in RegisteredMax(req) :
              Become(p, [ctx[p] EXCEPT !.pc = "check", !.target = id,
                                       !.row = NewRow(max, attrs)])
      BY <1>1 DEF AuthorizeRegister
    <2>2. PICK max \in RegisteredMax(req) :
            Become(p, [ctx[p] EXCEPT !.pc = "check", !.target = id,
                                     !.row = NewRow(max, attrs)])
      BY <2>1
    <2> DEFINE c == [ctx[p] EXCEPT !.pc = "check", !.target = id,
                                   !.row = NewRow(max, attrs)]
    <2>3. c.pc = "check"
      BY <1>0 DEF Context
    <2>4. Become(p, c) /\ UNCHANGED <<users, certs, acked>>
      BY <1>1, <2>2 DEF AuthorizeRegister
    <2> QED BY <2>3, <2>4, ReadLedger DEF OneListed
  <1>2. ASSUME RegisterCheck(p) PROVE LedgerInv' /\ UNCHANGED ledger
    <2> DEFINE c == [ctx[p] EXCEPT !.pc = "insert"]
    <2>1. c.pc = "insert"
      BY <1>0 DEF Context
    <2>2. Become(p, c) /\ UNCHANGED <<users, certs, acked>>
      BY <1>2 DEF RegisterCheck, Goto
    <2> QED BY <2>1, <2>2, ReadLedger DEF OneListed
  <1>3. ASSUME StartServer(p) PROVE LedgerInv' /\ UNCHANGED ledger
    <2>1. PICK max \in RegisteredMax(0) :
            Become(p, [Idle EXCEPT !.op = "start", !.pc = "insert", !.target = Admin,
                                   !.row = NewRow(max, Attrs)])
      BY <1>3 DEF StartServer
    <2> DEFINE c == [Idle EXCEPT !.op = "start", !.pc = "insert", !.target = Admin,
                                 !.row = NewRow(max, Attrs)]
    <2>2. c.pc = "insert"
      BY DEF Idle
    <2>3. Become(p, c) /\ UNCHANGED <<users, certs, acked>>
      BY <1>3, <2>1 DEF StartServer
    <2> QED BY <2>2, <2>3, ReadLedger DEF OneListed
  <1>4. ASSUME InsertUser(p)
        PROVE  LedgerInv' /\ (UNCHANGED ledger \/ \E id \in Ids : Ledger!Register(id))
    <2>1. PICK id \in Ids : id = ctx[p].target /\ users[id] \in Seq(Row)
      BY <1>4 DEF InsertUser, At, TypeInv, ContextsOK, ContextOK, TypeOK
    <2>2. certs' = certs /\ Done(p)
      BY <1>4 DEF InsertUser
    <2>3. Owners' = Owners /\ GoodCerts' = GoodCerts
      BY <2>2 DEF Owners, GoodCerts
    <2>4. CASE Conflicts(id)
      <3>1. users' = users /\ acked' = acked
        BY <1>4, <2>1, <2>4 DEF InsertUser
      <3>2. acked' \in [Ids -> Nat] /\ \A x \in Ids : acked'[x] <= acked[x]
        BY <3>1 DEF TypeInv, TypeOK
      <3> QED BY <2>2, <2>3, <3>1, <3>2, DoneLedger DEF ledger, Members
    <2>5. CASE ~Conflicts(id)
      <3>1. /\ users' = [users EXCEPT ![id] = Append(@, ctx[p].row)]
            /\ acked' = [acked EXCEPT ![id] = 0]
        BY <1>4, <2>1, <2>5 DEF InsertUser
      <3>2. acked' \in [Ids -> Nat] /\ \A x \in Ids : acked'[x] <= acked[x]
        BY <3>1 DEF TypeInv, TypeOK
      <3>3. Append(users[id], ctx[p].row) # <<>>
        <4>1. ctx[p].row \in Row
          BY <1>0 DEF Context
        <4> QED BY <2>1, <4>1, AppendedIsNotEmpty
      <3>4. \A x \in Ids : users'[x] =
               IF x = id THEN Append(users[id], ctx[p].row) ELSE users[x]
        BY <3>1 DEF TypeInv, TypeOK
      <3>5. Members' = Members \cup {id}
        BY <3>3, <3>4 DEF Members
      <3>6. Ledger!Register(id)
        BY <2>3, <3>1, <3>5 DEF Ledger!Register, Members, Owners, GoodCerts
      <3> QED BY <2>1, <2>2, <2>3, <3>2, <3>6, DoneLedger
    <2> QED BY <2>4, <2>5
  <1> QED BY <1>1, <1>2, <1>3, <1>4 DEF Register

\* The UPDATE by identity withdraws its certificates, and no other.
LEMMA RevokeByIDLedger ==
    ASSUME TypeInv, NEW id \in Ids, NEW reason, certs' = RevokeByID(id, reason)
    PROVE  Owners' = Owners /\ GoodCerts' = GoodCerts \ Ledger!Issued(id)
  <1>1. ASSUME NEW s \in Serials, certs[s].id = id PROVE certs[s] \in Cert
    BY <1>1, RegistryAssumption DEF TypeInv, TypeOK, NoCert
  <1>2. ASSUME NEW s \in Serials
        PROVE  /\ certs'[s].id = certs[s].id
               /\ certs'[s].status = "good" <=> certs[s].status = "good" /\ certs[s].id # id
    <2>1. CASE certs[s].id = id /\ certs[s].status # "revoked"
      <3>1. certs'[s] = [certs[s] EXCEPT !.status = "revoked", !.reason = reason]
        BY <1>2, <2>1 DEF RevokeByID
      <3>2. certs'[s].id = certs[s].id /\ certs'[s].status = "revoked"
        BY <1>1, <1>2, <2>1, <3>1 DEF Cert
      <3> QED BY <2>1, <3>2
    <2>2. CASE ~(certs[s].id = id /\ certs[s].status # "revoked")
      <3>1. certs'[s] = certs[s]
        BY <1>2, <2>2 DEF RevokeByID
      <3> QED BY <2>2, <3>1
    <2> QED BY <2>1, <2>2
  <1>3. Ledger!Issued(id) = {s \in Serials : certs[s].id = id}
    BY DEF Ledger!Issued
  <1> QED BY <1>2, <1>3 DEF Owners, GoodCerts

\* Revocation by name withdraws all certificates, by serial number one.
LEMMA RevokeLedger ==
    ASSUME TypeInv, LedgerInv, NEW p \in Requests, Revoke(p)
    PROVE  /\ LedgerInv'
           /\ \/ UNCHANGED ledger
              \/ \E id \in Ids : Ledger!WithdrawAll(id)
              \/ \E s \in Serials : Ledger!Withdraw(s)
  <1>0. ctx[p] \in Context
    BY DEF TypeInv, TypeOK
  <1>1. ASSUME AuthorizeRevokeName(p) PROVE LedgerInv' /\ UNCHANGED ledger
    <2>1. PICK id \in Ids, reason \in Reasons :
            Become(p, [ctx[p] EXCEPT !.pc = "revoke", !.target = id, !.reason = reason])
      BY <1>1 DEF AuthorizeRevokeName
    <2> DEFINE c == [ctx[p] EXCEPT !.pc = "revoke", !.target = id, !.reason = reason]
    <2>2. c.pc = "revoke"
      BY <1>0 DEF Context
    <2>3. Become(p, c) /\ UNCHANGED <<users, certs, acked>>
      BY <1>1, <2>1 DEF AuthorizeRevokeName
    <2> QED BY <2>2, <2>3, ReadLedger DEF OneListed
  <1>2. ASSUME RevokeUser(p) PROVE LedgerInv' /\ UNCHANGED ledger
    <2>1. PICK id \in Ids : id = ctx[p].target /\ users[id] \in Seq(Row)
      BY <1>2 DEF RevokeUser, At, TypeInv, ContextsOK, ContextOK, TypeOK
    <2> DEFINE f == [i \in DOMAIN users[id] |-> RevokedRow(users[id][i])]
    <2>2. users' = [users EXCEPT ![id] = f] /\ certs' = certs /\ acked' = acked
      BY <1>2, <2>1 DEF RevokeUser
    <2>3. f = [i \in DOMAIN users[id] |-> f[i]]
      OBVIOUS
    <2>4. Members' = Members
      <3> HIDE DEF f
      <3>1. f = <<>> <=> users[id] = <<>>
        BY <2>1, <2>3, SameLength
      <3> QED BY <2>2, <3>1 DEF Members, TypeInv, TypeOK
    <2>5. UNCHANGED ledger
      BY <2>2, <2>4 DEF ledger, Owners, GoodCerts
    <2>6. PICK c : Become(p, c) /\ c.pc # "complete" /\ OneListed(c)
      <3>1. [ctx[p] EXCEPT !.pc = "list"].pc = "list" /\ Idle.pc = "idle"
        BY <1>0 DEF Context, Idle
      <3> QED BY <1>2, <3>1 DEF RevokeUser, Goto, Done, OneListed
    <2>7. acked' \in [Ids -> Nat] /\ \A x \in Ids : acked'[x] <= acked[x]
      BY <2>2 DEF TypeInv, TypeOK
    <2>8. Owners' = Owners
      BY <2>2 DEF Owners
    <2> QED BY <2>5, <2>6, <2>7, <2>8, StaysCovered
  <1>3. ASSUME ListCertificates(p) PROVE LedgerInv' /\ UNCHANGED ledger
    <2> DEFINE c == [ctx[p] EXCEPT !.pc = "sweep", !.listed = Good(ctx[p].target)]
    <2>1. c.pc = "sweep"
      BY <1>0 DEF Context
    <2>2. Become(p, c) /\ UNCHANGED <<users, certs, acked>>
      BY <1>3 DEF ListCertificates
    <2> QED BY <2>1, <2>2, ReadLedger DEF OneListed
  <1>4. ASSUME RevokeCertificatesByID(p)
        PROVE  LedgerInv' /\ \E id \in Ids : Ledger!WithdrawAll(id)
    <2>1. PICK id \in Ids : id = ctx[p].target
      BY <1>4 DEF RevokeCertificatesByID, At, TypeInv, ContextsOK, ContextOK
    <2>2. /\ certs' = RevokeByID(id, ctx[p].reason)
          /\ users' = users /\ acked' = acked /\ Done(p)
      BY <1>4, <2>1 DEF RevokeCertificatesByID
    <2>3. Owners' = Owners /\ GoodCerts' = GoodCerts \ Ledger!Issued(id)
      BY <2>2, RevokeByIDLedger
    <2>4. Ledger!WithdrawAll(id)
      BY <2>2, <2>3 DEF Ledger!WithdrawAll, Members, Owners, GoodCerts
    <2>5. acked' \in [Ids -> Nat] /\ \A x \in Ids : acked'[x] <= acked[x]
      BY <2>2 DEF TypeInv, TypeOK
    <2> QED BY <2>2, <2>3, <2>4, <2>5, DoneLedger
  <1>5. ASSUME AuthorizeRevokeSerial(p) PROVE LedgerInv' /\ UNCHANGED ledger
    <2>1. PICK s \in Serials, reason \in Reasons :
            Become(p, [ctx[p] EXCEPT !.pc = "revokeCert", !.reason = reason, !.listed = {s}])
      BY <1>5 DEF AuthorizeRevokeSerial
    <2> DEFINE c == [ctx[p] EXCEPT !.pc = "revokeCert", !.reason = reason, !.listed = {s}]
    <2>2. c.pc = "revokeCert" /\ c.listed = {s}
      BY <1>0 DEF Context
    <2>3. Become(p, c) /\ UNCHANGED <<users, certs, acked>>
      BY <1>5, <2>1 DEF AuthorizeRevokeSerial
    <2> QED BY <2>2, <2>3, ReadLedger DEF OneListed
  <1>6. ASSUME RevokeCertificate(p)
        PROVE  LedgerInv' /\ \E s \in Serials : Ledger!Withdraw(s)
    <2>1. PICK s \in Serials : ctx[p].listed = {s}
      BY <1>6 DEF RevokeCertificate, At, LedgerInv, OneListed
    <2>2. certs[s] \in Cert
      BY <2>1 DEF TypeInv, TypeOK, ListedOK
    <2>3. \A t \in Serials : certs'[t] =
             IF t = s THEN [certs[t] EXCEPT !.status = "revoked", !.reason = ctx[p].reason]
             ELSE certs[t]
      BY <1>6, <2>1 DEF RevokeCertificate
    <2>4. certs'[s].id = certs[s].id /\ certs'[s].status = "revoked"
      BY <2>2, <2>3 DEF Cert
    <2>5. Owners' = Owners /\ GoodCerts' = GoodCerts \ {s}
      BY <2>3, <2>4 DEF Owners, GoodCerts
    <2>6. users' = users /\ acked' = acked /\ Done(p)
      BY <1>6 DEF RevokeCertificate
    <2>7. Ledger!Withdraw(s)
      BY <2>5, <2>6 DEF Ledger!Withdraw, Members, Owners, GoodCerts
    <2>8. acked' \in [Ids -> Nat] /\ \A x \in Ids : acked'[x] <= acked[x]
      BY <2>6 DEF TypeInv, TypeOK
    <2> QED BY <2>5, <2>6, <2>7, <2>8, DoneLedger
  <1> QED BY <1>1, <1>2, <1>3, <1>4, <1>5, <1>6 DEF Revoke

\* A modification rewrites a member; a deletion takes the certificates along.
LEMMA ModifyOrDeleteLedger ==
    ASSUME TypeInv, LedgerInv, NEW p \in Requests, ModifyOrDelete(p)
    PROVE  LedgerInv' /\ (UNCHANGED ledger \/ \E id \in Ids : Ledger!Delete(id))
  <1>0. ctx[p] \in Context
    BY DEF TypeInv, TypeOK
  <1>1. ASSUME AuthorizeModify(p) PROVE LedgerInv' /\ UNCHANGED ledger
    <2>1. PICK c : Become(p, c) /\ c.pc = "update"
      <3>1. \A id, row : [ctx[p] EXCEPT !.pc = "update", !.target = id, !.row = row].pc = "update"
        BY <1>0 DEF Context
      <3> QED BY <1>1, <3>1 DEF AuthorizeModify
    <2>2. UNCHANGED <<users, certs, acked>>
      BY <1>1 DEF AuthorizeModify
    <2> QED BY <2>1, <2>2, ReadLedger DEF OneListed
  <1>2. ASSUME UpdateUser(p) PROVE LedgerInv' /\ UNCHANGED ledger
    <2>1. PICK id \in Ids : id = ctx[p].target /\ users[id] \in Seq(Row)
      BY <1>2 DEF UpdateUser, At, TypeInv, ContextsOK, ContextOK, TypeOK
    <2> DEFINE f == [i \in DOMAIN users[id] |-> ctx[p].row]
    <2>2. users' = [users EXCEPT ![id] = f] /\ certs' = certs /\ acked' = acked /\ Done(p)
      BY <1>2, <2>1 DEF UpdateUser
    <2>3. f = [i \in DOMAIN users[id] |-> f[i]]
      OBVIOUS
    <2>4. Members' = Members
      <3> HIDE DEF f
      <3>1. f = <<>> <=> users[id] = <<>>
        BY <2>1, <2>3, SameLength
      <3> QED BY <2>2, <3>1 DEF Members, TypeInv, TypeOK
    <2>5. UNCHANGED ledger /\ Owners' = Owners
      BY <2>2, <2>4 DEF ledger, Owners, GoodCerts
    <2>6. acked' \in [Ids -> Nat] /\ \A x \in Ids : acked'[x] <= acked[x]
      BY <2>2 DEF TypeInv, TypeOK
    <2> QED BY <2>2, <2>5, <2>6, DoneLedger
  <1>3. ASSUME AuthorizeDelete(p) PROVE LedgerInv' /\ UNCHANGED ledger
    <2>1. PICK id \in Ids : Become(p, [ctx[p] EXCEPT !.pc = "delete", !.target = id])
      BY <1>3 DEF AuthorizeDelete
    <2> DEFINE c == [ctx[p] EXCEPT !.pc = "delete", !.target = id]
    <2>2. c.pc = "delete"
      BY <1>0 DEF Context
    <2>3. Become(p, c) /\ UNCHANGED <<users, certs, acked>>
      BY <1>3, <2>1 DEF AuthorizeDelete
    <2> QED BY <2>2, <2>3, ReadLedger DEF OneListed
  <1>4. ASSUME DeleteUser(p)
        PROVE  LedgerInv' /\ (UNCHANGED ledger \/ \E id \in Ids : Ledger!Delete(id))
    <2>1. PICK id \in Ids : id = ctx[p].target
      BY <1>4 DEF DeleteUser, At, TypeInv, ContextsOK, ContextOK
    <2>2. Done(p) /\ acked' = acked
      BY <1>4 DEF DeleteUser
    <2>3. acked' \in [Ids -> Nat] /\ \A x \in Ids : acked'[x] <= acked[x]
      BY <2>2 DEF TypeInv, TypeOK
    <2>4. CASE users[id] = <<>>
      <3>1. users' = users /\ certs' = certs
        BY <1>4, <2>1, <2>4 DEF DeleteUser
      <3> QED BY <2>2, <2>3, <3>1, DoneLedger DEF ledger, Members, Owners, GoodCerts
    <2>5. CASE users[id] # <<>>
      <3>1. users' = [users EXCEPT ![id] = <<>>] /\ certs' = RevokeByID(id, Cessation)
        BY <1>4, <2>1, <2>5 DEF DeleteUser
      <3>2. Owners' = Owners /\ GoodCerts' = GoodCerts \ Ledger!Issued(id)
        BY <3>1, RevokeByIDLedger
      <3>3. id \in Members /\ Members' = Members \ {id}
        BY <2>5, <3>1 DEF Members, TypeInv, TypeOK
      <3>4. Ledger!Delete(id)
        BY <2>2, <3>2, <3>3 DEF Ledger!Delete, Members, Owners, GoodCerts
      <3> QED BY <2>2, <2>3, <3>2, <3>4, DoneLedger
    <2> QED BY <2>4, <2>5
  <1> QED BY <1>1, <1>2, <1>3, <1>4 DEF ModifyOrDelete

\* A request that fails leaves what it stored.
LEMMA FailLedger ==
    ASSUME TypeInv, LedgerInv, NEW p \in Requests, Fail(p)
    PROVE  LedgerInv' /\ UNCHANGED ledger
  <1>1. Done(p) /\ UNCHANGED <<users, certs, acked>>
    BY DEF Fail
  <1>2. Idle.pc # "complete" /\ OneListed(Idle)
    BY DEF Idle, OneListed
  <1> QED BY <1>1, <1>2, ReadLedger DEF Done

LEMMA LedgerNext ==
    ASSUME TypeInv, LedgerInv, [Next]_vars
    PROVE  LedgerInv' /\ [Ledger!Next]_ledger
  <1>1. ASSUME UNCHANGED vars PROVE LedgerInv' /\ UNCHANGED ledger
    BY <1>1 DEF vars, LedgerInv, Covered, OneListed, Pending, Owned, ledger, Members,
                Owners, GoodCerts
  <1>2. ASSUME NEW p \in Requests, Enroll(p)
        PROVE  LedgerInv' /\ [Ledger!Next]_ledger
    BY <1>2, SignCertLedger, LoginCompleteLedger DEF Enroll, Ledger!Next
  <1>3. ASSUME NEW p \in Requests, Register(p)
        PROVE  LedgerInv' /\ [Ledger!Next]_ledger
    BY <1>3, RegisterLedger DEF Ledger!Next
  <1>4. ASSUME NEW p \in Requests, Revoke(p)
        PROVE  LedgerInv' /\ [Ledger!Next]_ledger
    BY <1>4, RevokeLedger DEF Ledger!Next
  <1>5. ASSUME NEW p \in Requests, ModifyOrDelete(p)
        PROVE  LedgerInv' /\ [Ledger!Next]_ledger
    BY <1>5, ModifyOrDeleteLedger DEF Ledger!Next
  <1> QED BY <1>1, <1>2, <1>3, <1>4, <1>5, AuthenticateLedger, FailLedger DEF Next

LEMMA LedgerInit == Init => LedgerInv /\ Ledger!Init
  <1> SUFFICES ASSUME Init PROVE LedgerInv /\ Ledger!Init
    OBVIOUS
  <1>1. \A p \in Requests : ctx[p].pc = "idle"
    BY DEF Init, Idle
  <1>2. \A s \in Serials : certs[s].id = None /\ certs[s].status = "none"
    BY DEF Init, NoCert
  <1>3. ASSUME NEW id \in Ids PROVE Covered(id)
    <2>1. Pending(id) = {} /\ Owned(id) = {}
      BY <1>1, <1>2, RegistryAssumption DEF Pending, Owned, Owners
    <2>2. acked[id] = 0
      BY DEF Init
    <2> QED BY <2>1, <2>2, FS_EmptySet DEF Covered
  <1>4. LedgerInv
    BY <1>1, <1>3 DEF LedgerInv, OneListed
  <1>5. \A id \in Ids : users[id] # <<>> <=> id = Admin /\ CaMax # 0
    <2>1. <<NewRow(CaMax, Attrs)>> # <<>>
      OBVIOUS
    <2> QED BY <2>1 DEF Init
  <1>6. Members = IF CaMax = 0 THEN {} ELSE {Admin}
    BY <1>5, RegistryAssumption DEF Members
  <1>7. Owners = [s \in Serials |-> None] /\ GoodCerts = {} /\ acked = [id \in Ids |-> 0]
    BY <1>2 DEF Owners, GoodCerts, Init
  <1>8. Ledger!Init
    BY <1>6, <1>7 DEF Ledger!Init, Members, Owners, GoodCerts
  <1> QED BY <1>4, <1>8

-----------------------------------------------------------------------------
(* Theorems *)

\* Every variable keeps its type, in every interleaving of the handlers: the
\* tables hold rows, and no counter falls below the -1 of a revoked identity.
THEOREM TypeCorrect == Spec => []TypeOK
  BY Invariant, PTL DEF Inv, TypeInv

\* No counter passes the CA's limit, however many logins Login accepted before
\* LoginComplete counted the first of them, and whatever getModifyReq stored.
THEOREM CounterLimit == Spec => []CounterWithinCALimit
  BY Invariant, PTL DEF Inv, CountersOK

\* Every enrollment answered with success is in the counter, in every row of
\* its identity, although registrations, revocations, modifications, deletions
\* and failures run between Login and LoginComplete.
THEOREM Counting == Spec => []AckedEnrollmentsAreCounted
  BY Invariant, PTL DEF Inv, CountersOK

\* An identity that is out stays out: revoked or deleted, without a good
\* certificate and without a request in flight from before, it gets neither a
\* certificate nor a usable counter from any sequence of requests, until a
\* registration finds its ID free.
THEOREM StayingOut == Spec => ExcludedStaysOut
  <1>1. Inv /\ [Next]_vars
          => [\A id \in Ids : Excluded(id) => Excluded(id)' \/ Registering(id)]_vars
    BY ExcludedNext
  <1> QED BY <1>1, Invariant, PTL DEF Spec, ExcludedStaysOut

\* No identity is answered more enrollments than the CA's limit, as long as
\* nobody modifies or revokes identities by name while other requests are in
\* flight: a stale record written back, and a login counted after a
\* revocation, are what breaks the promise (getModifyReq, LoginComplete).
THEOREM Allowance == Disciplined => (Spec => []EnrollmentAllowance)
  <1> SUFFICES ASSUME Disciplined PROVE Spec => []EnrollmentAllowance
    OBVIOUS
  <1>1. Inv /\ AllowanceInv => EnrollmentAllowance
    <2> SUFFICES ASSUME Inv, AllowanceInv, CaMax # -1, NEW id \in Ids, NEW row \in Rows(id)
                 PROVE  acked[id] <= CaMax
      BY DEF EnrollmentAllowance
    <2>1. Has(id, row.state) /\ Limited(row.state) /\ row \in Row
      BY CountersOKDef, RowsTyped DEF AllowanceInv, RowsAllowed, Sound, Inv, TypeInv
    <2>2. acked[id] \in Nat /\ row.state \in Int
      BY <2>1 DEF Inv, TypeInv, TypeOK, Row, State
    <2> QED BY <2>1, <2>2, RegistryAssumption DEF Has, Limited
  <1>2. Inv /\ AllowanceInv /\ [Next]_vars => AllowanceInv'
    BY AllowanceNext
  <1> QED BY <1>1, <1>2, AllowanceInit, Invariant, PTL DEF Spec

\* The handlers keep the ledger of members and certificates: in every
\* interleaving and wherever they stop, a deletion takes every certificate of
\* the identity with it, no certificate comes back or changes hands, and every
\* answered enrollment has a certificate of its own (signCert, LoginComplete,
\* RevokeCertificate, RevokeCertificatesByID, deleteUserTx).
THEOREM KeepsTheLedger == Spec => LedgerSpec
  <1>1. Init => LedgerInv /\ Ledger!Init
    BY LedgerInit
  <1>2. Inv /\ LedgerInv /\ [Next]_vars => LedgerInv' /\ [Ledger!Next]_ledger
    BY LedgerNext DEF Inv
  <1>3. [Ledger!Next]_ledger
          <=> [Ledger!Next]_<<{id \in Ids : users[id] # <<>>}, [s \in Serials |-> certs[s].id],
                              {s \in Serials : certs[s].status = "good"}, acked>>
    BY DEF ledger, Members, Owners, GoodCerts
  <1> QED
    BY <1>1, <1>2, <1>3, Invariant, PTL DEF Spec, LedgerSpec, Ledger!Spec
=============================================================================
