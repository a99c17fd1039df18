---------------------------- MODULE Affiliations ----------------------------
(***************************************************************************)
(* The affiliation hierarchy of the CA server and the identities in it:    *)
(* the affiliations endpoint (add, rename, delete), and the registration   *)
(* and modification of identities as far as they choose an affiliation.    *)
(* The database is SQLite, the default: all handlers of the server share   *)
(* one connection.  A statement is one action; a transaction is one action *)
(* too, since it has the connection to itself, and if its handler panics   *)
(* it never gives the connection back.                                     *)
(***************************************************************************)
EXTENDS Integers, Sequences, FiniteSets, SequencesExt

CONSTANTS
    Segments,       \* what stands between the dots of an affiliation
    Names,          \* bound: the affiliations that can exist, sequences of
                    \* segments
    Like,           \* <<s, t>>: the pattern s of an SQL LIKE matches segment t
    Ids,            \* enrollment IDs
    Managers,       \* identities with hf.AffiliationMgr
    Roles,          \* Ids -> hf.Registrar.Roles: "absent", "empty" or "some"
    Configured,     \* affiliations in the server's configuration
    ConfiguredHome, \* Ids -> affiliation of a configured identity, or Gone
    Requests,       \* request contexts that may be in flight at the same time
    Ops,            \* the operations clients use
    Added,          \* the affiliations that clients add
    Renames,        \* the pairs <<from, to>> of renamings that clients request
    AffRemove,      \* cfg.affiliations.allowremove
    IdRemove,       \* cfg.identities.allowremove
    Gone            \* the home of an id that is not registered

Root == <<>>

\* Segments are opaque: a segment never occurs inside another one.
Parent(n) == Front(n)

ASSUME AffiliationAssumption ==
    /\ \A n \in Names : n \in Seq(Segments) /\ n # <<>>
    /\ \A n \in Names : \A i \in DOMAIN n : SubSeq(n, 1, i) \in Names
    /\ \A s \in Segments : <<s, s>> \in Like
    /\ Managers \subseteq Ids
    /\ Roles \in [Ids -> {"absent", "empty", "some"}]
    /\ Configured \subseteq Names
    /\ \A n \in Configured : \A i \in DOMAIN n : SubSeq(n, 1, i) \in Configured
    /\ ConfiguredHome \in [Ids -> Configured \cup {Root, Gone}]
    /\ Gone \notin Names \cup {Root}
    /\ Added \subseteq Names
    /\ Renames \subseteq Names \X Names
    /\ AffRemove \in BOOLEAN /\ IdRemove \in BOOLEAN
    /\ Ops \subseteq {"add", "delete", "rename", "register", "modify", "restart"}

VARIABLES
    affs,       \* table affiliations: the names in it
    home,       \* column affiliation of table users, Gone without a row
    attr,       \* attribute hf.Affiliation in column attributes, Root if absent
    good,       \* the identities whose certificate is not revoked
    ctx,        \* Requests -> the request context and the handler's position
    conn        \* the connection to the database comes back

vars == <<affs, home, attr, good, ctx, conn>>

-----------------------------------------------------------------------------
(* Names *)

\* WHERE name LIKE 'o.%'
LikeBelow(o, n) ==
    Len(n) > Len(o) /\ \A i \in DOMAIN o : <<o[i], n[i]>> \in Like

\* WHERE name = 'o' OR name LIKE 'o.%', which two statements select.
Selects(o, n) == n = o \/ LikeBelow(o, n)

\* Variant: the levels are compared, not the paths.
CoversSegmentCount(callerAff, n) == Len(callerAff) <= Len(n)

\* containsAffiliation
Covers(callerAff, n) == IsPrefix(callerAff, n)

\* strings.Replace(m, o, n, 1)
Renamed(o, n, m) == ReplaceFirstSubSeq(n, o, m)

-----------------------------------------------------------------------------
(* Requests *)

Idle == [op |-> "none", pc |-> "idle", aff |-> Root, name |-> Root, new |-> Root,
         force |-> FALSE, registrar |-> FALSE, next |-> 1, id |-> Gone,
         home |-> Root, attr |-> Root]

PCs == {"idle", "exists", "parent", "insert", "lookup", "free", "rename",
        "delete", "validate", "insertUser", "updateUser"}

Context == [op : {"none", "add", "delete", "rename", "register", "modify"},
            pc : PCs, aff : Names \cup {Root}, name : Names \cup {Root},
            new : Names \cup {Root}, force : BOOLEAN, registrar : BOOLEAN,
            next : Nat, id : Ids \cup {Gone},
            home : Names \cup {Root}, attr : Names \cup {Root}]

\* The handler reaches its statement, and the connection is free.
At(p, pc) == ctx[p].pc = pc /\ conn
Become(p, c) == ctx' = [ctx EXCEPT ![p] = c]
Goto(p, pc) == Become(p, [ctx[p] EXCEPT !.pc = pc])
Done(p) == Become(p, Idle)

\* TokenAuthentication and GetCaller: the caller's affiliation is cached.
Authenticate(p, op, caller) ==
    /\ op \in Ops /\ At(p, "idle")
    /\ caller \in good /\ home[caller] # Gone
    /\ UNCHANGED <<affs, home, attr, good, conn>>

\* HasRole(hf.AffiliationMgr).  For delete and rename, isRegistrar must not
\* fail: its error for a caller without the attribute is not let through.
AsManager(p, op, caller) ==
    /\ Authenticate(p, op, caller)
    /\ caller \in Managers
    /\ op # "add" => Roles[caller] # "absent"

-----------------------------------------------------------------------------
(* Add *)

StartAdd(p) == \E caller \in Ids, n \in Added, force \in BOOLEAN :
    /\ AsManager(p, "add", caller)
    /\ Become(p, [Idle EXCEPT !.op = "add", !.pc = "exists", !.name = n,
                              !.aff = home[caller], !.force = force])

\* GetAffiliation of the new name, then ContainsAffiliation.
AddExists(p) ==
    /\ At(p, "exists")
    /\ IF ctx[p].name \in affs \/ ~Covers(ctx[p].aff, ctx[p].name)
       THEN Done(p)
       ELSE Become(p, [ctx[p] EXCEPT
              !.pc = IF ~ctx[p].force /\ Len(ctx[p].name) > 1 THEN "parent" ELSE "insert",
              !.next = IF ctx[p].force THEN 1 ELSE Len(ctx[p].name)])
    /\ UNCHANGED <<affs, home, attr, good, conn>>

AddParent(p) ==
    /\ At(p, "parent")
    /\ IF Parent(ctx[p].name) \in affs THEN Goto(p, "insert") ELSE Done(p)
    /\ UNCHANGED <<affs, home, attr, good, conn>>

\* Variant: the affiliation itself first, then its ancestors.
InsertedLeafFirst(c) == SubSeq(c.name, 1, Len(c.name) + 1 - c.next)

\* The element of addAffiliationSlice, with its ancestors, that is next.
Inserted(c) == SubSeq(c.name, 1, c.next)

\* Variant: the loop over the path does not advance.
AfterSame(i) == i

After(i) == i + 1

\* InsertAffiliation: a violated UNIQUE constraint is taken for success.
InsertAffiliation(p) ==
    LET c == ctx[p]
    IN  /\ At(p, "insert")
        /\ affs' = affs \cup {Inserted(c)}
        /\ IF c.next < Len(c.name)
           THEN Become(p, [c EXCEPT !.next = After(c.next)])
           ELSE Done(p)
        /\ UNCHANGED <<home, attr, good, conn>>

-----------------------------------------------------------------------------
(* Delete *)

StartDelete(p) == \E caller \in Ids, n \in Names, force \in BOOLEAN :
    /\ AsManager(p, "delete", caller)
    /\ AffRemove
    /\ home[caller] # n /\ Covers(home[caller], n)
    /\ Become(p, [Idle EXCEPT !.op = "delete", !.pc = "lookup", !.name = n,
                     !.aff = home[caller], !.force = force,
                     !.registrar = (Roles[caller] = "some")])

\* GetAffiliation, outside of the transaction, of a delete or a renaming.
Lookup(p) ==
    /\ At(p, "lookup")
    /\ IF ctx[p].name \notin affs THEN Done(p)
       ELSE Goto(p, IF ctx[p].op = "delete" THEN "delete" ELSE "free")
    /\ UNCHANGED <<affs, home, attr, good, conn>>

\* Variant: the identities of the sub-affiliations are forgotten.
MembersAt(n) == {id \in Ids : home[id] # Gone /\ home[id] = n}

\* The users selected by affiliation = 'n' and affiliation LIKE 'n.%'.
Members(n) == {id \in Ids : home[id] # Gone /\ Selects(n, home[id])}

\* Variant: identities lost their rows, and kept their certificates.
RevokedNone(ids) == good

Unrevoked(ids) == good \ ids

\* The checks of deleteAffiliationTx.
MayDelete(c) ==
    /\ Members(c.name) # {} => c.registrar /\ IdRemove /\ c.force
    /\ c.name \in affs
    /\ (\E n \in affs : LikeBelow(c.name, n)) => c.force

DeleteAffiliationTx(p) ==
    LET c == ctx[p]
        gone == Members(c.name)
    IN  /\ At(p, "delete")
        /\ IF MayDelete(c)
           THEN /\ affs' = {n \in affs : ~Selects(c.name, n)}
                /\ home' = [id \in Ids |-> IF id \in gone THEN Gone ELSE home[id]]
                /\ attr' = [id \in Ids |-> IF id \in gone THEN Root ELSE attr[id]]
                /\ good' = Unrevoked(gone)
           ELSE UNCHANGED <<affs, home, attr, good>>
        /\ Done(p)
        /\ UNCHANGED conn

-----------------------------------------------------------------------------
(* Rename *)

StartRename(p) == \E caller \in Ids, r \in Renames, force \in BOOLEAN :
    /\ AsManager(p, "rename", caller)
    /\ Covers(home[caller], r[1]) /\ Covers(home[caller], r[2])
    /\ Become(p, [Idle EXCEPT !.op = "rename", !.pc = "lookup", !.name = r[1],
                     !.new = r[2], !.aff = home[caller], !.force = force,
                     !.registrar = (Roles[caller] = "some")])

\* Variant: the new name is not looked up.
NewNameUnchecked(c) == FALSE

NewNameTaken(c) == c.new \in affs

\* GetAffiliation of the new name, outside of the transaction as well.
RenameFree(p) ==
    /\ At(p, "free")
    /\ IF NewNameTaken(ctx[p]) THEN Done(p) ELSE Goto(p, "rename")
    /\ UNCHANGED <<affs, home, attr, good, conn>>

\* allOldAffiliations
Selected(o) == {m \in affs : Selects(o, m)}

\* Users of the affiliations that are renamed; others are not looked at.
Affected(o) == {id \in Ids : home[id] \in Selected(o)}

\* The checks of modifyAffiliationTx, which it makes one affiliation at a time.
MayRename(c) ==
    /\ c.name \in affs
    /\ Affected(c.name) # {} => c.registrar /\ c.force

Changed(c) == {m \in Selected(c.name) : Renamed(c.name, c.new, m) # m}

\* Variant: no UNIQUE constraint on the column name.
ClashesNever(c) == FALSE

\* The UPDATE of one affiliation meets a name that no other UPDATE of the
\* transaction takes away, or that another one produces too.
Clashes(c) == \E m \in Changed(c) :
    \/ Renamed(c.name, c.new, m) \in affs \ Changed(c)
    \/ \E l \in Changed(c) \ {m} :
        Renamed(c.name, c.new, l) = Renamed(c.name, c.new, m)

\* It meets a name that another UPDATE takes away: before or after, as the
\* order of the SELECT has it.
MayClash(c) == \E m \in Changed(c) : Renamed(c.name, c.new, m) \in Changed(c)

\* Variant: the attribute keeps the old affiliation.
RenamedAttrKept(c, id) == attr[id]

\* hf.Affiliation of an identity in a renamed affiliation.
RenamedAttr(c, id) == Renamed(c.name, c.new, home[id])

\* The rename transaction commits.
RenameCommit(c) ==
    /\ affs' = (affs \ Changed(c)) \cup {Renamed(c.name, c.new, m) : m \in Changed(c)}
    /\ affs' \subseteq Names
    /\ home' = [id \in Ids |-> IF id \in Affected(c.name)
                               THEN Renamed(c.name, c.new, home[id]) ELSE home[id]]
    /\ attr' = [id \in Ids |-> IF id \in Affected(c.name)
                               THEN RenamedAttr(c, id) ELSE attr[id]]
    /\ UNCHANGED <<good, conn>>

\* MustExec panics, and nobody rolls back.
RenamePanic == conn' = FALSE /\ UNCHANGED <<affs, home, attr, good>>

ModifyAffiliationTx(p) ==
    LET c == ctx[p]
    IN  /\ At(p, "rename")
        /\ Done(p)
        /\ \/ MayRename(c) /\ ~Clashes(c) /\ RenameCommit(c)
           \/ c.name \in affs /\ (Clashes(c) \/ MayClash(c)) /\ RenamePanic
           \/ ~MayRename(c) /\ UNCHANGED <<affs, home, attr, good, conn>>

-----------------------------------------------------------------------------
(* Identities *)

\* registerHandler up to isValidAffiliation, which does not look Root up.  The
\* request names an affiliation or leaves the registrar's.
StartRegister(p) == \E caller, id \in Ids, a \in Names \cup {Root} :
    /\ Authenticate(p, "register", caller)
    /\ Roles[caller] = "some"
    /\ Covers(home[caller], a)
    /\ Become(p, [Idle EXCEPT !.op = "register", !.id = id, !.home = a, !.attr = a,
                     !.pc = IF a = Root THEN "insertUser" ELSE "validate"])

\* processPutRequest: the record that will be written back is read here, and
\* gets the affiliation of the request if it has one ("." for Root).
StartModify(p) == \E caller, id \in Ids :
    /\ Authenticate(p, "modify", caller)
    /\ Roles[caller] = "some"
    /\ home[id] # Gone /\ Covers(home[caller], home[id])
    /\ LET Modified(pc, a, b) == Become(p,
             [Idle EXCEPT !.op = "modify", !.id = id, !.pc = pc, !.home = a, !.attr = b])
       IN \/ Modified("updateUser", home[id], attr[id])
          \/ \E a \in Names : Covers(home[caller], a) /\ Modified("validate", a, a)
          \/ Covers(home[caller], Root) /\ Modified("updateUser", Root, Root)

\* GetAffiliation of the affiliation the request asks for.
ValidateAffiliation(p) ==
    /\ At(p, "validate")
    /\ IF ctx[p].home \notin affs THEN Done(p)
       ELSE Goto(p, IF ctx[p].op = "register" THEN "insertUser" ELSE "updateUser")
    /\ UNCHANGED <<affs, home, attr, good, conn>>

Stored(p) ==
    /\ home' = [home EXCEPT ![ctx[p].id] = ctx[p].home]
    /\ attr' = [attr EXCEPT ![ctx[p].id] = ctx[p].attr]

\* GetUser and InsertUser of registerUserID; IdentityRegistry has the race
\* between the two.
InsertUser(p) ==
    /\ At(p, "insertUser")
    /\ IF home[ctx[p].id] = Gone THEN Stored(p) ELSE UNCHANGED <<home, attr>>
    /\ Done(p)
    /\ UNCHANGED <<affs, good, conn>>

\* UpdateUser writes both columns of the row, if it is still there.
UpdateUser(p) ==
    /\ At(p, "updateUser")
    /\ IF home[ctx[p].id] # Gone THEN Stored(p) ELSE UNCHANGED <<home, attr>>
    /\ Done(p)
    /\ UNCHANGED <<affs, good, conn>>

-----------------------------------------------------------------------------
\* The server stops, at any statement, and starts again: loadUsersTable and
\* loadAffiliationsTable add what the configuration has and the tables do not.
\* A configured identity has no attribute hf.Affiliation.
Restart ==
    /\ "restart" \in Ops
    /\ conn' = TRUE
    /\ ctx' = [p \in Requests |-> Idle]
    /\ affs' = affs \cup Configured
    /\ home' = [id \in Ids |-> IF home[id] = Gone THEN ConfiguredHome[id] ELSE home[id]]
    /\ UNCHANGED <<attr, good>>

Init ==
    /\ affs = Configured
    /\ home = ConfiguredHome
    /\ attr = [id \in Ids |-> Root]
    /\ good = {id \in Ids : ConfiguredHome[id] # Gone}
    /\ ctx = [p \in Requests |-> Idle]
    /\ conn = TRUE

Arrive(p) ==
    StartAdd(p) \/ StartDelete(p) \/ StartRename(p) \/ StartRegister(p) \/ StartModify(p)

\* What a handler in progress does.
Proceed(p) ==
    \/ AddExists(p) \/ AddParent(p) \/ InsertAffiliation(p)
    \/ Lookup(p) \/ DeleteAffiliationTx(p) \/ RenameFree(p) \/ ModifyAffiliationTx(p)
    \/ ValidateAffiliation(p) \/ InsertUser(p) \/ UpdateUser(p)

Next == (\E p \in Requests : Arrive(p) \/ Proceed(p)) \/ Restart

Spec == Init /\ [][Next]_vars

\* Goroutines are scheduled, and the pool hands its connection out in the
\* order of the requests for it.
FairSpec == Spec /\ \A p \in Requests : WF_vars(Proceed(p))
-----------------------------------------------------------------------------
(* Properties *)

\* Every variable keeps the shape of its table or of serverRequestContext.
TypeOK ==
    /\ affs \in SUBSET Names
    /\ home \in [Ids -> Names \cup {Root, Gone}]
    /\ attr \in [Ids -> Names \cup {Root}]
    /\ good \in SUBSET Ids
    /\ ctx \in [Requests -> Context]
    /\ conn \in BOOLEAN

\* The attribute hf.Affiliation that goes into the certificates of an identity
\* is the affiliation it is authorized by, however renamings, registrations
\* and modifications with stale records interleave.
AttributeInSync == \A id \in Ids : attr[id] # Root => attr[id] = home[id]

\* A certificate that authenticates has an owner: an identity deleted with its
\* affiliation does not come back with its old certificate when its ID is
\* registered again (deleteAffiliationTx).
CertificatesHaveOwners == \A id \in good : home[id] # Gone

\* The hierarchy has no holes, at any time and after any crash: the ancestors
\* of an affiliation exist (the parent check and the force option of add,
\* deletion and renaming of whole subtrees).
ParentsExist == \A n \in affs : Len(n) > 1 => Parent(n) \in affs

\* Every identity belongs to an affiliation that exists (validateID, and the
\* transactions that take identities along).
NoDanglingIdentity == \A id \in Ids : home[id] \in affs \cup {Root, Gone}

\* A renaming or deletion in flight, once it is written, touched affiliations
\* and identities of the caller's authority only.
AuthorityRespected ==
    [][\A p \in Requests : Proceed(p) =>
        /\ \A n \in affs \ affs' : IsPrefix(ctx[p].aff, n)
        /\ \A n \in affs' \ affs : IsPrefix(ctx[p].aff, n) \/ IsPrefix(n, ctx[p].aff)
        /\ affs' # affs =>
            \A id \in Ids : home[id] \notin {home'[id], Gone} => IsPrefix(ctx[p].aff, home[id])]_vars

\* All handlers share the one connection: whoever takes it gives it back, so
\* later requests are served (doTransaction, and the UPDATEs of
\* modifyAffiliationTx that no name may stand in the way of).
ConnectionReturned == conn

\* Every request in progress is answered: its handler comes to its end.
EveryRequestEnds == \A p \in Requests : ctx[p].pc # "idle" ~> ctx[p].pc = "idle"

\* The LIKE of the database matches exact segments only.
ExactLike == \A s, t \in Segments : <<s, t>> \in Like => s = t

\* Under an exact LIKE, the handlers implement the hierarchy they promise: the
\* two tables are its state, attributes, certificates and requests are not.
Tree == INSTANCE AffiliationTree
        WITH Names <- Names, Ids <- Ids, Configured <- Configured,
             ConfiguredHome <- ConfiguredHome, Gone <- Gone,
             affs <- affs, home <- home

TreeSpec == Tree!Spec
=============================================================================
