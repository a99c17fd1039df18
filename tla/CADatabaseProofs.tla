-------------------------- MODULE CADatabaseProofs --------------------------
(***************************************************************************)
(* Proofs about CADatabase, for every set of ids, requests and database    *)
(* types, every configuration and number of faults.                        *)
(***************************************************************************)
EXTENDS CADatabase, SequenceTheorems, TLAPS

LevelsReached == \A t \in Tables : levels[t] >= ServerLevel

\* Every row that is to be migrated is on the list S.
Listed(S) ==
    \A id \in Ids : \A i \in DOMAIN users[id] :
        users[id][i].level # ServerLevel => \E r \in S : r.id = id

\* The list S names no identity stored once whose attributes a client chose.
Spares(S) == \A r \in S : chosen[r.id].by = "client" => Len(users[r.id]) # 1

\* What a goroutine relies on at each position.
ContextOK(p) ==
    /\ ctx[p].pc \in Initialising => mutex = p /\ ~dbInitialized
    /\ ctx[p].pc = "handle" => dbInitialized
    /\ ctx[p].pc = "copy" => levels["identity"] < ServerLevel
    /\ ctx[p].pc = "insert" => ctx[p].todo # <<>>
    /\ ctx[p].pc \in {"user", "attribute", "level"} => Listed(ctx[p].seen) /\ Spares(ctx[p].seen)
    /\ ctx[p].pc \in {"attribute", "level"} => ctx[p].cur \subseteq ctx[p].seen
    /\ ctx[p].pc \in Tables => Migrated
    /\ ctx[p].pc \in {"affiliation", "certificate"} => levels["identity"] >= ServerLevel
    /\ ctx[p].pc = "certificate" => levels["affiliation"] >= ServerLevel
    /\ ctx[p].pc = "finish" /\ ~ctx[p].dbError => Migrated /\ LevelsReached

ContextsOK == \A p \in Threads : ContextOK(p)

\* Attributes are chosen only once the tables have the server's level.
ClientsOK ==
    \A id \in Ids : chosen[id].by = "client" =>
        /\ levels["identity"] >= ServerLevel
        /\ users[id] # <<>>
        /\ Len(users[id]) = 1 => users[id][1].attr = chosen[id].attr /\ users[id][1].level = ServerLevel

DownOK == up = "down" => \A p \in Threads : ctx[p].pc = "idle"

Inv == TypeOK /\ ContextsOK /\ ServedWhenMigrated /\ ClientsOK /\ DownOK

-----------------------------------------------------------------------------
(* One goroutine at a time *)

\* Goroutine p moves, the others keep their position and locals.
Moved(p) == ctx' \in [Threads -> Context] /\ \A q \in Threads \ {p} : ctx'[q] = ctx[q]

\* p does something that is no concern of the others: it holds the mutex, or
\* the database is ready, or it takes the free mutex, or it changes nothing shared.
Alone(p) ==
    \/ ctx[p].pc \in Initialising
    \/ dbInitialized /\ dbInitialized'
    \/ mutex = Nobody /\ UNCHANGED dbInitialized
    \/ UNCHANGED <<users, levels, chosen, mutex, dbInitialized>>

LEMMA SameDatabase ==
    ASSUME UNCHANGED <<users, levels, chosen>>
    PROVE  /\ Migrated' <=> Migrated
           /\ LevelsReached' <=> LevelsReached
           /\ ClientsOK' <=> ClientsOK
           /\ \A S : (Listed(S)' <=> Listed(S)) /\ (Spares(S)' <=> Spares(S))
BY DEF Migrated, LevelsReached, ClientsOK, Listed, Spares

LEMMA Others ==
    ASSUME TypeOK, ContextsOK, NEW p \in Threads, Moved(p), Alone(p)
    PROVE  \A q \in Threads \ {p} : ContextOK(q)'
<1> SUFFICES ASSUME NEW q \in Threads \ {p} PROVE ContextOK(q)'
    OBVIOUS
<1>1. q \in Threads /\ q # p /\ q # Nobody /\ ctx'[q] = ctx[q] /\ ContextOK(q) /\ ContextOK(p)
    BY CADatabaseAssumption DEF Moved, ContextsOK, Threads
<1>2. ctx[q].pc \in {"idle", "check", "lock", "handle"} \cup Initialising
    BY <1>1 DEF TypeOK, Context
<1>3. CASE ctx[p].pc \in Initialising
    <2>1. ctx[q].pc \in {"idle", "check", "lock"}
        BY <1>1, <1>2, <1>3 DEF ContextOK
    <2> QED
        BY <2>1, <1>1 DEF ContextOK, Initialising, Opening, Migrating, Tables
<1>4. CASE dbInitialized /\ dbInitialized'
    <2>1. ctx[q].pc \in {"idle", "check", "lock", "handle"}
        BY <1>1, <1>2, <1>4 DEF ContextOK
    <2> QED
        BY <2>1, <1>1, <1>4 DEF ContextOK, Initialising, Opening, Migrating, Tables
<1>5. CASE mutex = Nobody /\ UNCHANGED dbInitialized
    <2>1. ctx[q].pc \in {"idle", "check", "lock", "handle"}
        BY <1>1, <1>2, <1>5 DEF ContextOK
    <2> QED
        BY <2>1, <1>1, <1>5 DEF ContextOK, Initialising, Opening, Migrating, Tables
<1>6. CASE UNCHANGED <<users, levels, chosen, mutex, dbInitialized>>
    <2>1. /\ Migrated' <=> Migrated
          /\ LevelsReached' <=> LevelsReached
          /\ Listed(ctx[q].seen)' <=> Listed(ctx'[q].seen)
          /\ Spares(ctx[q].seen)' <=> Spares(ctx'[q].seen)
        BY <1>1, <1>6 DEF Migrated, LevelsReached, Listed, Spares
    <2> QED
        BY <2>1, <1>1, <1>6 DEF ContextOK
<1> QED
    BY <1>3, <1>4, <1>5, <1>6 DEF Alone

LEMMA NotDown ==
    ASSUME DownOK, NEW p \in Threads, ctx[p].pc # "idle"
    PROVE  up # "down"
BY DEF DownOK

\* A step of p that leaves the database alone needs only its own position.
LEMMA QuietStep ==
    ASSUME Inv, NEW p \in Threads, Moved(p), ContextOK(p)', Alone(p),
           UNCHANGED <<dbtype, version, dbInitialized, users, levels, chosen>>,
           mutex' \in Threads \cup {Nobody}, up' \in {"starting", "up"}, faults' \in 0 .. MaxFaults
    PROVE  Inv'
<1>1. TypeOK'
    BY DEF Inv, TypeOK, Moved
<1>2. ContextsOK'
    BY Others DEF Inv, ContextsOK
<1>3. ServedWhenMigrated' /\ ClientsOK'
    BY SameDatabase DEF Inv, ServedWhenMigrated, LevelsReached
<1>4. DownOK'
    BY DEF DownOK
<1> QED
    BY <1>1, <1>2, <1>3, <1>4 DEF Inv

\* The context p has after a Goto.
LEMMA GotoMoves ==
    ASSUME TypeOK, NEW p \in Threads, NEW pc, Goto(p, pc),
           pc \in {"idle", "check", "lock", "handle"} \cup Initialising
    PROVE  /\ Moved(p)
           /\ ctx'[p].pc = pc
           /\ ctx'[p].todo = ctx[p].todo /\ ctx'[p].seen = ctx[p].seen
           /\ ctx'[p].cur = ctx[p].cur /\ ctx'[p].dbError = ctx[p].dbError
<1>1. ctx \in [Threads -> Context] /\ ctx[p] \in Context
    BY DEF TypeOK
<1>2. ctx' = [ctx EXCEPT ![p] = [ctx[p] EXCEPT !.pc = pc]]
    BY DEF Goto
<1>3. [ctx[p] EXCEPT !.pc = pc] \in Context
    BY <1>1 DEF Context
<1>4. Moved(p) /\ ctx'[p] = [ctx[p] EXCEPT !.pc = pc]
    BY <1>1, <1>2, <1>3 DEF Moved
<1> QED
    BY <1>1, <1>4 DEF Context

LEMMA FaultTyped ==
    ASSUME TypeOK, Fault
    PROVE  faults' \in 0 .. MaxFaults
BY CADatabaseAssumption DEF TypeOK, Fault

LEMMA ReturnMoves ==
    ASSUME TypeOK, NEW p \in Threads, NEW pc \in {"idle", "handle"}, Return(p, pc), up # "down"
    PROVE  /\ Moved(p)
           /\ ctx'[p].pc = pc
           /\ mutex' = Nobody
           /\ up' \in {"starting", "up"}
<1>1. ctx \in [Threads -> Context]
    BY DEF TypeOK
<1>2. [Idle EXCEPT !.pc = pc] \in Context
    <2>1. /\ pc \in {"idle", "check", "lock", "handle"} \cup Initialising
          /\ <<>> \in Seq(Ids) /\ {} \in SUBSET Record /\ FALSE \in BOOLEAN
        OBVIOUS
    <2> QED
        BY <2>1 DEF Idle, Context
<1>3. ctx' = [ctx EXCEPT ![p] = [Idle EXCEPT !.pc = pc]]
    BY DEF Return
<1>4. Moved(p) /\ ctx'[p] = [Idle EXCEPT !.pc = pc]
    BY <1>1, <1>2, <1>3 DEF Moved
<1>5. ctx'[p].pc = pc
    BY <1>4 DEF Idle
<1>6. mutex' = Nobody /\ up' \in {"starting", "up"}
    BY DEF Return, Done, TypeOK
<1> QED
    BY <1>4, <1>5, <1>6

-----------------------------------------------------------------------------
(* Steps that leave the database alone *)

LEMMA ArriveInv == ASSUME Inv, NEW p \in Threads, Arrive(p) PROVE Inv'
<1>1. Moved(p) /\ ctx'[p].pc = "check"
    BY GotoMoves DEF Inv, Arrive
<1> Alone(p)
    BY DEF Arrive, process, Alone
<1>2. ContextOK(p)'
    BY <1>1 DEF ContextOK, Initialising, Opening, Migrating, Tables
<1> QED
    BY <1>1, <1>2, QuietStep DEF Inv, TypeOK, Arrive, process

LEMMA CheckInv == ASSUME Inv, NEW p \in Threads, Check(p) PROVE Inv'
<1>1. Moved(p) /\ Alone(p) /\ up # "down"
    BY GotoMoves, NotDown DEF Inv, Check, At, Alone, Served
<1>2. ctx'[p].pc \in {"idle", "lock"} \/ (ctx'[p].pc = "handle" /\ dbInitialized)
    BY GotoMoves DEF Inv, Check, Served
<1>3. ContextOK(p)'
    BY <1>2 DEF Check, ContextOK, Initialising, Opening, Migrating, Tables
<1>4. up' \in {"starting", "up"}
    BY <1>1 DEF Inv, TypeOK, Check, Done
<1> QED
    BY <1>1, <1>3, <1>4, QuietStep DEF Inv, TypeOK, Check

LEMMA LockInv == ASSUME Inv, NEW p \in Threads, Lock(p) PROVE Inv'
<1>1. Moved(p) /\ Alone(p) /\ up # "down"
    BY GotoMoves, NotDown DEF Inv, Lock, At, Alone, Served, Initialising, Opening
<1>2. \/ ctx'[p].pc = "open" /\ mutex' = p /\ ~dbInitialized
      \/ ctx'[p].pc = "idle"
      \/ ctx'[p].pc = "handle" /\ dbInitialized
    BY GotoMoves DEF Inv, Lock, StillNeeded, Served, Initialising, Opening
<1>3. ContextOK(p)'
    BY <1>2 DEF Lock, ContextOK, Initialising, Opening, Migrating, Tables
<1>4. up' \in {"starting", "up"} /\ mutex' \in Threads \cup {Nobody}
    BY <1>1 DEF Inv, TypeOK, Lock, Done
<1> QED
    BY <1>1, <1>3, <1>4, QuietStep DEF Inv, TypeOK, Lock

LEMMA StartInv == ASSUME Inv, Start PROVE Inv'
<1>1. Boot \in Threads /\ \A q \in Threads : ctx[q].pc = "idle"
    BY DEF Inv, Start, DownOK, Threads
<1>2. Moved(Boot) /\ ctx'[Boot].pc = "check"
    BY <1>1, GotoMoves DEF Inv, Start
<1>3. \A q \in Threads : ctx'[q].pc \in {"idle", "check"}
    BY <1>1, <1>2 DEF Moved
<1>4. ContextsOK'
    BY <1>3 DEF ContextsOK, ContextOK, Initialising, Opening, Migrating, Tables
<1>5. TypeOK'
    BY <1>2 DEF Inv, TypeOK, Moved, Start
<1>6. ServedWhenMigrated' /\ ClientsOK' /\ DownOK'
    BY SameDatabase DEF Inv, Start, ServedWhenMigrated, DownOK
<1> QED
    BY <1>4, <1>5, <1>6 DEF Inv

LEMMA CrashInv == ASSUME Inv, Crash PROVE Inv'
<1>1. Idle \in Context /\ Idle.pc = "idle"
    BY DEF Idle, Context, Record
<1>2. \A q \in Threads : ctx'[q].pc = "idle"
    BY <1>1 DEF Crash
<1>3. TypeOK'
    BY <1>1, FaultTyped DEF Inv, TypeOK, Crash
<1>4. ContextsOK'
    BY <1>2 DEF ContextsOK, ContextOK, Initialising, Opening, Migrating, Tables
<1>5. ServedWhenMigrated' /\ ClientsOK' /\ DownOK'
    BY <1>2, SameDatabase DEF Inv, Crash, ServedWhenMigrated, DownOK
<1> QED
    BY <1>3, <1>4, <1>5 DEF Inv

-----------------------------------------------------------------------------
(* Steps inside initDB that leave the database alone *)

LEMMA InsideInitDB ==
    ASSUME Inv, NEW p \in Threads, ctx[p].pc \in Initialising
    PROVE  mutex = p /\ ~dbInitialized /\ up \in {"starting", "up"} /\ Alone(p)
<1>1. ctx[p].pc # "idle"
    BY DEF Initialising, Opening, Migrating, Tables
<1> QED
    BY <1>1, NotDown DEF Inv, TypeOK, ContextsOK, ContextOK, Alone

LEMMA QuietInside ==
    ASSUME Inv, NEW p \in Threads, ctx[p].pc \in Initialising, Moved(p), ContextOK(p)',
           UNCHANGED <<process, users, levels, chosen>>, faults' \in 0 .. MaxFaults
    PROVE  Inv'
BY InsideInitDB, QuietStep DEF process

LEMMA OpenInv == ASSUME Inv, NEW p \in Threads, Open(p) PROVE Inv'
<1>1. ctx[p].pc \in Initialising
    BY DEF Open, At, Initialising, Opening
<1>2. Moved(p) /\ ctx'[p].pc \in {"read", "dblevels"}
    BY GotoMoves DEF Inv, Open, Initialising, Opening
<1>3. ContextOK(p)'
    BY <1>1, <1>2, InsideInitDB DEF Open, process, ContextOK, Initialising, Opening, Migrating, Tables
<1> QED
    BY <1>1, <1>2, <1>3, QuietInside DEF Inv, TypeOK, Open

LEMMA CurrentDBLevelsInv == ASSUME Inv, NEW p \in Threads, CurrentDBLevels(p) PROVE Inv'
<1>1. ctx[p].pc \in Initialising
    BY DEF CurrentDBLevels, At, Initialising, Opening
<1>2. /\ Moved(p)
      /\ ctx'[p].pc = "dblevels" \/ (ctx'[p].pc = "copy" /\ levels["identity"] < ServerLevel)
    BY GotoMoves DEF Inv, CurrentDBLevels, Initialising, Opening
<1>3. ContextOK(p)'
    BY <1>1, <1>2, InsideInitDB
    DEF CurrentDBLevels, process, ContextOK, Initialising, Opening, Migrating, Tables
<1> QED
    BY <1>1, <1>2, <1>3, QuietInside DEF Inv, TypeOK, CurrentDBLevels

LEMMA CheckDBLevelsInv == ASSUME Inv, NEW p \in Threads, CheckDBLevels(p) PROVE Inv'
<1>1. ctx[p].pc \in Initialising
    BY DEF CheckDBLevels, At, Initialising, Opening
<1>2. Moved(p) /\ ctx'[p].pc = "load"
    <2>1. [ctx[p] EXCEPT !.pc = "load", !.todo = Configured] \in Context
        BY CADatabaseAssumption DEF Inv, TypeOK, Context, Initialising
    <2>2. ctx' = [ctx EXCEPT ![p] = [ctx[p] EXCEPT !.pc = "load", !.todo = Configured]]
        BY DEF CheckDBLevels
    <2> QED
        BY <2>1, <2>2 DEF Inv, TypeOK, Moved, Context
<1>3. ContextOK(p)'
    BY <1>1, <1>2, InsideInitDB
    DEF CheckDBLevels, process, ContextOK, Initialising, Opening, Migrating, Tables
<1> QED
    BY <1>1, <1>2, <1>3, QuietInside DEF Inv, TypeOK, CheckDBLevels

LEMMA OpeningFailsInv == ASSUME Inv, NEW p \in Threads, OpeningFails(p) PROVE Inv'
<1>1. ctx[p].pc \in Initialising
    BY DEF OpeningFails, Initialising
<1>2. Moved(p) /\ ctx'[p].pc = "idle" /\ mutex' = Nobody /\ up' \in {"starting", "up"}
    BY <1>1, InsideInitDB, ReturnMoves DEF Inv, OpeningFails
<1>3. ContextOK(p)'
    BY <1>2 DEF ContextOK, Initialising, Opening, Migrating, Tables
<1>4. faults' \in 0 .. MaxFaults
    BY FaultTyped DEF Inv, OpeningFails
<1> QED
    BY <1>1, <1>2, <1>3, <1>4, InsideInitDB, QuietStep DEF OpeningFails

LEMMA NextLoadedMoves ==
    ASSUME TypeOK, NEW p \in Threads, ctx[p].todo # <<>>, ctx' = NextLoaded(p)
    PROVE  Moved(p) /\ ctx'[p].pc = "load"
<1>1. [ctx[p] EXCEPT !.pc = "load", !.todo = Tail(ctx[p].todo)] \in Context
    <2>1. ctx[p].todo \in Seq(Ids) /\ Tail(ctx[p].todo) \in Seq(Ids)
        BY DEF TypeOK, Context
    <2> QED
        BY <2>1 DEF TypeOK, Context, Initialising
<1>2. ctx' = [ctx EXCEPT ![p] = [ctx[p] EXCEPT !.pc = "load", !.todo = Tail(ctx[p].todo)]]
    BY DEF NextLoaded
<1> QED
    BY <1>1, <1>2 DEF TypeOK, Moved, Context

LEMMA LookUpInv == ASSUME Inv, NEW p \in Threads, LookUp(p) PROVE Inv'
<1>1. ctx[p].pc \in Initialising
    BY DEF LookUp, At, Initialising
<1>2. Moved(p) /\ (ctx'[p].pc = "load" \/ (ctx'[p].pc = "insert" /\ ctx'[p].todo # <<>>))
    <2>1. CASE ctx' = NextLoaded(p)
        BY <2>1, NextLoadedMoves DEF Inv, LookUp
    <2>2. CASE Goto(p, "insert")
        BY <2>2, GotoMoves DEF Inv, LookUp, Initialising
    <2> QED
        BY <2>1, <2>2 DEF LookUp
<1>3. ContextOK(p)'
    BY <1>1, <1>2, InsideInitDB
    DEF LookUp, process, ContextOK, Initialising, Opening, Migrating, Tables
<1>4. faults' \in 0 .. MaxFaults
    BY FaultTyped DEF Inv, TypeOK, LookUp
<1> QED
    BY <1>1, <1>2, <1>3, <1>4, QuietInside DEF LookUp

LEMMA LoadUsersTableInv == ASSUME Inv, NEW p \in Threads, LoadUsersTable(p) PROVE Inv'
<1>1. ctx[p].pc \in Initialising
    BY DEF LoadUsersTable, At, Initialising, Opening
<1>2. Moved(p) /\ ctx'[p].pc = "affiliations"
    BY GotoMoves DEF Inv, LoadUsersTable, Initialising, Opening, Migrating
<1>3. ContextOK(p)'
    BY <1>1, <1>2, InsideInitDB
    DEF LoadUsersTable, process, ContextOK, Initialising, Opening, Migrating, Tables
<1> QED
    BY <1>1, <1>2, <1>3, QuietInside DEF Inv, TypeOK, LoadUsersTable

LEMMA LoadAffiliationsTableInv == ASSUME Inv, NEW p \in Threads, LoadAffiliationsTable(p) PROVE Inv'
<1>1. ctx[p].pc \in Initialising
    BY DEF LoadAffiliationsTable, At, Initialising, Opening
<1>2. Moved(p) /\ ctx'[p].pc = "list"
    BY GotoMoves DEF Inv, LoadAffiliationsTable, Initialising, Opening, Migrating
<1>3. ContextOK(p)'
    BY <1>1, <1>2, InsideInitDB
    DEF LoadAffiliationsTable, process, ContextOK, Initialising, Opening, Migrating, Tables
<1> QED
    BY <1>1, <1>2, <1>3, QuietInside DEF Inv, TypeOK, LoadAffiliationsTable

LEMMA LoadErrorMoves ==
    ASSUME TypeOK, NEW p \in Threads, ctx' = LoadError(p)
    PROVE  Moved(p) /\ ctx'[p].pc \in {"affiliations", "list"}
<1> DEFINE c == [ctx[p] EXCEPT !.pc = IF @ = "insert" THEN "affiliations" ELSE "list",
                               !.todo = <<>>, !.dbError = TRUE]
<1>1. c \in Context /\ c.pc \in {"affiliations", "list"}
    <2> DEFINE pc == IF ctx[p].pc = "insert" THEN "affiliations" ELSE "list"
    <2>1. pc \in {"affiliations", "list"} /\ <<>> \in Seq(Ids) /\ ctx[p] \in Context
        BY DEF TypeOK
    <2>2. c = [ctx[p] EXCEPT !.pc = pc, !.todo = <<>>, !.dbError = TRUE]
        BY <2>1 DEF Context
    <2> HIDE DEF c, pc
    <2> QED
        BY <2>1, <2>2 DEF Context, Initialising, Migrating
<1>2. ctx' = [ctx EXCEPT ![p] = c]
    BY DEF LoadError
<1> HIDE DEF c
<1> QED
    BY <1>1, <1>2 DEF TypeOK, Moved

LEMMA LoadErrorInv ==
    ASSUME Inv, NEW p \in Threads, KeyViolated(p) \/ LoadingFails(p)
    PROVE  Inv'
<1>1. ctx[p].pc \in Initialising
    BY DEF KeyViolated, LoadingFails, At, Initialising
<1>2. Moved(p) /\ ctx'[p].pc \in {"affiliations", "list"}
    BY LoadErrorMoves DEF Inv, KeyViolated, LoadingFails
<1>3. UNCHANGED <<process, users, levels, chosen>> /\ faults' \in 0 .. MaxFaults
    BY FaultTyped DEF Inv, TypeOK, KeyViolated, LoadingFails
<1>4. ContextOK(p)'
    BY <1>1, <1>2, <1>3, InsideInitDB
    DEF process, ContextOK, Initialising, Opening, Migrating, Tables
<1> QED
    BY <1>1, <1>2, <1>3, <1>4, QuietInside

LEMMA OutdatedListed ==
    ASSUME TypeOK, ClientsOK
    PROVE  Outdated \subseteq Record /\ Listed(Outdated) /\ Spares(Outdated)
<1>1. \A id \in Ids : users[id] \in Seq(Row) /\ \A i \in DOMAIN users[id] : users[id][i] \in Row
    BY DEF TypeOK
<1>2. \A id \in Ids : \A i \in DOMAIN users[id] :
         users[id][i].level < ServerLevel => [id |-> id, attr |-> users[id][i].attr] \in Outdated
    BY DEF Outdated
<1>3. ASSUME NEW r \in Outdated
      PROVE  /\ r \in Record
             /\ \E i \in DOMAIN users[r.id] : users[r.id][i].level < ServerLevel
    <2>1. PICK id \in Ids : \E i \in DOMAIN users[id] :
              r = [id |-> id, attr |-> users[id][i].attr] /\ users[id][i].level < ServerLevel
        BY DEF Outdated
    <2>2. PICK i \in DOMAIN users[id] :
              r = [id |-> id, attr |-> users[id][i].attr] /\ users[id][i].level < ServerLevel
        BY <2>1
    <2> QED
        BY <2>2, <1>1 DEF Record, Row
<1>4. Listed(Outdated)
    <2> SUFFICES ASSUME NEW id \in Ids, NEW i \in DOMAIN users[id], users[id][i].level # ServerLevel
                 PROVE  \E r \in Outdated : r.id = id
        BY DEF Listed
    <2>1. users[id][i].level < ServerLevel
        BY <1>1 DEF Row, ServerLevel
    <2> QED
        BY <2>1, <1>2
<1>5. Spares(Outdated)
    <2> SUFFICES ASSUME NEW r \in Outdated, chosen[r.id].by = "client", Len(users[r.id]) = 1
                 PROVE  FALSE
        BY DEF Spares
    <2>1. r.id \in Ids
        BY <1>3 DEF Record
    <2>2. PICK i \in DOMAIN users[r.id] : users[r.id][i].level < ServerLevel
        BY <1>3
    <2>3. i = 1
        BY <1>1, <2>1, <2>2
    <2> QED
        BY <2>1, <2>2, <2>3 DEF ClientsOK, ServerLevel
<1> QED
    BY <1>3, <1>4, <1>5

LEMMA ListUsersInv == ASSUME Inv, NEW p \in Threads, ListUsers(p) PROVE Inv'
<1>1. ctx[p].pc \in Initialising
    BY DEF ListUsers, At, Initialising, Migrating
<1>2. Outdated \subseteq Record /\ Listed(Outdated) /\ Spares(Outdated)
    BY OutdatedListed DEF Inv
<1>3. Moved(p) /\ ctx'[p].pc = "user" /\ ctx'[p].seen = Outdated
    <2>1. [ctx[p] EXCEPT !.pc = "user", !.seen = Outdated] \in Context
        BY <1>2 DEF Inv, TypeOK, Context, Initialising
    <2>2. ctx' = [ctx EXCEPT ![p] = [ctx[p] EXCEPT !.pc = "user", !.seen = Outdated]]
        BY DEF ListUsers
    <2> QED
        BY <2>1, <2>2 DEF Inv, TypeOK, Moved, Context
<1>4. Listed(ctx[p].seen)' /\ Spares(ctx[p].seen)'
    BY <1>2, <1>3, SameDatabase DEF ListUsers
<1>5. ContextOK(p)'
    BY <1>1, <1>3, <1>4, InsideInitDB
    DEF ListUsers, process, ContextOK, Initialising, Opening, Migrating, Tables
<1> QED
    BY <1>1, <1>3, <1>5, QuietInside DEF Inv, TypeOK, ListUsers

LEMMA NextUserInv == ASSUME Inv, NEW p \in Threads, NextUser(p) PROVE Inv'
<1>1. ctx[p].pc \in Initialising
    BY DEF NextUser, At, Initialising
<1>2. /\ ctx[p] \in Context /\ ctx \in [Threads -> Context]
      /\ Listed(ctx[p].seen) /\ Spares(ctx[p].seen)
    BY DEF Inv, TypeOK, ContextsOK, ContextOK, NextUser, At
<1>3. UNCHANGED <<process, users, levels, chosen>> /\ faults' \in 0 .. MaxFaults
    BY DEF Inv, TypeOK, NextUser
<1>4. ASSUME NEW r \in ctx[p].seen, NEW pc \in {"attribute", "level"},
             ctx' = [ctx EXCEPT ![p].pc = pc, ![p].cur = {r}]
      PROVE  Moved(p) /\ ContextOK(p)'
    <2>1. {r} \in SUBSET Record
        BY <1>2 DEF Context
    <2>2. [ctx[p] EXCEPT !.pc = pc, !.cur = {r}] \in Context
        BY <1>2, <2>1 DEF Context, Initialising, Migrating
    <2>3. Moved(p) /\ ctx'[p].pc = pc /\ ctx'[p].cur = {r} /\ ctx'[p].seen = ctx[p].seen
        BY <1>2, <1>4, <2>2 DEF Moved, Context
    <2>4. Listed(ctx[p].seen)' /\ Spares(ctx[p].seen)'
        BY <1>2, <1>3, <2>3, SameDatabase
    <2> QED
        BY <1>1, <1>3, <2>3, <2>4, InsideInitDB
        DEF process, ContextOK, Initialising, Opening, Migrating, Tables
<1>5. ASSUME ctx[p].seen = {}, Goto(p, "identity")
      PROVE  Moved(p) /\ ContextOK(p)'
    <2>1. Moved(p) /\ ctx'[p].pc = "identity"
        BY <1>5, GotoMoves DEF Inv, Initialising, Migrating, Tables
    <2>2. Migrated'
        BY <1>2, <1>3, <1>5, SameDatabase DEF Listed, Migrated
    <2> QED
        BY <1>1, <1>3, <2>1, <2>2, InsideInitDB
        DEF process, ContextOK, Initialising, Opening, Migrating, Tables
<1>6. Moved(p) /\ ContextOK(p)'
    <2>1. CASE \E r \in ctx[p].seen : \E pc \in {"attribute", "level"} :
                  ctx' = [ctx EXCEPT ![p].pc = pc, ![p].cur = {r}]
        BY <2>1, <1>4
    <2>2. CASE ctx[p].seen = {} /\ Goto(p, "identity")
        BY <2>2, <1>5
    <2> QED
        BY <2>1, <2>2 DEF NextUser
<1> QED
    BY <1>1, <1>3, <1>6, QuietInside

LEMMA MigrationErrorMoves ==
    ASSUME TypeOK, NEW p \in Threads, ctx' = MigrationError(p)
    PROVE  Moved(p) /\ ctx'[p].pc = "finish" /\ ctx'[p].dbError
<1>1. [ctx[p] EXCEPT !.pc = "finish", !.dbError = TRUE] \in Context
    BY DEF TypeOK, Context, Initialising
<1>2. ctx' = [ctx EXCEPT ![p] = [ctx[p] EXCEPT !.pc = "finish", !.dbError = TRUE]]
    BY DEF MigrationError
<1> QED
    BY <1>1, <1>2 DEF TypeOK, Moved, Context

LEMMA MigrationFailsInv == ASSUME Inv, NEW p \in Threads, MigrationFails(p) PROVE Inv'
<1>1. ctx[p].pc \in Initialising
    BY DEF MigrationFails, Initialising
<1>2. Moved(p) /\ ctx'[p].pc = "finish" /\ ctx'[p].dbError
    BY MigrationErrorMoves DEF Inv, MigrationFails
<1>3. ContextOK(p)'
    BY <1>1, <1>2, InsideInitDB
    DEF MigrationFails, process, ContextOK, Initialising, Opening, Migrating, Tables
<1>4. faults' \in 0 .. MaxFaults
    BY FaultTyped DEF Inv, MigrationFails
<1> QED
    BY <1>1, <1>2, <1>3, <1>4, QuietInside DEF MigrationFails

-----------------------------------------------------------------------------
(* Steps that write the database *)

\* A write inside initDB: dbInitialized is FALSE before and after it, and the
\* other goroutines are outside.
LEMMA WriteInside ==
    ASSUME Inv, NEW p \in Threads, ctx[p].pc \in Initialising, Moved(p), ContextOK(p)',
           UNCHANGED <<process, faults>>, ClientsOK',
           users' \in [Ids -> Seq(Row)], levels' \in [Tables -> Nat], chosen' \in [Ids -> Choice]
    PROVE  Inv'
<1>1. TypeOK'
    BY DEF Inv, TypeOK, Moved, process
<1>2. ContextsOK'
    BY Others, InsideInitDB DEF Inv, ContextsOK
<1>3. ServedWhenMigrated' /\ DownOK'
    BY InsideInitDB DEF process, ServedWhenMigrated, DownOK
<1> QED
    BY <1>1, <1>2, <1>3 DEF Inv

\* The rows of the table, as sequences of records.
LEMMA RowsTyped ==
    ASSUME TypeOK, NEW id \in Ids
    PROVE  /\ users[id] \in Seq(Row) /\ Len(users[id]) \in Nat
           /\ DOMAIN users[id] = 1 .. Len(users[id])
           /\ \A i \in DOMAIN users[id] : users[id][i] \in Row
BY DEF TypeOK

LEMMA UpdateIdentitiesTableInv ==
    ASSUME Inv, NEW p \in Threads, UpdateIdentitiesTable(p)
    PROVE  Inv'
<1>1. ctx[p].pc \in Initialising /\ levels["identity"] < ServerLevel
    BY DEF Inv, ContextsOK, ContextOK, UpdateIdentitiesTable, At, Initialising, Opening
<1>2. Moved(p) /\ ctx'[p].pc = "dblevels"
    BY GotoMoves DEF Inv, UpdateIdentitiesTable, Initialising, Opening
<1>3. ContextOK(p)'
    BY <1>1, <1>2, InsideInitDB
    DEF UpdateIdentitiesTable, process, ContextOK, Initialising, Opening, Migrating, Tables
<1>4. users' \in [Ids -> Seq(Row)]
    <2>1. ASSUME NEW id \in Ids
          PROVE  [i \in DOMAIN users[id] |-> CopiedRow(users[id][i])] \in Seq(Row)
        <3>1. \A i \in DOMAIN users[id] : CopiedRow(users[id][i]) \in Row
            BY RowsTyped DEF Inv, CopiedRow, Row
        <3> QED
            BY <3>1, RowsTyped DEF Inv
    <2> QED
        BY <2>1 DEF UpdateIdentitiesTable
<1>5. ClientsOK'
    <2>1. ~(levels["identity"] >= ServerLevel)
        <3>1. levels["identity"] \in Nat
            BY DEF Inv, TypeOK, Tables
        <3> QED
            BY <1>1, <3>1 DEF ServerLevel
    <2>2. \A id \in Ids : chosen[id].by # "client"
        BY <2>1, Zenon DEF Inv, ClientsOK
    <2> QED
        BY <2>2 DEF UpdateIdentitiesTable, ClientsOK
<1> QED
    BY <1>1, <1>2, <1>3, <1>4, <1>5, WriteInside DEF Inv, TypeOK, UpdateIdentitiesTable, process

LEMMA LoadIdentityInv == ASSUME Inv, NEW p \in Threads, LoadIdentity(p) PROVE Inv'
<1>1. ctx[p].pc \in Initialising /\ ctx[p].todo # <<>>
    BY DEF Inv, ContextsOK, ContextOK, LoadIdentity, At, Initialising
<1>2. Moved(p) /\ ctx'[p].pc = "load"
    BY <1>1, NextLoadedMoves DEF Inv, LoadIdentity
<1>3. ContextOK(p)'
    BY <1>1, <1>2, InsideInitDB
    DEF LoadIdentity, process, ContextOK, Initialising, Opening, Migrating, Tables
<1> DEFINE loaded == Loading(p)
<1>4. loaded \in Ids
    <2>1. ctx[p].todo \in Seq(Ids)
        BY DEF Inv, TypeOK, Context
    <2> QED
        BY <1>1, <2>1 DEF Loading
<1>5. PICK a \in {"none", "own"} :
          /\ users' = [users EXCEPT ![loaded] = Append(@, [level |-> version, attr |-> a])]
          /\ chosen' = IF Stored(loaded) \/ version = 0 THEN chosen
                       ELSE [chosen EXCEPT ![loaded] = [by |-> "config", attr |-> a]]
    BY DEF LoadIdentity
<1> HIDE DEF loaded
<1>6. [level |-> version, attr |-> a] \in Row /\ [by |-> "config", attr |-> a] \in Choice
    BY DEF Inv, TypeOK, Row, Choice, Attr, ServerLevel
<1>7. users' \in [Ids -> Seq(Row)] /\ chosen' \in [Ids -> Choice]
    <2>1. Append(users[loaded], [level |-> version, attr |-> a]) \in Seq(Row)
        BY <1>4, <1>6, RowsTyped DEF Inv
    <2> QED
        BY <1>5, <1>6, <2>1 DEF Inv, TypeOK
<1>8. ClientsOK'
    <2> SUFFICES ASSUME NEW id \in Ids, chosen'[id].by = "client"
                 PROVE  /\ levels'["identity"] >= ServerLevel
                        /\ users'[id] # <<>>
                        /\ Len(users'[id]) = 1 => /\ users'[id][1].attr = chosen'[id].attr
                                                  /\ users'[id][1].level = ServerLevel
        BY DEF ClientsOK
    <2>1. chosen'[id] = chosen[id]
        BY <1>5, <1>6 DEF Inv, TypeOK, Choice
    <2>2. /\ levels["identity"] >= ServerLevel /\ users[id] # <<>>
          /\ Len(users[id]) = 1 => users[id][1].attr = chosen[id].attr /\ users[id][1].level = ServerLevel
        BY <2>1 DEF Inv, ClientsOK
    <2>3. CASE id # loaded
        BY <2>1, <2>2, <2>3, <1>5 DEF LoadIdentity, Inv, TypeOK
    <2>4. CASE id = loaded
        <3>1. users'[id] = Append(users[id], [level |-> version, attr |-> a])
            BY <1>4, <1>5, <2>4 DEF Inv, TypeOK
        <3>2. Len(users'[id]) = Len(users[id]) + 1 /\ Len(users[id]) # 0
            BY <3>1, <2>2, RowsTyped DEF Inv
        <3> QED
            BY <3>1, <3>2, <2>2, RowsTyped DEF Inv, LoadIdentity
    <2> QED
        BY <2>3, <2>4
<1> QED
    BY <1>1, <1>2, <1>3, <1>7, <1>8, WriteInside DEF Inv, TypeOK, LoadIdentity, process

\* The two UPDATEs of a migration, of the rows of the identity at hand.
LEMMA CurrentRecord ==
    ASSUME Inv, NEW p \in Threads, ctx[p].pc \in {"attribute", "level"}, NEW r \in ctx[p].cur
    PROVE  /\ r \in ctx[p].seen /\ r.id \in Ids /\ ctx[p].seen \in SUBSET Record
           /\ Listed(ctx[p].seen) /\ Spares(ctx[p].seen)
           /\ ctx[p].pc \in Initialising /\ ctx[p].cur \subseteq ctx[p].seen
BY DEF Inv, TypeOK, Context, ContextsOK, ContextOK, Record, Initialising, Migrating

\* An UPDATE by id keeps the number of rows of every id, and the rows of the others.
Updates(r) ==
    /\ users' \in [Ids -> Seq(Row)]
    /\ \A id \in Ids : DOMAIN users'[id] = DOMAIN users[id] /\ Len(users'[id]) = Len(users[id])
    /\ \A id \in Ids \ {r.id} : users'[id] = users[id]

LEMMA UpdatesClients ==
    ASSUME Inv, NEW p \in Threads, ctx[p].pc \in {"attribute", "level"}, NEW r \in ctx[p].cur,
           Updates(r), UNCHANGED <<levels, chosen>>
    PROVE  ClientsOK' /\ \A S \in SUBSET ctx[p].seen : Spares(S)'
<1>1. r \in ctx[p].seen /\ r.id \in Ids /\ Spares(ctx[p].seen) /\ ctx[p].seen \in SUBSET Record
    BY CurrentRecord
<1>2. ASSUME NEW id \in Ids, chosen'[id].by = "client"
      PROVE  /\ levels'["identity"] >= ServerLevel
             /\ users'[id] # <<>>
             /\ Len(users'[id]) = 1 => /\ users'[id][1].attr = chosen'[id].attr
                                       /\ users'[id][1].level = ServerLevel
    <2>1. /\ levels["identity"] >= ServerLevel /\ users[id] # <<>>
          /\ Len(users[id]) = 1 => users[id][1].attr = chosen[id].attr /\ users[id][1].level = ServerLevel
        BY <1>2 DEF Inv, ClientsOK
    <2>2. Len(users'[id]) = Len(users[id]) /\ users'[id] \in Seq(Row) /\ users[id] \in Seq(Row)
        BY DEF Updates, Inv, TypeOK
    <2>3. CASE id = r.id
        <3>1. Len(users[id]) # 1
            BY <1>1, <1>2, <2>3 DEF Spares
        <3> QED
            BY <2>1, <2>2, <3>1
    <2>4. CASE id # r.id
        BY <2>1, <2>4 DEF Updates
    <2> QED
        BY <2>3, <2>4
<1>3. \A S \in SUBSET ctx[p].seen : Spares(S)'
    <2> SUFFICES ASSUME NEW S \in SUBSET ctx[p].seen, NEW s \in S, chosen'[s.id].by = "client"
                 PROVE  Len(users'[s.id]) # 1
        BY DEF Spares
    <2>1. s \in ctx[p].seen /\ s.id \in Ids
        BY <1>1 DEF Record
    <2> QED
        BY <1>1, <2>1 DEF Spares, Updates
<1> QED
    BY <1>2, <1>3 DEF ClientsOK

LEMMA ModifyAttributesInv == ASSUME Inv, NEW p \in Threads, ModifyAttributes(p) PROVE Inv'
<1>1. PICK r \in ctx[p].cur :
          /\ users' = WithAttribute(r)
          /\ Goto(p, "level") \/ ctx' = MigrationError(p)
    BY DEF ModifyAttributes
<1>2. /\ r \in ctx[p].seen /\ r.id \in Ids /\ ctx[p].seen \in SUBSET Record
      /\ Listed(ctx[p].seen) /\ ctx[p].pc \in Initialising /\ ctx[p].cur \subseteq ctx[p].seen
      /\ ctx[p].pc \in {"attribute", "level"}
    BY CurrentRecord DEF ModifyAttributes, At
<1>3. /\ users[r.id] \in Seq(Row) /\ Len(users[r.id]) \in Nat
      /\ DOMAIN users[r.id] = 1 .. Len(users[r.id])
      /\ \A i \in DOMAIN users[r.id] : users[r.id][i] \in Row
      /\ users \in [Ids -> Seq(Row)]
    BY <1>2, RowsTyped DEF Inv, TypeOK
<1> DEFINE row(i) == [users[r.id][i] EXCEPT !.attr = "all"]
           rows == [i \in DOMAIN users[r.id] |-> row(i)]
<1>4. \A i \in DOMAIN users[r.id] : row(i) \in Row /\ row(i).level = users[r.id][i].level
    BY <1>3 DEF Row, Attr
<1> HIDE DEF row
<1>5. rows \in Seq(Row) /\ DOMAIN rows = DOMAIN users[r.id] /\ Len(rows) = Len(users[r.id])
    BY <1>3, <1>4
<1>6. users' = [users EXCEPT ![r.id] = rows]
    BY <1>1 DEF WithAttribute, row
<1>7. users'[r.id] = rows /\ \A i \in DOMAIN users[r.id] : users'[r.id][i].level = users[r.id][i].level
    <2>1. users'[r.id] = rows
        BY <1>2, <1>3, <1>6
    <2> QED
        BY <2>1, <1>4
<1> HIDE DEF rows
<1>8. Updates(r)
    BY <1>2, <1>3, <1>5, <1>6 DEF Updates
<1>9. UNCHANGED <<levels, chosen, process, faults>>
    BY DEF ModifyAttributes
<1>10. ClientsOK' /\ \A S \in SUBSET ctx[p].seen : Spares(S)'
    BY <1>1, <1>2, <1>8, <1>9, UpdatesClients
<1>11. \A S : Listed(S) => Listed(S)'
    BY <1>3, <1>7, <1>8 DEF Listed, Updates
<1>12. Moved(p) /\ ContextOK(p)'
    <2>1. CASE Goto(p, "level")
        <3>1. /\ Moved(p) /\ ctx'[p].pc = "level"
              /\ ctx'[p].seen = ctx[p].seen /\ ctx'[p].cur = ctx[p].cur
            BY <2>1, GotoMoves DEF Inv, Initialising, Migrating
        <3>2. Listed(ctx[p].seen)' /\ Spares(ctx[p].seen)'
            BY <1>2, <1>10, <1>11, <3>1
        <3> QED
            BY <1>2, <1>9, <3>1, <3>2, InsideInitDB
            DEF process, ContextOK, Initialising, Opening, Migrating, Tables
    <2>2. CASE ctx' = MigrationError(p)
        BY <2>2, <1>2, <1>9, MigrationErrorMoves, InsideInitDB
        DEF Inv, process, ContextOK, Initialising, Opening, Migrating, Tables
    <2> QED
        BY <2>1, <2>2, <1>1
<1> QED
    BY <1>2, <1>8, <1>9, <1>10, <1>12, WriteInside DEF Updates, Inv, TypeOK

LEMMA SetLevelInv == ASSUME Inv, NEW p \in Threads, SetLevel(p) PROVE Inv'
<1>1. PICK r \in ctx[p].cur :
          /\ users' = WithLevel(r)
          /\ \/ ctx' = [ctx EXCEPT ![p].pc = "user", ![p].seen = @ \ {r}, ![p].cur = {}]
             \/ ctx' = MigrationError(p)
    BY DEF SetLevel
<1>2. /\ r \in ctx[p].seen /\ r.id \in Ids /\ ctx[p].seen \in SUBSET Record
      /\ Listed(ctx[p].seen) /\ ctx[p].pc \in Initialising
      /\ ctx[p].pc \in {"attribute", "level"}
    BY CurrentRecord DEF SetLevel, At
<1>3. /\ users[r.id] \in Seq(Row) /\ Len(users[r.id]) \in Nat
      /\ DOMAIN users[r.id] = 1 .. Len(users[r.id])
      /\ \A i \in DOMAIN users[r.id] : users[r.id][i] \in Row
      /\ users \in [Ids -> Seq(Row)]
    BY <1>2, RowsTyped DEF Inv, TypeOK
<1> DEFINE row(i) == [users[r.id][i] EXCEPT !.level = MigratedLevel]
           rows == [i \in DOMAIN users[r.id] |-> row(i)]
<1>4. \A i \in DOMAIN users[r.id] : row(i) \in Row /\ row(i).level = ServerLevel
    BY <1>3 DEF Row, MigratedLevel, ServerLevel
<1> HIDE DEF row
<1>5. rows \in Seq(Row) /\ DOMAIN rows = DOMAIN users[r.id] /\ Len(rows) = Len(users[r.id])
    BY <1>3, <1>4
<1>6. users' = [users EXCEPT ![r.id] = rows]
    BY <1>1 DEF WithLevel, WithLevelWritten, row
<1>7. users'[r.id] = rows /\ \A i \in DOMAIN users[r.id] : users'[r.id][i].level = ServerLevel
    <2>1. users'[r.id] = rows
        BY <1>2, <1>3, <1>6
    <2> QED
        BY <2>1, <1>4
<1> HIDE DEF rows
<1>8. Updates(r)
    BY <1>2, <1>3, <1>5, <1>6 DEF Updates
<1>9. UNCHANGED <<levels, chosen, process, faults>>
    BY DEF SetLevel
<1>10. ClientsOK' /\ \A S \in SUBSET ctx[p].seen : Spares(S)'
    BY <1>1, <1>2, <1>8, <1>9, UpdatesClients
<1>11. \A S : Listed(S) => Listed(S \ {r})'
    <2> SUFFICES ASSUME NEW S, Listed(S), NEW id \in Ids, NEW i \in DOMAIN users'[id],
                        users'[id][i].level # ServerLevel
                 PROVE  \E s \in S \ {r} : s.id = id
        BY DEF Listed
    <2>1. id # r.id
        BY <1>3, <1>5, <1>7, <1>8, <1>2 DEF Updates
    <2>2. users'[id] = users[id]
        BY <2>1, <1>8 DEF Updates
    <2>3. PICK s \in S : s.id = id
        BY <2>2 DEF Listed
    <2> QED
        BY <2>1, <2>3
<1>12. Moved(p) /\ ContextOK(p)'
    <2>1. CASE ctx' = [ctx EXCEPT ![p].pc = "user", ![p].seen = @ \ {r}, ![p].cur = {}]
        <3>1. ctx[p] \in Context /\ ctx \in [Threads -> Context]
            BY DEF Inv, TypeOK
        <3>2. [ctx[p] EXCEPT !.pc = "user", !.seen = ctx[p].seen \ {r}, !.cur = {}] \in Context
            BY <3>1 DEF Context, Initialising, Migrating
        <3>3. Moved(p) /\ ctx'[p].pc = "user" /\ ctx'[p].seen = ctx[p].seen \ {r}
            BY <2>1, <3>1, <3>2 DEF Moved, Context
        <3>4. Listed(ctx[p].seen)' /\ Spares(ctx[p].seen)'
            <4>1. PICK rest : rest = ctx[p].seen \ {r}
                OBVIOUS
            <4>2. Listed(rest)' /\ Spares(rest)' /\ ctx'[p].seen = rest
                BY <4>1, <1>2, <1>10, <1>11, <3>3
            <4> QED
                BY <4>2 DEF Listed, Spares
        <3> QED
            BY <1>2, <1>9, <3>3, <3>4, InsideInitDB
            DEF process, ContextOK, Initialising, Opening, Migrating, Tables
    <2>2. CASE ctx' = MigrationError(p)
        BY <2>2, <1>2, <1>9, MigrationErrorMoves, InsideInitDB
        DEF Inv, process, ContextOK, Initialising, Opening, Migrating, Tables
    <2> QED
        BY <2>1, <2>2, <1>1
<1> QED
    BY <1>2, <1>8, <1>9, <1>10, <1>12, WriteInside DEF Updates, Inv, TypeOK

LEMMA UpdateDBLevelInv == ASSUME Inv, NEW p \in Threads, UpdateDBLevel(p) PROVE Inv'
<1>1. ctx[p].pc \in Tables /\ ctx[p].pc \in Initialising
    BY DEF UpdateDBLevel, Initialising, Migrating
<1>2. Moved(p) /\ ctx'[p].pc = Following(ctx[p].pc)
    BY <1>1, GotoMoves DEF Inv, UpdateDBLevel, Following, Initialising, Migrating, Tables
<1>3. levels' \in [Tables -> Nat] /\ levels'[ctx[p].pc] = ServerLevel
    BY <1>1 DEF Inv, TypeOK, UpdateDBLevel, ServerLevel
<1>4. \A t \in Tables \ {ctx[p].pc} : levels'[t] = levels[t]
    BY DEF Inv, TypeOK, UpdateDBLevel
<1>5. \A t \in Tables : levels[t] >= ServerLevel => levels'[t] >= ServerLevel
    BY <1>1, <1>3, <1>4 DEF ServerLevel
<1>6. UNCHANGED <<users, chosen, process, faults>>
    BY DEF UpdateDBLevel
<1>7. Migrated'
    BY <1>1, <1>6 DEF Inv, ContextsOK, ContextOK, Migrated
<1>8. ContextOK(p)'
    <2>1. levels'[ctx[p].pc] >= ServerLevel
        BY <1>3 DEF ServerLevel
    <2>2. CASE ctx[p].pc = "identity"
        BY <2>1, <2>2, <1>1, <1>2, <1>6, <1>7, InsideInitDB
        DEF process, ContextOK, Following, Initialising, Opening, Migrating, Tables
    <2>3. CASE ctx[p].pc = "affiliation"
        <3>1. levels'["identity"] >= ServerLevel
            BY <2>3, <1>5 DEF Inv, ContextsOK, ContextOK, Tables
        <3> QED
            BY <3>1, <2>1, <2>3, <1>1, <1>2, <1>6, <1>7, InsideInitDB
            DEF process, ContextOK, Following, Initialising, Opening, Migrating, Tables
    <2>4. CASE ctx[p].pc = "certificate"
        <3>1. levels'["identity"] >= ServerLevel /\ levels'["affiliation"] >= ServerLevel
            BY <2>4, <1>5 DEF Inv, ContextsOK, ContextOK, Tables
        <3>2. LevelsReached'
            BY <3>1, <2>1, <2>4 DEF LevelsReached, Tables
        <3> QED
            BY <3>2, <2>4, <1>1, <1>2, <1>6, <1>7, InsideInitDB
            DEF process, ContextOK, Following, Initialising, Opening, Migrating, Tables
    <2> QED
        BY <2>2, <2>3, <2>4, <1>1 DEF Tables
<1>9. ClientsOK'
    BY <1>5, <1>6 DEF Inv, ClientsOK, Tables
<1> QED
    BY <1>1, <1>2, <1>3, <1>6, <1>8, <1>9, WriteInside DEF Inv, TypeOK

LEMMA FinishInv == ASSUME Inv, NEW p \in Threads, Finish(p) PROVE Inv'
<1>1. ctx[p].pc \in Initialising /\ up # "down" /\ up \in {"starting", "up"} /\ Alone(p)
    BY InsideInitDB DEF Finish, At, Initialising
<1>2. /\ Moved(p) /\ mutex' = Nobody /\ up' \in {"starting", "up"}
      /\ ctx'[p].pc = "idle" \/ (ctx'[p].pc = "handle" /\ dbInitialized')
    BY <1>1, ReturnMoves DEF Inv, Finish, Served
<1>3. UNCHANGED <<dbtype, version, users, levels, chosen, faults>>
    BY DEF Finish
<1>4. ContextOK(p)'
    BY <1>2 DEF ContextOK, Initialising, Opening, Migrating, Tables
<1>5. TypeOK'
    BY <1>2, <1>3 DEF Inv, TypeOK, Moved, Finish
<1>6. ContextsOK'
    BY <1>1, <1>2, <1>4, Others DEF Inv, ContextsOK
<1>7. ServedWhenMigrated'
    <2>1. dbInitialized' => Migrated /\ LevelsReached
        BY <1>1, InsideInitDB DEF Inv, ContextsOK, ContextOK, Finish, At, Succeeded
    <2> QED
        BY <2>1, <1>3, SameDatabase DEF ServedWhenMigrated, LevelsReached
<1>8. ClientsOK' /\ DownOK'
    BY <1>2, <1>3, SameDatabase DEF Inv, DownOK
<1> QED
    BY <1>5, <1>6, <1>7, <1>8 DEF Inv

-----------------------------------------------------------------------------
(* Requests *)

\* What a request does to the rows of one id, and who chose its attributes then.
RequestWrites(id, rows, choice) ==
    /\ users' = [users EXCEPT ![id] = rows]
    /\ chosen' = [chosen EXCEPT ![id] = choice]

\* The rows are migrated, and a client's choice is what is stored.
RequestKeeps(rows, choice) ==
    /\ \A i \in DOMAIN rows : rows[i].level = ServerLevel
    /\ choice.by = "client" => rows # <<>> /\ (Len(rows) = 1 => rows[1].attr = choice.attr)

LEMMA RequestInv ==
    ASSUME Inv, NEW p \in Threads, At(p, "handle"), Respond(p), UNCHANGED <<process, levels, faults>>,
           NEW id \in Ids, NEW rows \in Seq(Row), NEW choice \in Choice,
           RequestWrites(id, rows, choice), RequestKeeps(rows, choice)
    PROVE  Inv'
<1>1. /\ ContextOK(p) /\ ctx[p].pc = "handle" /\ dbInitialized /\ dbInitialized'
      /\ Migrated /\ LevelsReached /\ up # "down" /\ up' # "down"
    BY NotDown DEF Inv, ContextsOK, ContextOK, At, ServedWhenMigrated, LevelsReached, process
<1>2. Moved(p) /\ ctx'[p].pc = "idle"
    <2>1. Idle \in Context /\ Idle.pc = "idle"
        BY DEF Idle, Context, Record
    <2> QED
        BY <2>1 DEF Respond, Moved, Inv, TypeOK
<1>3. TypeOK'
    BY <1>2 DEF Inv, TypeOK, Moved, RequestWrites, process
<1>4. /\ users'[id] = rows /\ chosen'[id] = choice
      /\ \A j \in Ids \ {id} : users'[j] = users[j] /\ chosen'[j] = chosen[j]
    BY DEF Inv, TypeOK, RequestWrites
<1>5. Migrated'
    <2> SUFFICES ASSUME NEW j \in Ids, NEW i \in DOMAIN users'[j]
                 PROVE  users'[j][i].level = ServerLevel
        BY DEF Migrated
    <2>1. CASE j = id
        BY <2>1, <1>4 DEF RequestKeeps
    <2>2. CASE j # id
        BY <2>2, <1>1, <1>4 DEF Migrated
    <2> QED
        BY <2>1, <2>2
<1>6. ServedWhenMigrated'
    BY <1>1, <1>5 DEF ServedWhenMigrated, LevelsReached
<1>7. ClientsOK'
    <2> SUFFICES ASSUME NEW j \in Ids, chosen'[j].by = "client"
                 PROVE  /\ levels'["identity"] >= ServerLevel
                        /\ users'[j] # <<>>
                        /\ Len(users'[j]) = 1 => /\ users'[j][1].attr = chosen'[j].attr
                                                 /\ users'[j][1].level = ServerLevel
        BY DEF ClientsOK
    <2>1. levels'["identity"] >= ServerLevel
        BY <1>1 DEF LevelsReached, Tables
    <2>2. CASE j = id
        <3>1. rows # <<>> /\ (Len(rows) = 1 => rows[1].attr = choice.attr)
            BY <2>2, <1>4 DEF RequestKeeps
        <3>2. Len(rows) = 1 => rows[1].level = ServerLevel
            BY DEF RequestKeeps
        <3> QED
            BY <2>1, <2>2, <3>1, <3>2, <1>4
    <2>3. CASE j # id
        BY <2>1, <2>3, <1>4 DEF Inv, ClientsOK
    <2> QED
        BY <2>2, <2>3
<1>8. ContextOK(p)'
    BY <1>2 DEF ContextOK, Initialising, Opening, Migrating, Tables
<1>9. ContextsOK'
    BY <1>1, <1>2, <1>8, Others DEF Inv, ContextsOK, Alone
<1> QED
    BY <1>1, <1>3, <1>6, <1>7, <1>9 DEF Inv, DownOK

LEMMA HandleInv == ASSUME Inv, NEW p \in Threads, Handle(p) PROVE Inv'
<1>1. /\ At(p, "handle") /\ Respond(p) /\ UNCHANGED <<process, levels, faults>>
      /\ Migrated
    BY DEF Inv, ContextsOK, ContextOK, Handle, At, ServedWhenMigrated
<1>2. ASSUME NEW id \in Ids, NEW a \in {"none", "own"}, Register(p, id, a)
      PROVE  Inv'
    <2> DEFINE rows == <<[level |-> RegisteredLevel, attr |-> a]>>
    <2>1. rows \in Seq(Row) /\ ByClient(a) \in Choice
        BY DEF Row, Attr, RegisteredLevel, ServerLevel, ByClient, Choice
    <2>2. RequestKeeps(rows, ByClient(a))
        BY DEF RequestKeeps, ByClient, RegisteredLevel
    <2>3. RequestWrites(id, rows, ByClient(a))
        BY <1>2 DEF Register, RequestWrites
    <2> HIDE DEF rows
    <2> QED
        BY <1>1, <2>1, <2>2, <2>3, RequestInv
<1>3. ASSUME NEW id \in Ids, NEW a \in {"none", "own"}, Modify(p, id, a)
      PROVE  Inv'
    <2> DEFINE row == [level |-> users[id][1].level, attr |-> a]
               rows == [i \in DOMAIN users[id] |-> row]
    <2>1. /\ users[id] \in Seq(Row) /\ Len(users[id]) \in Nat /\ users[id] # <<>>
          /\ DOMAIN users[id] = 1 .. Len(users[id]) /\ 1 \in DOMAIN users[id]
        BY <1>3, RowsTyped DEF Inv, Modify, Stored
    <2>2. row \in Row /\ row.level = ServerLevel /\ row.attr = a
        BY <1>1, <2>1 DEF Migrated, Row, Attr, ServerLevel
    <2> HIDE DEF row
    <2>3. rows \in Seq(Row) /\ rows # <<>> /\ \A i \in DOMAIN rows : rows[i] = row
        BY <2>1, <2>2
    <2>4. Len(rows) = 1 => rows[1] = row
        BY <2>3
    <2>5. RequestWrites(id, rows, ByClient(a))
        BY <1>3 DEF Modify, RequestWrites, row
    <2> HIDE DEF rows
    <2>6. ByClient(a) \in Choice /\ RequestKeeps(rows, ByClient(a))
        BY <2>2, <2>3, <2>4 DEF RequestKeeps, ByClient, Choice, Attr
    <2> QED
        BY <1>1, <2>3, <2>5, <2>6, RequestInv
<1>4. ASSUME NEW id \in Ids, Delete(p, id)
      PROVE  Inv'
    <2> DEFINE choice == [by |-> "nobody", attr |-> "none"]
    <2>1. choice \in Choice /\ choice.by # "client" /\ <<>> \in Seq(Row)
        BY DEF Choice, Attr
    <2>2. RequestWrites(id, <<>>, choice)
        BY <1>4 DEF Delete, RequestWrites
    <2> HIDE DEF choice
    <2>3. RequestKeeps(<<>>, choice)
        BY <2>1 DEF RequestKeeps
    <2> QED
        BY <1>1, <2>1, <2>2, <2>3, RequestInv
<1> QED
    BY <1>2, <1>3, <1>4 DEF Handle

-----------------------------------------------------------------------------
(* The theorems *)

LEMMA InitInv == ASSUME Init PROVE Inv
<1>1. Idle \in Context /\ Idle.pc = "idle"
    BY DEF Idle, Context, Record
<1>2. \A p \in Threads : ctx[p].pc = "idle"
    BY <1>1 DEF Init
<1>3. users \in [Ids -> Seq(Row)]
    <2>1. {<<>>, <<Old("none")>>, <<Old("own")>>, <<Old("none"), Old("none")>>} \subseteq Seq(Row)
        <3>1. Old("none") \in Row /\ Old("own") \in Row
            BY DEF Old, Row, Attr
        <3>2. <<>> \in Seq(Row)
            OBVIOUS
        <3> QED
            BY <3>1, <3>2
    <2> QED
        BY <2>1 DEF Init
<1>4. levels \in [Tables -> Nat]
    BY CADatabaseAssumption DEF Init
<1>5. chosen \in [Ids -> Choice] /\ \A id \in Ids : chosen[id].by = "nobody"
    BY DEF Init, Choice, Attr
<1>6. TypeOK
    <2>1. ctx \in [Threads -> Context]
        BY <1>1 DEF Init
    <2>2. mutex \in Threads \cup {Nobody} /\ faults \in 0 .. MaxFaults
        BY CADatabaseAssumption DEF Init
    <2>3. /\ dbtype \in DbTypes /\ version \in {0, ServerLevel}
          /\ up \in {"down", "starting", "up"} /\ dbInitialized \in BOOLEAN
        BY DEF Init
    <2> QED
        BY <2>1, <2>2, <2>3, <1>3, <1>4, <1>5 DEF TypeOK
<1>7. ContextsOK
    BY <1>2 DEF ContextsOK, ContextOK, Initialising, Opening, Migrating, Tables
<1>8. ServedWhenMigrated /\ ClientsOK /\ DownOK
    BY <1>2, <1>5 DEF Init, ServedWhenMigrated, ClientsOK, DownOK
<1> QED
    BY <1>6, <1>7, <1>8 DEF Inv

LEMMA StutterInv == ASSUME Inv, UNCHANGED vars PROVE Inv'
BY SameDatabase DEF vars, process, Inv, TypeOK, ContextsOK, ContextOK, Migrated, LevelsReached,
       Listed, Spares, ServedWhenMigrated, DownOK

LEMMA NextInv == ASSUME Inv, Next PROVE Inv'
<1>1. CASE Start
    BY <1>1, StartInv
<1>2. CASE Crash
    BY <1>2, CrashInv
<1>3. ASSUME NEW p \in Threads, Arrive(p) \/ Check(p) \/ Lock(p) \/ Finish(p) \/ Handle(p)
      PROVE  Inv'
    BY <1>3, ArriveInv, CheckInv, LockInv, FinishInv, HandleInv
<1>4. ASSUME NEW p \in Threads,
             Open(p) \/ CurrentDBLevels(p) \/ UpdateIdentitiesTable(p) \/ CheckDBLevels(p) \/ OpeningFails(p)
      PROVE  Inv'
    BY <1>4, OpenInv, CurrentDBLevelsInv, UpdateIdentitiesTableInv, CheckDBLevelsInv, OpeningFailsInv
<1>5. ASSUME NEW p \in Threads,
             \/ LookUp(p) \/ LoadIdentity(p) \/ KeyViolated(p) \/ LoadUsersTable(p)
             \/ LoadAffiliationsTable(p) \/ LoadingFails(p)
      PROVE  Inv'
    BY <1>5, LookUpInv, LoadIdentityInv, LoadErrorInv, LoadUsersTableInv, LoadAffiliationsTableInv
<1>6. ASSUME NEW p \in Threads,
             \/ ListUsers(p) \/ NextUser(p) \/ ModifyAttributes(p) \/ SetLevel(p)
             \/ UpdateDBLevel(p) \/ MigrationFails(p)
      PROVE  Inv'
    BY <1>6, ListUsersInv, NextUserInv, ModifyAttributesInv, SetLevelInv, UpdateDBLevelInv, MigrationFailsInv
<1>7. CASE \E p \in Threads : Arrive(p) \/ Progress(p) \/ Failing(p)
    BY <1>7, <1>3, <1>4, <1>5, <1>6 DEF Progress, Failing
<1> QED
    BY <1>1, <1>2, <1>7 DEF Next

\* Inv holds in every reachable state: what initDB relies on at each of its steps,
\* whichever goroutine runs it and whatever failed before.
THEOREM Invariance == Spec => []Inv
<1>1. Init => Inv
    BY InitInv
<1>2. Inv /\ [Next]_vars => Inv'
    BY NextInv, StutterInv
<1> QED
    BY <1>1, <1>2, PTL DEF Spec

\* Rows, levels, goroutines and observers keep their types.
THEOREM TypeCorrect == Spec => []TypeOK
<1>1. Inv => TypeOK
    BY DEF Inv
<1> QED
    BY <1>1, Invariance, PTL

\* The double check of dbInitialized around the mutex (ca.go:595-609) admits one
\* goroutine at a time to the body of initDB, and none once it has succeeded.
THEOREM Once == Spec => []InitialisedOnce
<1>1. Inv => InitialisedOnce
    BY DEF Inv, ContextsOK, ContextOK, InitialisedOnce
<1> QED
    BY <1>1, Invariance, PTL

\* dbInitialized is only ever TRUE of a database migrated completely, for any
\* number of failing statements and crashes.
THEOREM ServedComplete == Spec => []ServedWhenMigrated
<1>1. Inv => ServedWhenMigrated
    BY DEF Inv
<1> QED
    BY <1>1, Invariance, PTL

\* performMigration raises the levels of the tables after the last identity.
THEOREM LevelOrder == Spec => LevelAfterUsers
<1>1. Inv /\ [Next]_vars => [levels'["identity"] > levels["identity"] => Migrated]_vars
    <2> SUFFICES ASSUME Inv, Next, levels'["identity"] > levels["identity"]
                 PROVE  Migrated
        BY DEF vars
    <2>1. levels["identity"] \in Nat
        BY DEF Inv, TypeOK, Tables
    <2>2. levels' # levels
        BY <2>1
    <2>3. PICK p \in Threads : UpdateDBLevel(p)
        BY <2>2 DEF Next, Progress, Failing, Start, Crash, Arrive, Check, Lock, Open, CurrentDBLevels,
               UpdateIdentitiesTable, CheckDBLevels, OpeningFails, LookUp, LoadIdentity, KeyViolated,
               LoadUsersTable, LoadAffiliationsTable, LoadingFails, ListUsers, NextUser,
               ModifyAttributes, SetLevel, MigrationFails, Finish, Handle
    <2> QED
        BY <2>3 DEF UpdateDBLevel, Inv, ContextsOK, ContextOK
<1> QED
    BY <1>1, Invariance, PTL DEF LevelAfterUsers, Spec

\* Attributes a client chose are never overwritten by a later start of the
\* server, whatever its configuration and wherever it crashed.
THEOREM AttributesKept == Spec => []ChosenAttributesKept
<1>1. Inv => ChosenAttributesKept
    BY DEF Inv, ClientsOK, ChosenAttributesKept
<1> QED
    BY <1>1, Invariance, PTL

=============================================================================
