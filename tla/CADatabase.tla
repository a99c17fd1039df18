----------------------------- MODULE CADatabase -----------------------------
(***************************************************************************)
(* How a CA opens, loads and migrates its database (src/lib/ca.go,         *)
(* src/lib/dbutil/dbutil.go): at start, then again from every request as   *)
(* long as that has not succeeded, with statements that fail and a process *)
(* that may die between any two of them.                                   *)
(***************************************************************************)
EXTENDS Naturals, Sequences

CONSTANTS
    Ids,            \* enrollment IDs
    Configured,     \* registry.identities of the configuration, a sequence
    Registrars,     \* the ids with attribute hf.Registrar.Roles
    Duplicated,     \* the ids an old database may hold twice
    Requests,       \* goroutines that serve a request
    Boot,           \* the goroutine that starts the server
    Nobody,         \* holder of the free mutex
    DbTypes,        \* databases the CA may be configured with
    InitialLevels,  \* levels of the tables at first; rows only at level 0
    MaxFaults       \* bound on failing statements and crashes

ASSUME CADatabaseAssumption ==
    /\ Configured \in Seq(Ids)
    /\ Boot \notin Requests
    /\ Nobody \notin Requests \cup {Boot}
    /\ InitialLevels \subseteq Nat
    /\ MaxFaults \in Nat

VARIABLES
    dbtype,         \* db.type of the configuration
    version,        \* identity level of the configuration's version, ca.levels
    users,          \* table users: the rows of each id
    levels,         \* table properties: the level of each table
    up,             \* the server: "down", "starting", "up"
    dbInitialized,  \* CA.dbInitialized
    mutex,          \* CA.mutex
    ctx,            \* position and locals of every goroutine
    chosen,         \* observer: who last chose the attributes of an id, and what
    faults          \* faults so far

process == <<dbtype, version, up, dbInitialized, mutex>>
vars == <<process, users, levels, ctx, chosen, faults>>

Threads == Requests \cup {Boot}
Tables == {"identity", "affiliation", "certificate"}
ServerLevel == 1

\* The value of hf.Registrar.Attributes: absent, "*", or narrower.
Attr == {"none", "all", "own"}
Row == [level : {0, 1}, attr : Attr]
Record == [id : Ids, attr : Attr]
Choice == [by : {"nobody", "config", "client"}, attr : Attr]

\* The positions inside initDB after its second check.
Opening == {"open", "read", "copy", "dblevels"}
Migrating == {"list", "attribute", "level"} \cup Tables
Initialising == Opening \cup Migrating \cup {"load", "insert", "affiliations", "user", "finish"}

\* todo: identities to load; seen: records to migrate, cur: the one at hand.
Idle == [pc |-> "idle", todo |-> <<>>, seen |-> {}, cur |-> {}, dbError |-> FALSE]
Context == [pc : {"idle", "check", "lock", "handle"} \cup Initialising, todo : Seq(Ids),
            seen : SUBSET Record, cur : SUBSET Record, dbError : BOOLEAN]

HasKey == dbtype = "mysql"
Stored(id) == users[id] # <<>>
Old(a) == [level |-> 0, attr |-> a]

Init ==
    /\ dbtype \in DbTypes
    /\ version \in {0, ServerLevel}
    /\ \E l \in InitialLevels : levels = [t \in Tables |-> l]
    /\ users \in [Ids -> {<<>>, <<Old("none")>>, <<Old("own")>>, <<Old("none"), Old("none")>>}]
    /\ \A id \in Ids : /\ Stored(id) => levels["identity"] = 0
                       /\ Len(users[id]) > 1 => id \in Duplicated /\ ~HasKey
    /\ up = "down"
    /\ dbInitialized = FALSE
    /\ mutex = Nobody
    /\ ctx = [p \in Threads |-> Idle]
    /\ chosen = [id \in Ids |-> [by |-> "nobody", attr |-> "none"]]
    /\ faults = 0

-----------------------------------------------------------------------------
(* Who calls initDB *)

At(p, pc) == ctx[p].pc = pc
Goto(p, pc) == ctx' = [ctx EXCEPT ![p].pc = pc]
Fault == faults < MaxFaults /\ faults' = faults + 1

\* CA.init, on the way to listenAndServe.
Start ==
    /\ up = "down"
    /\ up' = "starting"
    /\ dbInitialized' = FALSE
    /\ Goto(Boot, "check")
    /\ UNCHANGED <<dbtype, version, users, levels, mutex, chosen, faults>>

Arrive(p) ==
    /\ up = "up"
    /\ p \in Requests
    /\ At(p, "idle")
    /\ Goto(p, "check")
    /\ UNCHANGED <<process, users, levels, chosen, faults>>

\* Where a goroutine goes on after initDB: a request is handled if there was no
\* error, the start of the server goes on in any case.
Served(p) == IF p = Boot THEN "idle" ELSE "handle"
Done(p) == up' = IF p = Boot THEN "up" ELSE up

\* The check without the lock, in GetCA and at the head of initDB.
Check(p) ==
    /\ At(p, "check")
    /\ \/ dbInitialized /\ Goto(p, Served(p)) /\ Done(p)
       \/ ~dbInitialized /\ Goto(p, "lock") /\ UNCHANGED up
    /\ UNCHANGED <<dbtype, version, dbInitialized, mutex, users, levels, chosen, faults>>

\* Variant: nothing is checked under the lock.
StillNeededUnchecked == TRUE

\* The check under the lock.
StillNeeded == ~dbInitialized

Lock(p) ==
    /\ At(p, "lock")
    /\ mutex = Nobody
    /\ \/ StillNeeded /\ Goto(p, "open") /\ mutex' = p /\ UNCHANGED up
       \/ ~StillNeeded /\ Goto(p, Served(p)) /\ Done(p) /\ UNCHANGED mutex
    /\ UNCHANGED <<dbtype, version, dbInitialized, users, levels, chosen, faults>>

\* initDB returns, the deferred Unlock runs.
Return(p, pc) ==
    /\ ctx' = [ctx EXCEPT ![p] = [Idle EXCEPT !.pc = pc]]
    /\ mutex' = Nobody
    /\ Done(p)

\* The process dies or is stopped; the database stays.
Crash ==
    /\ up # "down"
    /\ Fault
    /\ up' = "down"
    /\ dbInitialized' = FALSE
    /\ mutex' = Nobody
    /\ ctx' = [p \in Threads |-> Idle]
    /\ UNCHANGED <<dbtype, version, users, levels, chosen>>

-----------------------------------------------------------------------------
(* Opening the database and updating its schema *)

\* NewUserRegistrySQLLite3, -Postgres, -MySQL create what is missing and leave
\* existing levels alone; only SQLite's UpdateSchema touches rows.
Open(p) ==
    /\ At(p, "open")
    /\ Goto(p, IF dbtype = "sqlite3" THEN "read" ELSE "dblevels")
    /\ UNCHANGED <<process, users, levels, chosen, faults>>

CurrentDBLevels(p) ==
    /\ At(p, "read")
    /\ Goto(p, IF levels["identity"] < ServerLevel THEN "copy" ELSE "dblevels")
    /\ UNCHANGED <<process, users, levels, chosen, faults>>

\* The columns copied to the new table do not include the level.
CopiedRow(row) == [row EXCEPT !.level = 0]

UpdateIdentitiesTable(p) ==
    /\ At(p, "copy")
    /\ users' = [id \in Ids |-> [i \in DOMAIN users[id] |-> CopiedRow(users[id][i])]]
    /\ Goto(p, "dblevels")
    /\ UNCHANGED <<process, levels, chosen, faults>>

\* getIntLevel looks up "identity" where the property is named "identity.level".
LevelFound(t) == 0

CheckDBLevels(p) ==
    /\ At(p, "dblevels")
    /\ \A t \in Tables : LevelFound(t) <= ServerLevel
    /\ ctx' = [ctx EXCEPT ![p].pc = "load", ![p].todo = Configured]
    /\ UNCHANGED <<process, users, levels, chosen, faults>>

OpeningFails(p) ==
    /\ ctx[p].pc \in Opening
    /\ Fault
    /\ Return(p, "idle")
    /\ UNCHANGED <<dbtype, version, dbInitialized, users, levels, chosen>>

-----------------------------------------------------------------------------
(* Loading the configured identities and affiliations *)

Loading(p) == Head(ctx[p].todo)
NextLoaded(p) == [ctx EXCEPT ![p].pc = "load", ![p].todo = Tail(@)]

\* addIdentity takes an error of the lookup for an identity that is not found.
LookUp(p) ==
    /\ At(p, "load")
    /\ ctx[p].todo # <<>>
    /\ \/ Stored(Loading(p)) /\ ctx' = NextLoaded(p) /\ UNCHANGED faults
       \/ ~Stored(Loading(p)) /\ Goto(p, "insert") /\ UNCHANGED faults
       \/ Stored(Loading(p)) /\ Fault /\ Goto(p, "insert")
    /\ UNCHANGED <<process, users, levels, chosen>>

\* addIdentity inserts at the level of the configuration's version.
LoadIdentity(p) ==
    /\ At(p, "insert")
    /\ ~(HasKey /\ Stored(Loading(p)))
    /\ \E a \in {"none", "own"} :
          /\ users' = [users EXCEPT ![Loading(p)] = Append(@, [level |-> version, attr |-> a])]
          /\ chosen' = IF Stored(Loading(p)) \/ version = 0 THEN chosen
                       ELSE [chosen EXCEPT ![Loading(p)] = [by |-> "config", attr |-> a]]
    /\ ctx' = NextLoaded(p)
    /\ UNCHANGED <<process, levels, faults>>

LoadUsersTable(p) ==
    /\ At(p, "load")
    /\ ctx[p].todo = <<>>
    /\ Goto(p, "affiliations")
    /\ UNCHANGED <<process, users, levels, chosen, faults>>

\* loadAffiliationsTable; the table itself is in Affiliations.
LoadAffiliationsTable(p) ==
    /\ At(p, "affiliations")
    /\ Goto(p, "list")
    /\ UNCHANGED <<process, users, levels, chosen, faults>>

\* initDB notes the error and goes on.
LoadError(p) == [ctx EXCEPT ![p].pc = IF @ = "insert" THEN "affiliations" ELSE "list",
                            ![p].todo = <<>>, ![p].dbError = TRUE]

KeyViolated(p) ==
    /\ At(p, "insert")
    /\ HasKey /\ Stored(Loading(p))
    /\ ctx' = LoadError(p)
    /\ UNCHANGED <<process, users, levels, chosen, faults>>

LoadingFails(p) ==
    /\ ctx[p].pc \in {"insert", "affiliations"}
    /\ Fault
    /\ ctx' = LoadError(p)
    /\ UNCHANGED <<process, users, levels, chosen>>

-----------------------------------------------------------------------------
(* performMigration *)

\* GetUserLessThanLevel.
Outdated == UNION {{[id |-> id, attr |-> users[id][i].attr] :
                        i \in {j \in DOMAIN users[id] : users[id][j].level < ServerLevel}} : id \in Ids}

ListUsers(p) ==
    /\ At(p, "list")
    /\ ctx' = [ctx EXCEPT ![p].pc = "user", ![p].seen = Outdated]
    /\ UNCHANGED <<process, users, levels, chosen, faults>>

\* migrateUserToLevel1: a registrar without the attribute gets it.
NeedsAttribute(r) == r.id \in Registrars /\ r.attr = "none"

NextUser(p) ==
    /\ At(p, "user")
    /\ \/ \E r \in ctx[p].seen :
             ctx' = [ctx EXCEPT ![p].pc = IF NeedsAttribute(r) THEN "attribute" ELSE "level",
                                ![p].cur = {r}]
       \/ ctx[p].seen = {} /\ Goto(p, "identity")
    /\ UNCHANGED <<process, users, levels, chosen, faults>>

\* ModifyAttributes and SetLevel: an UPDATE by id, then an error unless it changed
\* one row. What it wrote stays.
ChangedOne(r) == Len(users[r.id]) = 1
WithAttribute(r) == [users EXCEPT ![r.id] = [i \in DOMAIN @ |-> [@[i] EXCEPT !.attr = "all"]]]
MigratedLevel == 1
WithLevelWritten(r) == [users EXCEPT ![r.id] = [i \in DOMAIN @ |-> [@[i] EXCEPT !.level = MigratedLevel]]]
\* Variant: a level that two rows would get is not written.
WithLevelIfOne(r) == IF ChangedOne(r) THEN WithLevelWritten(r) ELSE users
WithLevel(r) == WithLevelWritten(r)

MigrationError(p) == [ctx EXCEPT ![p].pc = "finish", ![p].dbError = TRUE]

ModifyAttributes(p) ==
    /\ At(p, "attribute")
    /\ \E r \in ctx[p].cur :
          /\ users' = WithAttribute(r)
          /\ \/ ChangedOne(r) /\ Goto(p, "level")
             \/ ~ChangedOne(r) /\ ctx' = MigrationError(p)
    /\ UNCHANGED <<process, levels, chosen, faults>>

SetLevel(p) ==
    /\ At(p, "level")
    /\ \E r \in ctx[p].cur :
          /\ users' = WithLevel(r)
          /\ \/ ChangedOne(r) /\ ctx' = [ctx EXCEPT ![p].pc = "user", ![p].seen = @ \ {r}, ![p].cur = {}]
             \/ ~ChangedOne(r) /\ ctx' = MigrationError(p)
    /\ UNCHANGED <<process, levels, chosen, faults>>

\* UpdateDBLevel: three statements.
Following(t) == IF t = "identity" THEN "affiliation"
                ELSE IF t = "affiliation" THEN "certificate" ELSE "finish"
UpdateDBLevel(p) ==
    /\ ctx[p].pc \in Tables
    /\ levels' = [levels EXCEPT ![ctx[p].pc] = ServerLevel]
    /\ Goto(p, Following(ctx[p].pc))
    /\ UNCHANGED <<process, users, chosen, faults>>

MigrationFails(p) ==
    /\ ctx[p].pc \in Migrating
    /\ Fault
    /\ ctx' = MigrationError(p)
    /\ UNCHANGED <<process, users, levels, chosen>>

\* Variant: errors of loading and migrating are forgotten.
SucceededAnyway(p) == TRUE

Succeeded(p) == ~ctx[p].dbError

Finish(p) ==
    /\ At(p, "finish")
    /\ \/ Succeeded(p) /\ dbInitialized' = TRUE /\ Return(p, Served(p))
       \/ ~Succeeded(p) /\ UNCHANGED dbInitialized /\ Return(p, "idle")
    /\ UNCHANGED <<dbtype, version, users, levels, chosen, faults>>

-----------------------------------------------------------------------------
(* Requests on the initialised database; IdentityRegistry models their races *)

Respond(p) == ctx' = [ctx EXCEPT ![p] = Idle]
ByClient(a) == [by |-> "client", attr |-> a]

\* Variant: the level of the configuration.
RegisteredLevelConfigured == version

\* registerUserID inserts at the level of the server, not of the configuration.
RegisteredLevel == ServerLevel
Register(p, id, a) ==
    /\ ~Stored(id)
    /\ users' = [users EXCEPT ![id] = <<[level |-> RegisteredLevel, attr |-> a]>>]
    /\ chosen' = [chosen EXCEPT ![id] = ByClient(a)]

\* UpdateUser writes the level of the record it read back to every row.
Modify(p, id, a) ==
    /\ Stored(id)
    /\ users' = [users EXCEPT ![id] = [i \in DOMAIN @ |-> [level |-> @[1].level, attr |-> a]]]
    /\ chosen' = [chosen EXCEPT ![id] = ByClient(a)]

Delete(p, id) ==
    /\ Stored(id)
    /\ users' = [users EXCEPT ![id] = <<>>]
    /\ chosen' = [chosen EXCEPT ![id] = [by |-> "nobody", attr |-> "none"]]

Handle(p) ==
    /\ At(p, "handle")
    /\ \E id \in Ids : \/ \E a \in {"none", "own"} : Register(p, id, a) \/ Modify(p, id, a)
                       \/ Delete(p, id)
    /\ Respond(p)
    /\ UNCHANGED <<process, levels, faults>>

-----------------------------------------------------------------------------
Progress(p) ==
    \/ Check(p) \/ Lock(p)
    \/ Open(p) \/ CurrentDBLevels(p) \/ UpdateIdentitiesTable(p) \/ CheckDBLevels(p)
    \/ LookUp(p) \/ LoadIdentity(p) \/ KeyViolated(p) \/ LoadUsersTable(p) \/ LoadAffiliationsTable(p)
    \/ ListUsers(p) \/ NextUser(p) \/ ModifyAttributes(p) \/ SetLevel(p) \/ UpdateDBLevel(p)
    \/ Finish(p) \/ Handle(p)

Failing(p) == OpeningFails(p) \/ LoadingFails(p) \/ MigrationFails(p)

Next ==
    \/ Start \/ Crash
    \/ \E p \in Threads : Arrive(p) \/ Progress(p) \/ Failing(p)

Spec == Init /\ [][Next]_vars

\* The Go scheduler runs every goroutine that can go on.
FairSpec == Spec /\ \A p \in Threads : WF_vars(Progress(p))

-----------------------------------------------------------------------------
(* Properties *)

TypeOK ==
    /\ dbtype \in DbTypes
    /\ version \in {0, ServerLevel}
    /\ users \in [Ids -> Seq(Row)]
    /\ levels \in [Tables -> Nat]
    /\ up \in {"down", "starting", "up"}
    /\ dbInitialized \in BOOLEAN
    /\ mutex \in Threads \cup {Nobody}
    /\ ctx \in [Threads -> Context]
    /\ chosen \in [Ids -> Choice]
    /\ faults \in 0 .. MaxFaults

\* Requests that meet in GetCA initialise the database one at a time, and never
\* again once it is: initDB replaces ca.db and the accessors while they are used.
InitialisedOnce ==
    \A p \in Threads : ctx[p].pc \in Initialising => mutex = p /\ ~dbInitialized

Migrated == \A id \in Ids : \A i \in DOMAIN users[id] : users[id][i].level = ServerLevel

\* A request is handled on a database that is migrated completely, whatever
\* failed on the way: initDB reports success only if no step failed.
ServedWhenMigrated ==
    dbInitialized => Migrated /\ \A t \in Tables : levels[t] >= ServerLevel

\* The level of the identities is raised after the last of them was migrated
\* (performMigration), so that a crash in between leaves the rest to the next start.
LevelAfterUsers ==
    [][levels'["identity"] > levels["identity"] => Migrated]_vars

\* The attributes a client gave an identity stored once survive every later start
\* of the server: neither the new table nor the migration touches them.
ChosenAttributesKept ==
    \A id \in Ids : chosen[id].by = "client" /\ Len(users[id]) = 1 => users[id][1].attr = chosen[id].attr

\* ca.go:1267: a database newer than the server is refused, so its levels stay.
LevelsNeverLowered == [][\A t \in Tables : levels'[t] >= levels[t]]_vars

\* As long as requests come, some attempt to initialise succeeds. SQLite is
\* excluded: there a copy of the table undoes what the failed attempt achieved.
Pending == up = "up" /\ \E p \in Requests : ctx[p].pc # "idle"
EventuallyReady == dbtype # "sqlite3" /\ []<>Pending => <>dbInitialized

=============================================================================
