# A verification development for the CA server

The repository is a certificate authority in Go, a fork of Hyperledger Fabric CA
that signs with the Chinese SM2 algorithm ("GM"). A server (`src/lib/server.go`)
hosts one or more CAs (`src/lib/ca.go`); clients register identities, enroll them
with a password, reenroll them with their certificate, revoke them, and manage
identities and affiliations over HTTP. Every request runs in a goroutine of its
own and shares nothing with the others but the database, which may also be shared
with other servers. This directory holds TLA+ models of that behaviour, the TLC
runs that check them and the theorems TLAPS proves about them.

## Inventory

| Component | State | Operations | What is hard | What makes it correct |
|---|---|---|---|---|
| User registry, `dbaccessor.go` | table `users`: state (enrollment counter, -1 = revoked), max_enrollments, attributes, affiliation | InsertUser, GetUser, UpdateUser, DeleteUser, Login, LoginComplete, Revoke, ModifyAttributes | each operation is one statement or transaction; handlers read, decide and write in separate ones | counters bound enrollments, revocation is final, IDs are unique |
| Certificate store, `certdbaccessor.go` | table `certificates`: owner, status, reason, times | InsertCertificate, GetCertificate, RevokeCertificatesByID, RevokeCertificate | certificates stored while their owner is revoked | a revoked or deleted identity ends without a good certificate |
| Request context, `serverrequestcontext.go` | caller, its certificate, cached roles | BasicAuthentication, TokenAuthentication, GetCaller, CanManageUser, CanModifyUser | the caller is read once and used until the request ends | what a caller may do follows from its row |
| Enroll, reenroll, `serverenroll.go`, `gmca.go` | none of their own | login, sign, store, count | four steps, any of which may fail | an answered enrollment is counted |
| Register, `serverregister.go` | none | authorize, look up, insert | check then act | one row per ID, no more rights than the registrar's |
| Revoke, `serverrevoke.go` | none | by name, by serial number | two statements without a transaction | the identity is out |
| Identities, `serveridentities.go` | none | GET (streamed), POST, PUT, DELETE | PUT writes back what it read | no update is lost |
| Affiliations, `serveraffiliations.go`, `dbaccessor.go` | table `affiliations`: name, prekey | add, rename, delete, list | checks outside of the transactions, panics inside | a tree; identities belong to existing affiliations |
| Endpoint, `serverendpoint.go`, `servererror.go` | success status of the endpoint | ServeHTTP, response writer | chunks of a response are written before an error is known | status and body agree |
| CA, `ca.go`, `caconfig.go` | key files, database handle, initialised flag, levels | init, initDB, loadUsersTable, performMigration | retries from requests, crashes between statements | initialised once, migrated completely |
| Schema, `dbutil/dbutil.go` | tables, connection pool | create, migrate levels | one connection for SQLite | idempotent creation |
| Server, `server.go` | listener, serve error, wait channel, CA map | Init, Start, Stop, listenAndServe, serve | Stop races with serve | Stop ends serve and returns |
| CRL, `servergencrl.go` | none | genCRL | four bounds on times | every revoked, unexpired certificate in the window |
| Attribute control, `attr/attribute.go` | none | CanRegisterRequestedAttributes | rules per attribute type | nobody grants what they do not own |
| Versions, `metadata/version.go` | none | CmpVersion, GetLevels | versions of different length | a total order |
| LDAP, `ldap/client.go` | cached connection | Login, GetUser, search with reconnect | shared by requests | a broken connection is replaced |
| TCert, `tcert/` | key tree | batch, key derivation | cached nodes, no lock | same key for same path |
| JSON streamer, `streamer/` | decoder position | StreamJSONArray | errors in the middle | each element once, in order |
| Key material, `ca.go`, `util/csp.go` | keystore, key file, certificate and chain files | initKeyMaterial, getCACert, renewal | files written one after the other by a process that may end | an interrupted first start is made good by the next |
| Client, `client.go`, `identity.go`, `clientconfig.go`; commands, `cmd/zigledger-ca-client` | key and certificate files of a home directory | Enroll, Reenroll, GetCACert, requests and streamed answers | files overwritten; success promised before the outcome is known | stored credentials belong together; a reported success was one |
| Configuration, TLS, utilities, API types, vendored code | | | | not modelled: no behaviour over time, or third-party |

Components interact by calls within a request, and across requests only through
the database (and, inside a process, through the fields of `CA`, `Server` and
`serverEndpoint` that requests share).

## Modules

### EnrollmentLedger and IdentityRegistry

The rows of `users` and `certificates`, and the requests that read and write them.

| TLA+ | Code |
|---|---|
| `users[id]` | the rows of table `users` with that id, oldest first; more than one only without a primary key |
| `certs[s]` | the row of table `certificates` with serial number `s` |
| `ctx[p]` | `serverRequestContext`: `id` enrollmentID, `cert` enrollmentCert, `caller` the cached caller's attributes, plus the handler's locals and, in `pc`, the next statement |
| `acked`, `base` | observers, see below; no guard reads them |
| `EnrollLogin`, `GetCaller`, `SignCert`, `LoginComplete` | `enrollHandler`; `reenrollHandler` takes `TokenAuthentication` and has no `LoginComplete` |
| `AuthorizeRegister`, `RegisterCheck`, `InsertUser` | `registerHandler`, and POST of the identities endpoint |
| `StartServer`, `InsertUser` | `addIdentity` of the bootstrap identity by a server that starts on this database |
| `AuthorizeRevokeName`, `RevokeUser`, `ListCertificates`, `RevokeCertificatesByID` | `revokeHandler` by name |
| `AuthorizeRevokeSerial`, `RevokeCertificate` | `revokeHandler` by serial number and AKI |
| `AuthorizeModify`, `UpdateUser`; `AuthorizeDelete`, `DeleteUser` | PUT and DELETE of the identities endpoint |
| `Fail` | any error return, a failing statement, the death of the process |

One action is one SQL statement together with the computation up to the next one.
Authorization that needs several reads is one action at its last read; what it
reads there is what decides. `deleteUserTx` is one action, as its transaction is
serialized by SQLite's single connection; Postgres and MySQL run it at their
default isolation, whose anomalies are not modelled.

Abstractions: a caller's affiliation and type enter only through `Scope`, the set
of pairs (caller, identity) with matching affiliation and type; `"registrar"`
stands for `hf.Registrar.Roles` with `hf.Registrar.Attributes=*`. Passwords,
keys, certificates' contents and response bodies are left out. Certificate
expiry is left out, so a good certificate authenticates.

`EnrollmentLedger` is the promise behind the handlers: who is a member, whom each
certificate was issued to, which certificates are good, and how many enrollments of each
member were answered. Its steps are what other parts of the CA may rely on: a certificate
is issued once, to one identity, and never becomes good again; an enrollment is answered
only to a member that has a certificate no earlier answer stands for; a deletion takes
the membership and all certificates in one step. `Ledger == INSTANCE EnrollmentLedger`
maps the tables to it: an identity is a member if it has a row, `owner` and `good` are the
columns of `certificates`, `answered` is the observer `acked`. What the handlers do in
between (a login not yet counted, a revoked row, a list read before its UPDATE) is
invisible.

The observer `acked[id]` counts the enrollments answered with success since the
identity was registered; `base[id]` is what the state column would hold without
them, and becomes negative when a stale record rolled the counter back.

Runs (module `MCIdentityRegistry`, one administrator and one user; the two have
different roles, so symmetry is taken over requests and serial numbers only):

| Run | Bounds | Shows |
|---|---|---|
| `handlers` | 2 requests, 2 serial numbers, every operation of a client, CA limit 1, requested allowance 0 (the CA's), no key on `users.id`, faults | `CounterWithinCALimit`, `AckedEnrollmentsAreCounted`, `ExcludedStaysOut` and the refinement `LedgerSpec` under every interleaving of two handlers, of which each may stop halfway |
| `allowances` | 2 requests, 3 serial numbers, every operation with starting servers, a key on `users.id`, attribute `hf.Revoker` granted and taken, requested allowances 0, 2, unlimited (-1) and a modification's -2, with 1 as the CA's limit; only enrollment, registration, deletion and revocation by serial number overlap | `EnrollmentAllowance`: concurrent logins get no more certificates than the CA allows, also where a modification stores an allowance above the limit, which `Login` has to cap |
| `reenabled` | as small as the case allows | finds the violation of a documented promise (see Findings) |

Two requests are enough for every pairwise race. Two serial numbers let a
caller hold a certificate while another is issued; three add one to revoke.
`Together` names the operations that may overlap: a modification next to an
enrollment writes back the counter it read, which breaks the allowance (see
Findings). `MaxRows` (2) bounds the rows of one id, and cuts only registrations
whose lookup failed. No fairness is assumed: every property is a safety property,
since the handlers promise nothing about the future. Deadlock is not checked: a CA
whose last administrator is revoked has nobody left who can authenticate.

### AffiliationTree and Affiliations

`AffiliationTree` is the promise: two variables, the affiliations that exist and
the affiliation of every identity, and six steps on them. A deletion takes a
subtree with its identities; a renaming moves a subtree with its identities onto
names that are free. `Affiliations` is how the server does it:

| TLA+ | Code |
|---|---|
| `affs` | column `name` of table `affiliations` (nothing reads `prekey`) |
| `home`, `attr` | column `affiliation` of table `users` and the attribute `hf.Affiliation` in its column `attributes` |
| `good` | identities with a certificate that is not revoked |
| `ctx[p]` | `serverRequestContext` and the locals of the handler; `pc` is its next statement, `aff` the affiliation of the caller, cached with the caller |
| `conn` | the one connection `SetMaxOpenConns(1)` allows on SQLite; `FALSE` once a panicking transaction kept it |
| `StartAdd`, `AddExists`, `AddParent`, `InsertAffiliation` | POST of the affiliations endpoint, one INSERT for each name on the path |
| `StartDelete`, `Lookup`, `DeleteAffiliationTx` | DELETE: a lookup, then one transaction |
| `StartRename`, `Lookup`, `RenameFree`, `ModifyAffiliationTx` | PUT: two lookups, then one transaction that commits (`RenameCommit`), fails, or panics (`RenamePanic`) |
| `StartRegister`, `ValidateAffiliation`, `InsertUser`; `StartModify`, `ValidateAffiliation`, `UpdateUser` | registration and modification of identities, as far as they choose an affiliation |
| `Restart` | a crash at any statement, then `loadUsersTable` and `loadAffiliationsTable` |

Abstractions: a name is a sequence of segments, and segments are opaque, so one
never occurs inside another; `Like` says which segments an SQL pattern matches, so
the case-insensitive LIKE of SQLite is a value of a constant. The database is
SQLite, where a transaction has the only connection and is one action. Duplicate
rows of an identity, enrollment and revocation belong to `IdentityRegistry`; here
`good` only shrinks. Clients name no empty affiliation in POST, DELETE and PUT.
`Names` bounds the names; a renaming that leads out of it is not taken.

The order in which a renaming updates its affiliations is that of a SELECT, so a
name that another UPDATE of the same transaction takes away may still be in the
way: `MayClash` leaves the outcome open.

`Tree == INSTANCE AffiliationTree` maps the two tables to the abstract variables
of the same names; `TreeSpec` is the abstract specification, checked as a
property and proved (below). Failed requests, lookups and panics stutter.

Runs (module `MCAffiliations`, a manager and a user):

| Run | Bounds | Shows |
|---|---|---|
| `aff_concurrent` | 2 requests, names `a`, `b`, `a.b`, `b.b`, a manager of `a` and one of everything, every operation with renamings to the same and to other parents, restart | every write is in its caller's authority (`AuthorityRespected`); `AttributeInSync` and `CertificatesHaveOwners` while identities move; the handlers implement `TreeSpec` |
| `aff_sequential` | 1 request at a time, six names on two levels, every operation, restarts anywhere, renamings below the same parent | `ParentsExist`, `NoDanglingIdentity` and `ConnectionReturned` hold when requests do not overlap, and every request ends |
| `aff_lostconnection` | one request at a time, renamings to other parents | finds the violation of a documented promise (see Findings) |

Two levels are enough for parent, child and sibling to differ, and for a renaming
to carry a child along; two requests for every pairwise race. Liveness
(`EveryRequestEnds`) assumes weak fairness of each handler in progress: the Go
scheduler runs every goroutine, and `database/sql` hands the connection out in the
order of the requests for it. No fairness is assumed of clients or of `Restart`.

### IdentityRegistryProofs

The theorems hold for every set of identities, requests and serial numbers, every
CA limit and `Scope`, with and without faults, and with and without a primary key,
from `RegistryAssumption` alone.

| Theorem | States |
|---|---|
| `TypeCorrect` | `Spec => []TypeOK` |
| `CounterLimit` | `Spec => []CounterWithinCALimit` |
| `Counting` | `Spec => []AckedEnrollmentsAreCounted` |
| `StayingOut` | `Spec => ExcludedStaysOut` |
| `KeepsTheLedger` | `Spec => LedgerSpec`, the refinement of `EnrollmentLedger` |
| `Allowance` | `Disciplined => (Spec => []EnrollmentAllowance)` |

The inductive invariant `Inv` joins three parts. `TypeOK` alone is not inductive:
a handler between two statements must have a target, so `ContextsOK` says what a
context holds at each position, and `ListedOK` that the certificate a handler is
about to revoke exists. `CounterWithinCALimit` is not inductive either: an
accepted login carries its capped allowance to `LoginComplete`, and a
modification carries a counter read earlier to `UpdateUser`; `ContextOK` keeps
both within the limit. The carried counter is within the limit only because the
counters are when it is read, so typing and counting are proved together.
`AckedEnrollmentsAreCounted` rests on the check that one row was changed: when
one of several rows of an id was counted, the others were at their allowance.
`StayingOut` shows that `Excluded(id)` is closed under every step: the disabled
row rejects the login, no good certificate authenticates, and no request in
flight carries an older record of the identity.

`KeepsTheLedger` needs an invariant of its own, `LedgerInv`: an enrollment is answered long
after its certificate was stored, and others are answered in between, so the answered
enrollments and those between `signCert` and `LoginComplete` (`Pending`) are together no
more than the certificates of the identity (`Covered`). The sets of requests and serial
numbers may be infinite; that these two are finite is part of the invariant.

`Allowance` has a hypothesis, `Disciplined`: nobody modifies or revokes identities by
name while other requests are in flight, and ids are unique or no statement fails. The
run `allowances` is an instance of it. Without it the property is false, as the run
`reenabled` shows for the revocation: a login counted afterwards makes -1 a usable 0; a
modification that writes an old record back gives away what was counted in between.
`AllowanceInv` adds what the requests in flight rely on: the rows of an id are revoked
together or not at all, a counter has every acked enrollment or is that of a revoked row
(`Has`), an accepted login is on rows nobody revoked, and a record to be written back
has the counter that is still in the table.

### AffiliationsProofs

For every set of names that is closed under ancestors, and every `Like`,
configuration, set of managers and requests:

| Theorem | States |
|---|---|
| `TypeCorrect`, `AttributesInSync`, `CertificateOwners` | `Spec => []TypeOK`, `[]AttributeInSync`, `[]CertificatesHaveOwners` |
| `Implementation` | `ExactLike => (Spec => TreeSpec)` |
| `Authority` | `ExactLike => (Spec => AuthorityRespected)` |
| `Ancestors`, `HomesExist`, `ConnectionFree` | `Sequential => (Spec => []ParentsExist)`, `[]NoDanglingIdentity`, `[]ConnectionReturned` |

The inductive invariant joins typing, the two table invariants and `ContextsOK`:
what a handler carries at each position. `AttributeInSync` needs the latter, as
`UpdateUser` writes a record read earlier: column and attribute of that record
agreed when it was read, and stay a pair. `Authority` needs it because the check is
made statements before the transaction: the name that is written is still the one
with the caller's prefix. `ProceedWrites` reduces every step of a handler to one of
five ways of writing the tables (`Writing`), from which `TreeStep` and `AuthorityStep`
follow. `RenamedPrefix` shows that `strings.Replace(m, o, n, 1)` on a name below `o`
replaces the front, and `SelectsPrefix` that two statements with an exact LIKE select
a subtree. `ExactLike` is an assumption the default database does not meet: where LIKE ignores case, deleting
`a` deletes `A.b` as well. `Implementation` and the freedom of target names
use that a transaction whose UPDATE meets an existing name does not commit.

The last three have the hypothesis `Sequential`, of which the run `aff_sequential` is
an instance: requests do not overlap, renamings keep the parent, LIKE is exact. Each
part is needed: a deletion between the check of `AddParent` and the insertion, or of
`ValidateAffiliation` and the record, leaves a hole or a dangling identity; a renaming
to another parent makes affiliations whose ancestors do not exist, and what is below
a name nobody has is what panics a later renaming onto it (`aff_lostconnection`).
`SequentialInv` adds to the three what the one handler knows (`Knows`): it inserts
after the ancestors, renames to a name that is still free, stores an affiliation that
still exists. `ParentsExist` is not inductive with a renaming, since it looks one
level up while `Clashes` is about any depth; `Closed` says it of all ancestors. From
it `RenameMeetsNothing` has that a subtree moved onto a free sibling meets no name,
`RenamedInjective` that no two of its names become one, and `RenamedCut` that the
ancestors of what is renamed are renamed or stay. A restart may stop an addition with
force at any insertion. Liveness is left to TLC.

### CADatabase

How one CA of one server gets from the start of the process to a database it can
serve from. `CA.init` calls `initDB` once and goes on whatever it returns; from
then on `GetCA` calls it in every request until it has succeeded.

| TLA+ | Code |
|---|---|
| `dbtype`, `version` | `db.type` of the configuration; `ca.levels.Identity`, the level of the configuration's version |
| `users[id]` | the rows of `users` with that id, reduced to `level` and to `hf.Registrar.Attributes` (absent, `*`, narrower) |
| `levels` | the three properties `identity.level`, `affiliation.level`, `certificate.level` |
| `up`, `dbInitialized`, `mutex` | the process, and the fields of `CA` |
| `ctx[p]` | one goroutine, a request's or the one that starts the server: `pc`, the identities still to load (`todo`), the records of `GetUserLessThanLevel` (`seen`, `cur`), `dbError` |
| `chosen` | observer: who last chose the attributes of an id, and what; no guard reads it |
| `Check`, `Lock` | the check of `dbInitialized` without the mutex and the one under it |
| `Open`, `CurrentDBLevels`, `UpdateIdentitiesTable`, `CheckDBLevels` | `NewUserRegistry...`, `UpdateSchema`, `checkDBLevels` |
| `LookUp`, `LoadIdentity`, `KeyViolated`, `LoadUsersTable`, `LoadAffiliationsTable` | `loadUsersTable` with `addIdentity`, `loadAffiliationsTable` |
| `ListUsers`, `NextUser`, `ModifyAttributes`, `SetLevel`, `UpdateDBLevel` | `performMigration` with `migrateUserToLevel1` |
| `OpeningFails`, `LoadingFails`, `MigrationFails`, `Crash` | a statement that fails at that point, the death of the process |
| `Finish` | the end of `initDB` with its deferred `Unlock` |
| `Handle` | a request behind `GetCA`, as far as it writes attributes or levels |

One action is one SQL statement; the copy of the users table is one transaction
and one action. The server's level is 1 for each of the three tables
(`versionToLevelsMapping`). `getIntLevel` is modelled by what it returns on the map
`checkDBLevels` hands to it, which is 0. A database of a newer server is modelled without identities. Requests run to their end in one action:
their races are those of `IdentityRegistry`. The order of the identities to
migrate is left open. A database of an earlier server may hold an id twice
(`Duplicated`), except on MySQL. Affiliations and certificates only lend their
level properties. Left out are LDAP, fatal configuration errors (the process
ends), and other servers on the same database.

Runs (module `MCCADatabase`, an administrator the configuration names and a user):

| Run | Bounds | Shows |
|---|---|---|
| `db_startup` | 2 requests beside the starting server, the three database types, both configuration versions, all old databases of two ids, 2 faults anywhere | `InitialisedOnce`, `ServedWhenMigrated`, `ChosenAttributesKept`; `EventuallyReady` |
| `db_newer` | 1 request, SQLite, no faults | finds the violation of a documented promise (see Findings) |

Two requests let one wait for the mutex while the other initialises and a third
party is served; two faults let a retry fail as well. `MaxFaults` bounds failing
statements and crashes together. `EventuallyReady` assumes weak fairness of every
goroutine, which the Go scheduler gives, and that requests keep coming; that faults
end is the bound. It leaves SQLite out: there a retry copies the table first, which
returns an id stored twice to level 0, and `SetLevel` fails on it every time.

### CADatabaseProofs

For every set of identities, configuration, set of registrars, number of requests
and faults, and every `DbTypes`, from `CADatabaseAssumption`:

| Theorem | States |
|---|---|
| `TypeCorrect` | `Spec => []TypeOK` |
| `Once` | `Spec => []InitialisedOnce` |
| `ServedComplete` | `Spec => []ServedWhenMigrated` |
| `LevelOrder` | `Spec => LevelAfterUsers` |
| `AttributesKept` | `Spec => []ChosenAttributesKept` |

The inductive invariant adds to typing what a goroutine relies on at each position
(`ContextOK`): inside `initDB` it holds the mutex and `dbInitialized` is FALSE, so
that no request is between `GetCA` and its answer; while it migrates, every row
below the server's level belongs to an identity still on its list (`Listed`); after
the list is done all are migrated. `ServedWhenMigrated` then follows from `dbError`.
`ChosenAttributesKept` needs that the list spares an identity with attributes chosen
by a client (`Spares`): such a row has the server's level, because registrations
write it and modifications copy it, and the table is not copied again, because
requests are only served once `levels` are reached (`ClientsOK`). `Others` says that a
goroutine inside `initDB` disturbs nobody, which is the mutual exclusion.
`EventuallyReady` is left to TLC.

### ServerLifecycle

A `Server` and the one caller that starts and stops it, again and again, as the
command and the tests do. Start number `n` opens socket `n` and database handle `n`,
makes channel `n` and runs `serve` in goroutine `n`; a field that is nil is 0.

| TLA+ | Code |
|---|---|
| `listener`, `wait` | the fields of `Server` |
| `db` | `ca.db` of the default CA |
| `sockets`, `handles`, `profilePort` | what is open in the process, whether or not a field still points to it |
| `serving[g]`, `local[g]` | goroutine `g` in `serve`, with its copy of the listener, later the channel it sends to |
| `closed` | the channels `Stop` has closed |
| `Start`, `InitServer`, `Listen`, `CheckAndEnableProfiling`, `Go`, `StartFails` | `Start` and `listenAndServe`, step by step |
| `Enter`, `ServeReturns`, `AcceptFails`, `ServeCloseListener`, `ServeCloseDB` | `serve`: reading the listener, `http.Serve`, closing, and the choice whether to send |
| `RequestInitDB` | `GetCA`, when the server started without a database |
| `Stop`, `StopError`, `Receive`, `Miss`, `Wake`, `TimedOut` | `Stop`: `closeListener`, the loop around `select`, and what follows it |
| `known`, `broken` | observers: what the last call told the caller, sockets that failed by themselves; no step of the server reads them |

What the code relies on and the model therefore assumes:

- Time: a second of `Stop`'s sleep is enough for goroutines that can go on to come to
  the point where they wait (`Settled`). `Polls` stands for the 10 rounds of the loop.
- The caller calls `Start` at once only after a `Stop` that waited for `serve`. After a
  `Stop` with an error, and after the `Stop` of a blocking server, which waits for
  nobody, it leaves some time; a blocking server is stopped once it serves. Without
  that, `serve` of the old start closes the listener of the new one, or leaves a
  database open: hazards that nothing in the repository promises to exclude.
- No request is in flight when the server stops (the comment on `Stop` says that it
  is for tests only), and an attempt to open the database that fails leaves no handle.

The configuration, TLS and additional CAs are one step that succeeds or fails; the
database may be missing either way, as `CA.init` goes on without it. The second
`closeDB` of a blocking `Start` finds nothing to close and is left out.

Run `srv_restarts` checks the module itself with three starts, so that a goroutine may
survive two restarts, and three polls, one more than the invariant shows to be needed.
`NoPanic`, `RunningServes` and `StopReleases` are the promises to the caller;
`StopReturns` and `StopEnds` assume weak fairness of the caller's call and of every
goroutine, which the Go scheduler gives, and none of `Accept` failing or of new calls.

### ServerLifecycleProofs

For every number of starts and every number of polls from two on:

| Theorem | States |
|---|---|
| `TypeCorrect` | `Spec => []TypeOK` |
| `Quiet` | `Spec => []NoPanic` |
| `Serving` | `Spec => []RunningServes` |
| `Releasing` | `Spec => []StopReleases` |

The inductive invariant says that only the last start has anything open (`Resources`);
that goroutines of earlier starts have ended, or wait on a channel of their own because
their socket failed and no `Stop` was there to receive (`Older`); where the goroutine
of the last start is, given what the fields hold (`CurrentOK`) and what the caller was
told (`KnownOK`); and how far `serve` has come at each round of `Stop` (`StoppingOK`):
after the first second it is at its send or has ended, so one more round receives
the message or shows that there is none.

### JSONStream and Exchange

A call of the client library from its request to its result, over the endpoint that
answers it. `JSONStream` is the streamer of the client as a machine over tokens: it
walks over a JSON response while it arrives and hands on each element of one array.

| TLA+ | Code |
|---|---|
| `table`, `conn` | the ids in table `users`, the one connection of the pool: free, a request's, or lost with a cursor nobody closes |
| `successRC` | the field of `serverEndpoint` that its requests share |
| `chunk` | the variable `ZIGLEDGER_CA_SERVER_MAX_IDS_PER_CHUNK` of the environment: a number, zero or no number |
| `srv[c]` | the request in its goroutine, `status` the first `WriteHeader`, `wrote` whether the body was opened |
| `wire[c]` | the tokens in flight to the client |
| `cli[c]` | the call: `walk` the position of the streamer, `result` what it returned |
| `Refuse`, `Admit`, `ReadIdentity`, `InsertIdentity`, `DeleteIdentity` | authentication, and the handlers that answer in one piece |
| `OpenCursor`, `ReadChunk`, `WriteRow`, `ScanFails`, `EndRows`, `CloseListing` | `getIDs`, row by row |
| `CollectAffiliations` | `getAffiliations`; its tree is left out, except that without affiliations it is nil |
| `Answer` | the end of `ServeHTTP` with its errors and `success` |
| `Receive`, `Break`, `Crash` | `SendReq` or `StreamResponse` with `StreamJSON`; a client that goes away; the death of the server |

The roles a listing is filtered by, paging and the contents of records are left out.
`Buffer` (3 tokens) is what fits between a server that writes and a client that does
not read, so that a cursor may stay open while others wait.

Run `exchange` has two clients, two identities and two calls in all: enough for a
listing to meet an addition, to be cut at each token, and to hold the connection
while the other waits. `ListingComplete`, `SuccessAgrees` and `ErrorHasCause` relate
what the client reports to what the handler did; `AddedIsCreated` is the shared
status; `StreamsTheListing` says that the streamer, given a response with other members, has
taken the elements of the one array and nothing else. `EveryCallReturns` assumes
strong fairness of handlers (the pool serves those that wait for its connection in
order) and that a waiting client reads or goes away. It excludes the connection
that was lost with a cursor (see below).

### ExchangeProofs

For every number of clients and of rows, every table, buffer, setting of the chunks and
set of faults, from `ExchangeAssumption` (an element of the array is an object of its own,
never a name or a delimiter):

| Theorem | States |
|---|---|
| `TypeCorrect` | `Spec => []TypeOK` |
| `Listing` | `Spec => []ListingComplete` |
| `Agreement`, `ErrorsCaused` | `Spec => []SuccessAgrees`, `[]ErrorHasCause` |
| `Added` | `Spec => []AddedIsCreated` |
| `ListingStreamed` | `Spec => []StreamsTheListing` |
| `AnyResponse` | a response with a listing of any length, and any values around it that are passed over, gives that listing, and an error exactly if it has errors |

None of `Listing`, `Agreement`, `ErrorsCaused` and `Added` is inductive: they speak of a call that has returned, and what it
returns depends on tokens written and read long before. `Inv` says for each client what
its call may still come to. While the handler runs (`Unfinished`), there are elements
`got` such that the streamer, fed with what is on the wire, comes to the position
`Expected` of the handler with these elements taken, and `got` followed by the rows still
to be written is what the query returned. Where the handler is done (`Decided`), the
tokens before the last lead the streamer to a verdict that is the handler's outcome.
For a request answered in one piece (`Replied`), the checks of `SendReq` accept what is on
the wire exactly if there was no error. `HandlerOK` says what a handler has written at
each position, and that the status of the endpoint is 201 while an addition is between
its dispatch and its answer: the lemma `AnyStatus` carries the invariant of every other
client over such a step.

So the proof is one of the streamer over tokens of every length, in three layers. `Leads(s,
tokens, t)` says that a walk over the tokens leads from `s` to `t`; `LeadsFurther` joins
walks, and `StreamedLeads` says that the recursive function of `JSONStream` computes where
they lead, by the least position at which two of them differ (`LeastNumber`, from the
library's `WFMin`: the induction theorems themselves take an operator, which the provers
cannot instantiate). Then what each piece the server writes does to the walk
(`ListOpens`, `FeedElement`, `ListCloses`, `EndsWell`, `EndsBadly`), and one lemma for each step
of a handler or a call on the state of one client (`WritesRow`, `Answers`, `Streams`, ...).
Last, the actions: `OneClient` says that the other clients do not see a step.

`AnyResponse` is about the streamer alone, over every response with the shape of
`Response`. `Skips(v)` says that a walk inside of a skipped value takes all of `v` and
waits for the same delimiters as before: names and scalars do so, and an array or an
object does if what is in it does (`SkipsArr`), so that nesting of any depth is covered by
citing the lemma again. `PassedOver(v)` says that the walk passes over `v` as the value of
a member that nobody asks for: arrays of skipped values (`OverArr`), and objects
with such a member (`OverObj`). `FlattenLeads` joins walks along the recursive
function of `FlattenSeq`, again by a least counterexample. The six values that
the run puts around the listing are passed over (`OthersPassed`), which makes
`TakesListings` an instance: `ListingStreamed`.

### Attributes, Delegation and Enrollment

How authority passes from one identity to another, and into certificates.
`Attributes` are the rules of `attr/attribute.go` as operators. Attributes are a list,
and nothing refuses a list that names one twice: `attrs` maps each name to the sequence
of its values, since the order of different names matters to nobody. What a request
asks for is looked up with the first entry (`Asked`, `GetAttrValue`), what an identity
has is the last one (`Value`, `newDBUser`), and a modification puts its entries one
after the other in the place of the first that is stored (`MergedEntries`,
`getNewAttributes`). `MergedEntries` is that loop in closed form; the assumption
`MergedEntriesAsLooped` of `MCDelegation` compares the two on all lists of up to three
entries. A value is a set of texts (those between its commas), a pattern ends with `*`
and covers the texts of `Prefixed`. `Powers(attrs)` is what attributes empower to: roles,
delegate roles, the boolean attributes that are true, and every attribute that may
be registered for others. `Delegation` is the machine around these rules:

| TLA+ | Code |
|---|---|
| `users[id]` | the row: type, affiliation, attributes |
| `ctx[r]` | `serverRequestContext` with the cached caller, the record that was read, the record that will be written |
| `GetCaller` | `TokenAuthentication` and `GetCaller` |
| `Register`, `InsertUser` | `registerUser` with `canRegister`, `registerUserID` |
| `Modify`, `UpdateUser` | `processPutRequest` with `getModifyReq`, `CanModifyUser`, `getNewAttributes` |
| `Delete`, `DeleteUser` | `processDeleteRequest` |
| `Leave` | every refusal and failure |

`Enrollment` extends it by the right to a CA certificate. `enr[e]` is an enrollment or a
reenrollment between its lookups: `CheckCA` reads `hf.IntermediateCA` when the profile or
the CSR asks for a CA certificate, `SetRequestOUs` reads type and affiliation for the
organisational units, `GetAttrExtension` the attributes; each lookup may refuse the
enrollment. What `Sign` issues is made from the CSR alone (`parseCertificateRequest`):
the units, the attributes and the profile that were checked and looked up go into the
request of the signer, and `signCert` does not read them there. So the model's
certificate has an owner and whether it is a CA's, `ca`, and no more. `seen[e]` observes
the records the identity had meanwhile. Passwords, counters and revocation belong to
`IdentityRegistry`.

Run `delegation` has an administrator, a registrar of `org1` who may register `hf.*`,
a name that is free, and requests that grant, change and delete each kind of
attribute, name roles and delegate roles twice in either order, or delete and grant in one
list; two requests and one enrollment at a time, three in all (`MaxCalls`): three are what
it takes to read a record, have it changed, and write it back.
`NoNewPower` says that nobody is ever empowered to what no identity of the
configuration was; `WritesWithinReach` that what is written lies in its caller's
affiliation and roles, parts that were not asked to change included;
`AttributesAgree` that the attributes for name, type and affiliation stand once in every
list and repeat the columns. `DelegatesWithinRoles` names the ways by which delegate
roles do come to exceed the roles: the roles are lowered by a request that does not name
the delegate roles, or deleted, or the request or the row names one of the two more than
once, so that the entry that was compared is not the one that counts. `CAIsAuthorized`
says that a CA certificate goes only to an identity that had `hf.IntermediateCA` at some
time while it was enrolled, though the check, the lookups and the signature are steps
apart. Deadlock is not checked: all requests may be over.

### DelegationProofs and EnrollmentProofs

For every set of texts and patterns that satisfies `PrefixAssumption`, and every
set of identities, configuration, bodies, requests and enrollments:

| Theorem | States |
|---|---|
| `TypeCorrect`, `EnrollmentTypeCorrect` | `Spec => []TypeOK`, `EnrollSpec => []EnrollmentTypeOK` |
| `PowersBounded` | `Spec => []NoNewPower` |
| `ColumnsAgree`, `Reach`, `DelegatesBounded` | `Spec => []AttributesAgree`, `[]WritesWithinReach`, `[]DelegatesWithinRoles` |
| `RegistrableOwned` | `Spec => []RegistrableIsOwned`: what an identity may register for others is its own, unless a request deleted it |
| `ImplementsDelegation` | `EnrollSpec => Spec` |
| `CAsAuthorized` | `EnrollSpec => []CAIsAuthorized` |
| `CAsConfigured` | `EnrollSpec => []CAIsConfigured`: no CA certificate at all is issued unless an identity of the configuration had `hf.IntermediateCA` |

`NoNewPower` is not inductive: the power that is written was checked against a
caller read earlier, and added to a record read earlier. `Inv` adds that both were
good (`GoodUser`, `GoodContext`): no more than the configuration empowers to, columns
and attributes in agreement. Its heart is the lemma `GrantedPowers`: attributes that
pass `CanGrant` empower to no more than the caller's and the identity's together.
A pattern stands for attributes nobody owns yet, so this rests on `CoversThrough`:
who covers every entry of a list covers what the list covers, since a pattern that
covers a pattern covers its texts. That names may be repeated makes a row's value the
last of what is merged (`MergedValue`): the last entry that is asked for, or one that was
stored, so that powers stay bounded, as every entry of a list is checked. The fixed
attributes are nobody's to ask for, so theirs is the one entry the server adds
(`AskedOnce`, `MergedOnce`, `MergedKept`): they stand once in every row, which is why
`AttributesAgree` holds with no exception for repeated names and `DelegatesWithinRoles`
does not. `MergedFacts` and `MergedSingle` are the facts about `MergedEntries` these rest on.
`EnrollmentInv` adds that an enrollment past its check saw the right in one of the
records in `seen`, each of them good, which gives `CAIsAuthorized` and `CAIsConfigured`; steps of
enrollments leave the variables of `Delegation` alone, so `EnrollSpec => Spec` carries its theorems over.

### CertificateChain and Credentials

How authorities and clients come by keys, certificates and chains, and what their
files hold when a process ends between two of them. `CertificateChain` has the
pure part: the order in which a CA joins its certificate to its parent's chain
(`CA_CHAIN_PARENT_FIRST`), how a client takes a chain apart, what verifies.

| TLA+ | Code |
|---|---|
| `disk[n]` | a home directory: the keystore, the key file of the configuration, the certificate, the chain (of a client: `cacerts`), `intermediatecerts` |
| `proc[x]` | the process of a server or of a command; `cn` whether `CSR.CN` is set in its memory |
| `signed`, `spent` | the certificates in the databases of the CAs, the enrollments counted |
| `cut`, `renewed` | observers: files not as an interrupted process meant them, authorities given another certificate |
| `Start`, `LoadKeyMaterial`, `GenerateRoot`, `RequestCACert`, `InitEnrollmentSigner`, `Exit` | `Server.Start` or `Init(true)`: `initKeyMaterial`, `getCACert`, `initEnrollmentSigner` |
| `Enroll`, `Reenroll`, `GetCACert` | the commands of the client up to their requests |
| `HandleEnroll`, `HandleCAInfo`, `Refuse` | the handlers of the parent, one step each (`IdentityRegistry` has their interleaving) |
| `Receive`, `WriteFile` | the answer, then one file after the other |
| `Interrupt` | the process dies, or what it does fails; a file being written may be left empty |

Keys are told apart only by the certificates signed for them; a key file holds an
ECDSA key; certificates do not expire. That `runEnroll` rewrites the client's
configuration file is left out, and so are several CAs in one server
(`initMultiCAConfig`, `loadCA`, `addCA`, `compareDN`).

Run `credentials` has a root, two intermediate CAs below each other (one with its
chain in the other order), and a client with two commands at a time; any of the
authorities may have been given its certificate and key. Two troubles (`MaxTrouble`:
an interruption, a renewal, a second start in one process) let a renewal be
interrupted and an interrupted start be interrupted again. `KeyAtHand`,
`ServesItsChain` and `HomeVerifies` relate files written at different times;
`HonoursItsOwn` says that an authority accepts what it signed, `VerifiedIsOwn` that it
accepts nothing else but its own certificate: `getVerifyOptions` takes the first
certificate of the chain for the root, which is the authority's own unless the parent's
chain comes first, and `Verify` accepts a certificate that is in the pool of roots
(`Accepts`). `EventuallyRuns` assumes that a server that is down is started again,
that a process whose start failed ends, and that a start in progress goes on; the
troubles end with their bound. `Stuck` names what no restart gets over: a certificate
file left empty, a certificate that does not fit a key file, a parent that refuses.

What verifies is said without a recursive definition: a certificate is anchored in roots
over intermediates if every set that holds the roots, and each intermediate that one of
the set issued, holds an issuer of the certificate (`Trusts`, `Anchored`). `Verify` itself
belongs to the SM2 library, which the repository does not contain, and is modelled from its
use. The length of the path that a CA certificate allows below it is left out: what the
chain properties say is about paths within that length.

### CredentialsProofs

For every hierarchy of authorities (`Hierarchy`: every node has a depth, its parent a
smaller one), every number of clients, commands, certificates and troubles, from
`CredentialsAssumption`:

| Theorem | States |
|---|---|
| `TypeCorrect` | `Spec => []TypeOK` |
| `KeysAtHand` | `Spec => []KeyAtHand` |
| `ServesChain` | `Spec => []ServesItsChain` |
| `HonoursOwn`, `VerifiedOwn` | `Spec => []HonoursItsOwn`, `[]VerifiedIsOwn` |
| `HomesVerify` | `Spec => []HomeVerifies` |

`Inv` was checked by TLC on the instance of run `credentials` before it was proved. Its
parts follow a certificate from the key to the last file:

- `Remembers` and `Serving`: a process that asks has its key in the keystore, what it was
  answered is for that key, and an authority that is obtaining its first certificate
  holds none, so that whoever holds one and was not renewed does not change its files.
- `HomeOK` and `ChainFileOK`: whose certificates may stand in a chain, and which stands
  first. `VerifiedIsOwn` follows from the depths alone: nobody above an authority has a
  certificate from it, so the set of its own certificates in the chain is closed under
  issuing.
- `ChainOK`: an answer is vouched for by the chain that came with it (`Vouches`); once the
  chain file is written it belongs to the certificate that comes next, and after
  that to the one in the file (`Belongs`), unless a renewal was cut. `Leads` is the part that
  `Accepts` needs, for both ways of taking a chain apart: who trusts the first of
  the chain, or the roots in it, comes to trust the certificate. `LeadsOn` and
  `ConcatVouched` carry it from the parent's chain to the child's in both orders of
  `concatChain`; `Quiet` limits it to authorities above whom nobody was renewed.
- `CommandOK` and `ClientOK`: while nobody was renewed, every command that was answered
  has the chain its authority still hands out, and each file of a home with a
  certificate is right, or due: to be written by some command of that home, or cut (`Due`).

The steps fall in two kinds. `WritesNothing` proves the invariant of every home and every
other process for a step that writes no certificate and no chain, so that its actions
need to show what their own process remembers (`LocalOK`); `WritesHome` does the same for
a step that writes, or spoils, one file of one home, where `RemainingIs` says which files
are left of the order in which they are written.

## What stays with TLC

The proof system does not handle liveness under fairness, `ENABLED`, or modules with
RECURSIVE operators, and induction over data only where the least counterexample serves
(as in `ExchangeProofs`). Model-checked only are therefore
the liveness properties `EveryRequestEnds`, `EventuallyReady`, `StopReturns`, `StopEnds`,
`EveryCallReturns` and `EventuallyRuns`.

The other way round, the type invariants of all modules with proofs, and
`LevelAfterUsers`, `RegistrableIsOwned` and `CAIsConfigured`, are proved for every value of
the constants and not repeated by a run.

Several hazards that PROJECT.json lists have no property, because the code does what the
hazard says and nothing in the repository promises otherwise: a modification that writes
back a stale counter, a certificate stored after a revocation listed those to revoke, a
revocation that ends between its two statements, a deleted bootstrap identity that a
start registers again, a parent affiliation deleted after it was looked up, an answer
that is lost. The interleavings are in the models; the properties around them say,
where they are stated, what they leave out.

## Findings

| Run | The code | The documentation |
|---|---|---|
| `reenabled` | `LoginComplete` increments the state of an identity revoked since `Login`: -1 becomes 0 | swagger: all future enrollment attempts will be rejected |
| `aff_lostconnection` | a UNIQUE conflict inside the renaming panics and keeps the connection | comment: one connection is shared by all goroutines |
| `db_newer` | `checkDBLevels` looks properties up under names they do not have, so every database is accepted | error text and script: a newer database is refused |

Also met while modelling, without a run of its own: PUT writes a counter it read over an
enrollment counted since, and an affiliation over a renaming; two registrations of one
ID may both insert where `users.id` has no key; PUT stores an allowance above the CA's
(`Login` caps it); a revoke request with a name and a serial number revokes the
certificate only; a child affiliation or an identity may be inserted below an
affiliation deleted since it was looked up; SQLite's LIKE ignores case; a retry of `initDB`
on SQLite copies the users table without its levels, and so migrates identities that the
attempt before loaded at the current level (`backwards_comp_test.sh`: "loaded as is").

A revocation by name lists the certificates after it disabled the identity, and an
enrollment past its login stores one more afterwards: good, and accepted, although the
test client_test.go:1222 wants every command of a revoked identity rejected
(`ExcludedStaysOut` counts an identity as out only once it has no good certificate and
no request in flight can give it one).

Of the streamed answers: `rows.Err` is not asked, so a listing the database cut short
ends as if it were complete; after the first addition, the listing of the same endpoint
is answered 201; a chunk size of 0 or a text, and a row that cannot be read, return
without closing the cursor, which on SQLite is the end of the only connection;
`getAffiliations` dereferences a nil root when there are no affiliations; an error after
the first row comes behind a header that said success. `fillAffiliationInfo` appends
to slices of one array in nested calls, so a child may be listed twice (rows `org1`,
`org1.dept1`, `org1.dept1.team1`, `org1.dept2`).

Of attributes: the comment at attribute.go:304 ("Make sure delegateRoles is not larger than
roles") holds for lists that name each of the two once. In a list that repeats a name
the first entry is compared and the last one is stored as the value, so delegate roles
may come out larger; and an attribute that a row has twice keeps its last value when a
modification asks for another, since `getNewAttributes` changes the first. The comment at
serverregister.go:239 says that an attribute is added "if not already found", but
`addAttributeToRequest` always appends; that nobody may ask for the fixed attributes is
what keeps them from being there twice.

Of signing: `signCert` makes the certificate from the CSR. It reads neither the
organisational units that `setRequestOUs` put into the request (serverenroll.go:328:
"authorization decisions are made based on the OU fields"), nor the attributes of
`GetAttrExtension`, nor the profile, whose expiry and usages therefore have no effect; a
request for the CA profile whose CSR does not ask for a CA gets a certificate that is not
one.

Of the credentials: the comment of `VerifyCertificate` (ca.go:520: "verifies that 'cert' was
issued by this CA") leaves out that the CA's own certificate is accepted; the check
of a CA's name in its certificate compares with `CSR.CN`, which a failed start leaves set; the key file is not replaced by a renewal, so that
later starts fail on a certificate that does not fit; an interrupted renewal leaves a CA
that hands out the chain of another certificate; the comment at client.go:137, that the
first element of the chain is the root's certificate, holds for a root or with
`CA_CHAIN_PARENT_FIRST`.

## Plan

Modelled, in this order: `IdentityRegistry` with `EnrollmentLedger`; `AffiliationTree` and `Affiliations`;
`CADatabase`; `ServerLifecycle`; `JSONStream` and `Exchange`; `Attributes` and
`Delegation`; `CertificateChain` and `Credentials`; `Enrollment`. Each of them has its
theorems.

Next, in the order it is worth doing:

1. `CADatabase` with several servers on one Postgres or MySQL database, where nothing
   but the keys of the tables stands between two migrations.
2. The tree of an affiliations response as an operator, against a reference definition.

## Not modelled

- CRL generation (`servergencrl.go`): four comparisons of times around one query; it
  changes no state.
- The comparison of version strings (`metadata/version.go`): `CADatabase` has the levels
  that versions map to.
- LDAP (`ldap/client.go`): authentication is the directory's; the user registry of a CA
  is read-only with it, so nothing modelled here writes users.
- Transaction certificates (`tcert/`, `servertcert.go`): key derivation; what the server
  hands out is not stored.
- TLS, configuration, flags of the commands, helpers and API types: structures read once,
  no behaviour over time.
- Several CAs in one server, several servers on one database other than a starting
  server's `addIdentity`, MySQL's missing keys in `Affiliations`.
- Vendored libraries: modelled from their use where they are called (the certificate
  store's SQL, `http.Serve`, the streams of a JSON decoder). Cryptography is data
  everywhere: a signature verifies or does not.
