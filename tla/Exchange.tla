------------------------------- MODULE Exchange -------------------------------
(***************************************************************************)
(* Requests of the client library, from the call to its result, and the    *)
(* endpoints of the server that answer them: authentication, the handler's *)
(* statements, the status and the body that ServeHTTP writes, and what the *)
(* client makes of the tokens that reach it.  The listing of identities is *)
(* streamed: its rows are written while the cursor over them is open, and  *)
(* on SQLite the cursor holds the only connection to the database, so a    *)
(* client that does not read makes the other requests wait.                *)
(***************************************************************************)
EXTENDS JSONStream, FiniteSets

CONSTANTS
    Clients,        \* each has at most one request under way
    Registered,     \* the identities registered in the beginning, in order
    Named,          \* the identities that calls ask for
    Buffer,         \* tokens in flight after which a write waits for the reader
    Chunks,         \* what ZIGLEDGER_CA_SERVER_MAX_IDS_PER_CHUNK may hold:
                    \* "number", "zero" or "text"
    AffCounts,      \* how many affiliations there may be when they are read
    Faults,         \* which of "query", "scan", "cursor", "break" and "crash"
                    \* may happen
    Free, Lost,     \* the connection is in the pool, or in nobody's hands
    MaxCalls,       \* bound on the calls of all clients
    MaxCrashes      \* bound on how often the server dies

\* Tokens that stand for the end of a response, in order or by a reset.
Complete == "EOF"
Reset == "reset"
Ends == {Complete, Reset}

\* An element is a whole object of the array, never a token of another kind.
ASSUME ExchangeAssumption ==
    /\ Registered \in Seq(Elements) /\ Named \subseteq Elements
    /\ Elements \cap (Delimiters \cup {"errors", "none"} \cup Ends) = {}
    /\ Buffer \in Nat \ {0}
    /\ Chunks \subseteq {"number", "zero", "text"}
    /\ AffCounts \subseteq Nat
    /\ Faults \subseteq {"query", "scan", "cursor", "break", "crash"}
    /\ Free # Lost /\ {Free, Lost} \cap Clients = {}
    /\ MaxCalls \in Nat /\ MaxCrashes \in Nat
    /\ Listed = <<"result", "identities">>

Streaming == {"list"}
Ops == {"list", "get", "add", "delete", "affiliations"}

VARIABLES
    table,      \* table users: the identities, in the order of a cursor
    conn,       \* the connection of the pool: Free, Lost or a client's request
    successRC,  \* successRC of the endpoint of "list" and "add"
    chunk,      \* the environment of the server
    srv,        \* Clients -> the request in its goroutine
    wire,       \* Clients -> the tokens written and not yet read
    cli,        \* Clients -> the call in the client
    calls,      \* how many calls there were
    crashes     \* how often the server died

vars == <<table, conn, successRC, chunk, srv, wire, cli, calls, crashes>>

-----------------------------------------------------------------------------
(* State of a request and of a call *)

NoRequest == [op |-> "none", pc |-> "none", id |-> "none", rows |-> <<>>, wrote |-> FALSE,
              status |-> 0, outcome |-> "none", shown |-> <<>>, broken |-> FALSE]

NoCall == [op |-> "none", pc |-> "idle", id |-> "none", walk |-> Start,
           status |-> 0, left |-> FALSE, result |-> "none"]

\* The tokens of a response without its end.
Body(tokens) == IF Last(tokens) \in Ends THEN Front(tokens) ELSE tokens

At(c, pc) == srv[c].pc = pc
Update(c, r) == srv' = [srv EXCEPT ![c] = r]
Goto(c, pc) == Update(c, [srv[c] EXCEPT !.pc = pc])

\* The handler is about to use the database through the pool.
Connected(c, pc) == At(c, pc) /\ conn = Free

Listening(c) == cli[c].pc = "waiting"

\* A write waits for room; to a client that went away it is lost at once.
Room(c) == Len(wire[c]) < Buffer \/ ~Listening(c)
Written(c, tokens) ==
    wire' = IF Listening(c) THEN [wire EXCEPT ![c] = @ \o tokens] ELSE wire

-----------------------------------------------------------------------------
(* Status and body *)

\* getHTTPErr: the status of the error the handler returned, 500 if the cause
\* is no HTTP error.
ErrorStatus == [auth |-> 401, request |-> 400, query |-> 500, read |-> 500]

\* WriteHeader: the first one counts.
Header(r, status) == IF r.status = 0 THEN [r EXCEPT !.status = status] ELSE r

\* The tokens of ServeHTTP after those of the handler.
ErrorsOf(failed) ==
    IF failed THEN <<"errors", "[", "message", "]">> ELSE <<"errors", "[", "]">>

Success(failed) == IF failed THEN "false" ELSE "true"

Ending(failed) ==
    ErrorsOf(failed) \o <<"messages", "[", "]", "success", Success(failed), "}">>

\* The body opens with the first write, whoever makes it.
Opening(r) == IF r.wrote THEN <<>> ELSE <<"{", "result">>

\* The handler returns an error of kind: ServeHTTP has to write it.
Fail(c, kind) ==
    Update(c, [Header(srv[c], ErrorStatus[kind]) EXCEPT !.pc = "answer", !.outcome = "error"])

\* The handler panics: net/http drops the connection of the client.
Panic(c) ==
    /\ Update(c, [srv[c] EXCEPT !.pc = "none", !.outcome = "panic"])
    /\ Written(c, <<Reset>>)

\* The handler returns without an error.
Succeed(c) ==
    Update(c, [Header(srv[c], IF srv[c].op \in {"list", "add"} THEN successRC ELSE 200)
                 EXCEPT !.pc = "answer", !.outcome = "ok"])

\* ServeHTTP writes the result, the errors and success, and is done.
Answer(c) ==
    LET r == srv[c]
    IN  /\ At(c, "answer") /\ Room(c)
        /\ Written(c, Opening(r) \o (IF r.wrote THEN <<>> ELSE <<"answer">>)
                      \o Ending(r.outcome = "error") \o <<Complete>>)
        /\ Update(c, [r EXCEPT !.pc = "none", !.wrote = TRUE, !.id = "none"])
        /\ UNCHANGED <<table, conn, successRC, chunk, cli, calls, crashes>>

-----------------------------------------------------------------------------
(* The client sends *)

Send(c, op, id) ==
    /\ cli[c].pc = "idle" /\ At(c, "none") /\ wire[c] = <<>>
    /\ calls < MaxCalls /\ calls' = calls + 1
    /\ cli' = [cli EXCEPT ![c] = [NoCall EXCEPT !.op = op, !.pc = "waiting", !.id = id]]
    /\ Update(c, [NoRequest EXCEPT !.op = op, !.pc = "authenticate", !.id = id])
    /\ UNCHANGED <<table, conn, successRC, chunk, wire, crashes>>

GetAllIdentities(c) == Send(c, "list", "none")
GetAffiliations(c) == Send(c, "affiliations", "none")
GetIdentity(c) == \E id \in Named : Send(c, "get", id)
AddIdentity(c) == \E id \in Named : Send(c, "add", id)
RemoveIdentity(c) == \E id \in Named : Send(c, "delete", id)

\* TokenAuthentication, getCAName, GetCaller, and the roles that the operation
\* needs: anything of it may refuse.
Refuse(c) ==
    /\ Connected(c, "authenticate")
    /\ \E kind \in {"auth", "request"} : Fail(c, kind)
    /\ UNCHANGED <<table, conn, successRC, chunk, wire, cli, calls, crashes>>

\* processRequest, processStreamingRequest: the method decides.
Route == [list |-> "query", affiliations |-> "query", get |-> "read", add |-> "insert",
          delete |-> "remove"]

\* Variant: a request that is no POST resets the status of its endpoint.
PostedOnly(c) == IF srv[c].op = "add" THEN 201 ELSE IF srv[c].op = "list" THEN 200 ELSE successRC

\* processPostRequest sets the status of the endpoint, not of the request.
Posted(c) == IF srv[c].op = "add" THEN 201 ELSE successRC

Admit(c) ==
    /\ Connected(c, "authenticate")
    /\ successRC' = Posted(c)
    /\ Goto(c, Route[srv[c].op])
    /\ UNCHANGED <<table, conn, chunk, wire, cli, calls, crashes>>

-----------------------------------------------------------------------------
(* Requests answered in one piece *)

\* getID, and the reading back of an identity that was added.
ReadIdentity(c) ==
    /\ Connected(c, "read")
    /\ \/ srv[c].id \in Range(table) /\ Succeed(c)
       \/ srv[c].id \notin Range(table) /\ Fail(c, "request")
       \/ "query" \in Faults /\ Fail(c, "read")
    /\ UNCHANGED <<table, conn, successRC, chunk, wire, cli, calls, crashes>>

\* registerUser; IdentityRegistry has the race between its two statements.
InsertIdentity(c) ==
    /\ Connected(c, "insert")
    /\ IF srv[c].id \in Range(table)
       THEN Fail(c, "request") /\ UNCHANGED table
       ELSE Goto(c, "read") /\ table' = Append(table, srv[c].id)
    /\ UNCHANGED <<conn, successRC, chunk, wire, cli, calls, crashes>>

\* DELETE FROM users WHERE id = ?
Without(rows, id) ==
    LET kept[n \in 0 .. Len(rows)] ==
            IF n = 0 THEN <<>>
            ELSE IF rows[n] = id THEN kept[n - 1] ELSE Append(kept[n - 1], rows[n])
    IN  kept[Len(rows)]

DeleteIdentity(c) ==
    /\ Connected(c, "remove")
    /\ IF srv[c].id \in Range(table)
       THEN Succeed(c) /\ table' = Without(table, srv[c].id)
       ELSE Fail(c, "request") /\ UNCHANGED table
    /\ UNCHANGED <<conn, successRC, chunk, wire, cli, calls, crashes>>

-----------------------------------------------------------------------------
(* Requests with a cursor *)

\* GetFilteredUsers, GetAllAffiliations: from here on the cursor has the
\* connection.
OpenCursor(c) ==
    /\ Connected(c, "query")
    /\ \/ /\ conn' = c
          /\ Update(c, IF srv[c].op = "list"
                       THEN [srv[c] EXCEPT !.pc = "chunk", !.rows = table, !.shown = table]
                       ELSE [srv[c] EXCEPT !.pc = "collect"])
       \/ "query" \in Faults /\ Fail(c, "query") /\ UNCHANGED conn
    /\ UNCHANGED <<table, successRC, chunk, wire, cli, calls, crashes>>

\* getIDs reads the environment only now: when it cannot, the cursor stays open.
ReadChunk(c) ==
    /\ At(c, "chunk")
    /\ IF chunk = "text"
       THEN Fail(c, "query") /\ conn' = Lost /\ UNCHANGED wire
       ELSE /\ Room(c)
            /\ Written(c, Opening(srv[c]) \o <<"{", "identities", "[">>)
            /\ Update(c, [Header(srv[c], successRC) EXCEPT !.pc = "rows", !.wrote = TRUE])
            /\ UNCHANGED conn
    /\ UNCHANGED <<table, successRC, chunk, cli, calls, crashes>>

\* One row is written; "rowNumber % 0" panics after the first.
WriteRow(c) ==
    LET r == srv[c]
    IN  /\ At(c, "rows") /\ r.rows # <<>>
        /\ IF chunk = "zero"
           THEN conn' = Lost /\ Panic(c)
           ELSE /\ Room(c)
                /\ Written(c, <<Head(r.rows)>>)
                /\ Update(c, [r EXCEPT !.rows = Tail(@)])
                /\ UNCHANGED conn
        /\ UNCHANGED <<table, successRC, chunk, cli, calls, crashes>>

\* A row cannot be read: the cursor stays open, the body as it is.
ScanFails(c) ==
    /\ "scan" \in Faults
    /\ \/ At(c, "rows") /\ srv[c].rows # <<>>
       \/ At(c, "collect") /\ AffCounts # {0}
    /\ Fail(c, "read")
    /\ conn' = Lost
    /\ UNCHANGED <<table, successRC, chunk, wire, cli, calls, crashes>>

\* Variant: the cursor is left open behind the last row.
AfterRowsKept(c) == conn

\* rows.Next closes the cursor when it returns false ...
AfterRows(c) == Free

\* ... which it does after the last row, and when the database fails.  Nobody
\* asks rows.Err which one it was.
EndRows(c) ==
    /\ At(c, "rows")
    /\ srv[c].rows = <<>> \/ "cursor" \in Faults
    /\ Update(c, [srv[c] EXCEPT !.pc = "close", !.rows = <<>>, !.broken = (srv[c].rows # <<>>)])
    /\ conn' = AfterRows(c)
    /\ UNCHANGED <<table, successRC, chunk, wire, cli, calls, crashes>>

CloseListing(c) ==
    /\ At(c, "close") /\ Room(c)
    /\ Written(c, <<"]", "caname", "ca", "}">>)
    /\ Succeed(c)
    /\ UNCHANGED <<table, conn, successRC, chunk, cli, calls, crashes>>

\* getAffiliations reads all rows before it writes; the root of no affiliations
\* is nil.
CollectAffiliations(c) ==
    /\ At(c, "collect")
    /\ conn' = AfterRows(c)
    /\ \E affs \in AffCounts :
          IF affs = 0 THEN Panic(c) ELSE Succeed(c) /\ UNCHANGED wire
    /\ UNCHANGED <<table, successRC, chunk, cli, calls, crashes>>

-----------------------------------------------------------------------------
(* The client receives *)

Result(c, result, walk) ==
    cli' = [cli EXCEPT ![c] = [@ EXCEPT !.pc = "idle", !.id = "none", !.result = result,
                                        !.walk = walk, !.status = srv[c].status]]

\* Variant: the end of the body is taken for the end of the walk.
VerdictAtEnd(walk, last) ==
    IF walk.at = "done" \/ last \in Ends THEN "ok"
    ELSE IF walk.at = "error" THEN "error" ELSE "none"

\* StreamResponse: the walk over the body decides, the status does not.
Verdict(walk, last) ==
    IF walk.at = "done" THEN "ok"
    ELSE IF walk.at = "error" \/ last \in Ends THEN "error" ELSE "none"

ReadStream(c) ==
    LET walk == Streamed(cli[c].walk, Body(wire[c]))
        verdict == Verdict(walk, Last(wire[c]))
    IN  IF verdict = "none" THEN cli' = [cli EXCEPT ![c].walk = walk] ELSE Result(c, verdict, walk)

\* Variant: only 200 is a success.
AcceptsOK(body, status) ==
    /\ Last(body) = Complete
    /\ "message" \notin Range(body)
    /\ status = 200
    /\ "true" \in Range(body)

\* SendReq: the whole body, no errors in it, a good status, and success.
Accepts(body, status) ==
    /\ Last(body) = Complete
    /\ "message" \notin Range(body)
    /\ status < 400
    /\ "true" \in Range(body)

ReadReply(c) ==
    Result(c, IF Accepts(wire[c], srv[c].status) THEN "ok" ELSE "error", Start)

Receive(c) ==
    /\ Listening(c) /\ wire[c] # <<>>
    /\ IF cli[c].op \in Streaming THEN ReadStream(c) ELSE ReadReply(c)
    /\ wire' = [wire EXCEPT ![c] = <<>>]
    /\ UNCHANGED <<table, conn, successRC, chunk, srv, calls, crashes>>

\* The client is interrupted, or its connection breaks.
Break(c) ==
    /\ "break" \in Faults
    /\ Listening(c)
    /\ cli' = [cli EXCEPT ![c] = [@ EXCEPT !.pc = "idle", !.result = "error", !.left = TRUE]]
    /\ wire' = [wire EXCEPT ![c] = <<>>]
    /\ UNCHANGED <<table, conn, successRC, chunk, srv, calls, crashes>>

\* Everything in memory is gone, the tables stay, and a new server runs.
Crash ==
    /\ "crash" \in Faults /\ crashes < MaxCrashes
    /\ crashes' = crashes + 1
    /\ conn' = Free
    /\ successRC' = 200
    /\ srv' = [c \in Clients |-> [srv[c] EXCEPT !.pc = "none",
                 !.outcome = IF srv[c].pc = "none" THEN @ ELSE "crash"]]
    /\ wire' = [c \in Clients |-> IF Listening(c) /\ srv[c].pc # "none"
                                  THEN Append(wire[c], Reset) ELSE wire[c]]
    /\ UNCHANGED <<table, chunk, cli, calls>>

-----------------------------------------------------------------------------
Init ==
    /\ table = Registered
    /\ conn = Free
    /\ successRC = 200
    /\ chunk \in Chunks
    /\ srv = [c \in Clients |-> NoRequest]
    /\ wire = [c \in Clients |-> <<>>]
    /\ cli = [c \in Clients |-> NoCall]
    /\ calls = 0
    /\ crashes = 0

Call(c) ==
    \/ GetAllIdentities(c) \/ GetIdentity(c) \/ AddIdentity(c) \/ RemoveIdentity(c)
    \/ GetAffiliations(c)

Handle(c) ==
    \/ Refuse(c) \/ Admit(c) \/ Answer(c)
    \/ ReadIdentity(c) \/ InsertIdentity(c) \/ DeleteIdentity(c)
    \/ OpenCursor(c) \/ ReadChunk(c) \/ WriteRow(c) \/ ScanFails(c)
    \/ EndRows(c) \/ CloseListing(c) \/ CollectAffiliations(c)

Next == Crash \/ \E c \in Clients : Call(c) \/ Handle(c) \/ Receive(c) \/ Break(c)

Spec == Init /\ [][Next]_vars

\* The client takes what has come, or goes away.
Taken(c) == Listening(c) /\ wire[c] # <<>> /\ wire' = [wire EXCEPT ![c] = <<>>]

\* A goroutine goes on, also when it asked the pool for the connection and
\* others ask again and again (the pool serves them in order), and a client
\* that waits for its answer does not leave what has come unread.
FairSpec == Spec /\ \A c \in Clients : SF_vars(Handle(c)) /\ WF_wire(Taken(c))

-----------------------------------------------------------------------------
(* Properties *)

Request == [op : Ops \cup {"none"},
            pc : {"none", "authenticate", "query", "chunk", "rows", "close", "collect",
                  "read", "insert", "remove", "answer"},
            id : Elements \cup {"none"}, rows : Seq(Elements), wrote : BOOLEAN,
            status : {0, 200, 201, 400, 401, 500},
            outcome : {"none", "ok", "error", "panic", "crash"},
            shown : Seq(Elements), broken : BOOLEAN]

\* Requests, calls and the pool keep their shape.
TypeOK ==
    /\ table \in Seq(Elements)
    /\ conn \in Clients \cup {Free, Lost}
    /\ successRC \in {200, 201}
    /\ srv \in [Clients -> Request]
    /\ \A c \in Clients : cli[c].result \in {"none", "ok", "error"}
    /\ calls \in 0 .. MaxCalls
    /\ crashes \in 0 .. MaxCrashes

Returned(c, op) == cli[c].pc = "idle" /\ cli[c].op = op /\ cli[c].result = "ok"

\* A listing that the client reports as successful shows every identity there
\* was when the server ran the query, each one once and in order, unless the
\* cursor ended early: nothing of another request, of a failed row, of a server
\* that died or of a status sent too soon makes it less (getIDs, StreamJSON).
ListingComplete ==
    \A c \in Clients : Returned(c, "list") /\ ~srv[c].broken => cli[c].walk.got = srv[c].shown

\* The streamer hands over the elements of the array it is asked for, all of
\* them and in order, whatever else the response holds, and reports exactly
\* the responses that carry an error (StreamJSONArray, errCB, skipToDelim).
\* It keeps no state between calls, so this is looked at before the first one.
StreamsTheListing == calls = 0 => TakesListings

\* The client reports success only if the handler had no error, also where the
\* header promised success before the error (ServeHTTP against SendReq and
\* StreamResponse).
SuccessAgrees ==
    \A c \in Clients : \A op \in Ops : Returned(c, op) => srv[c].outcome = "ok"

\* What the handler did without an error is reported as an error only if the
\* client went away before it read the answer.
ErrorHasCause ==
    \A c \in Clients : cli[c].result = "error" /\ ~cli[c].left => srv[c].outcome # "ok"

\* An identity that was added is answered with 201, whatever other requests of
\* the endpoint do to the status they share (processPostRequest).
AddedIsCreated == \A c \in Clients : Returned(c, "add") => cli[c].status = 201

\* Every call returns, however slowly other clients read, as long as no handler
\* has left a cursor open: the connection is handed on (getIDs, getAffiliations).
EveryCallReturns ==
    \A c \in Clients : Listening(c) ~> (~Listening(c) \/ conn = Lost)
=============================================================================
