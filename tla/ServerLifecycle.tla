-------------------------- MODULE ServerLifecycle --------------------------
(***************************************************************************)
(* A Server that is started and stopped again and again by one caller      *)
(* (src/lib/server.go).  Start number n opens socket n and database handle *)
(* n, makes channel n and runs goroutine n.                                *)
(*                                                                         *)
(* Time: while Stop sleeps for a second, goroutines that can go on do.     *)
(***************************************************************************)
EXTENDS Naturals

CONSTANTS
    MaxStarts,      \* bound on calls of Start
    Polls           \* how often Stop looks for the message of serve (10)

ASSUME ServerLifecycleAssumption == MaxStarts \in Nat /\ Polls \in Nat \ {0, 1}

VARIABLES
    BlockingStart, profiling,       \* how the server is run
    listener, db, wait,             \* fields of Server; 0 is nil
    sockets, handles, profilePort,  \* what is open
    starts, starting,               \* calls of Start, position in the current one
    stopping, polls,                \* position in Stop
    serving,                        \* position of every goroutine in serve
    local,                          \* its listener, later the channel it sends to
    closed,                         \* channels closed
    broken,                         \* sockets that failed by themselves
    known,                          \* observer: what the last call told the caller
    panicked

mode == <<BlockingStart, profiling>>
open == <<sockets, handles, profilePort>>
calls == <<starts, starting, stopping, polls, known>>
goroutines == <<serving, local, broken, panicked>>
vars == <<mode, listener, db, wait, open, calls, goroutines, closed>>

Goroutines == 1 .. MaxStarts

Init ==
    /\ BlockingStart \in BOOLEAN /\ profiling \in BOOLEAN
    /\ listener = 0 /\ db = 0 /\ wait = 0
    /\ sockets = {} /\ handles = {} /\ profilePort = FALSE
    /\ starts = 0 /\ starting = "no"
    /\ stopping = "no" /\ polls = 0
    /\ serving = [g \in Goroutines |-> "none"]
    /\ local = [g \in Goroutines |-> 0]
    /\ closed = {} /\ broken = {}
    /\ known = "stopped"
    /\ panicked = FALSE

\* closeListener runs under the server's mutex, closeDB on every CA.
CloseListener ==
    /\ sockets' = sockets \ {listener}
    /\ listener' = 0
CloseDB ==
    /\ handles' = handles \ {db}
    /\ db' = 0

Goes(g, pc) == serving' = [serving EXCEPT ![g] = pc]

\* A goroutine in Accept, or sending to a channel nobody receives from, waits.
Waits(g) ==
    \/ serving[g] \in {"none", "ended", "send"}
    \/ serving[g] = "accept" /\ local[g] \in sockets
Settled == \A g \in Goroutines : Waits(g)

Idle == starting = "no" /\ stopping = "no" /\ ~panicked

-----------------------------------------------------------------------------
(* Start *)

\* A caller restarts at once after a Stop that waited for serve; after a Stop with
\* an error, or of a blocking Start, which does not wait, it leaves some time.
\* Start on a listening server is an error and changes nothing.
Start ==
    /\ Idle /\ starts < MaxStarts
    /\ listener = 0
    /\ BlockingStart \/ known # "stopped" => Settled
    /\ starts' = starts + 1
    /\ starting' = "init"
    /\ known' = "unknown"
    /\ UNCHANGED <<mode, listener, db, wait, open, stopping, polls, goroutines, closed>>

\* init of the default CA; without a database the server starts all the same.
InitServer ==
    /\ starting = "init"
    /\ \/ db' = starts /\ handles' = handles \cup {starts}
       \/ db' = 0 /\ UNCHANGED handles
    /\ starting' \in {"listen", "cleanup"}
    /\ UNCHANGED <<mode, listener, wait, sockets, profilePort, starts, stopping, polls, known,
                   goroutines, closed>>

\* The port is free, or taken by this or another server.
Listen ==
    /\ starting = "listen"
    /\ \/ /\ sockets = {}
          /\ listener' = starts
          /\ sockets' = {starts}
          /\ starting' = "profile"
       \/ starting' = "cleanup" /\ UNCHANGED <<listener, sockets>>
    /\ UNCHANGED <<mode, db, wait, handles, profilePort, starts, stopping, polls, known,
                   goroutines, closed>>

\* The profiling listener is never closed.
CheckAndEnableProfiling ==
    /\ starting = "profile"
    /\ \/ /\ profiling => ~profilePort
          /\ profilePort' = profiling
          /\ starting' = "serve"
          /\ UNCHANGED <<listener, sockets>>
       \/ /\ profiling
          /\ CloseListener
          /\ starting' = "cleanup"
          /\ UNCHANGED profilePort
    /\ UNCHANGED <<mode, db, wait, handles, starts, stopping, polls, known, goroutines, closed>>

\* With BlockingStart the goroutine of the caller enters serve.
Go ==
    /\ starting = "serve"
    /\ starting' = "no"
    /\ wait' = IF BlockingStart THEN wait ELSE starts
    /\ Goes(starts, "enter")
    /\ known' = "running"
    /\ UNCHANGED <<mode, listener, db, open, starts, stopping, polls, local, broken, panicked, closed>>

StartFails ==
    /\ starting = "cleanup"
    /\ CloseDB
    /\ starting' = "no"
    /\ known' = "stopped"
    /\ UNCHANGED <<mode, listener, wait, sockets, profilePort, starts, stopping, polls,
                   goroutines, closed>>

-----------------------------------------------------------------------------
(* serve *)

\* Variant: a listener that is gone is not noticed.
NoListenerIgnored == FALSE

\* Stop may have been here first (FAB-3100).
NoListener == listener = 0

Enter(g) ==
    /\ serving[g] = "enter"
    /\ \/ NoListener /\ Goes(g, "ended") /\ UNCHANGED <<local, panicked>>
       \/ /\ ~NoListener
          /\ Goes(g, "accept")
          /\ local' = [local EXCEPT ![g] = listener]
          /\ panicked' = (panicked \/ listener = 0)
    /\ UNCHANGED <<mode, listener, db, wait, open, calls, closed, broken>>

\* http.Serve returns as its socket was closed, or as Accept fails.
Returned(g) ==
    /\ serving[g] = "accept"
    /\ Goes(g, "closeListener")
    /\ UNCHANGED <<mode, listener, db, wait, open, calls, local, panicked, closed>>

ServeReturns(g) == Returned(g) /\ local[g] \notin sockets /\ UNCHANGED broken

AcceptFails(g) == Returned(g) /\ local[g] \in sockets /\ broken' = broken \cup {local[g]}

\* A request opens a database that was missing when the server started (GetCA); none is
\* in flight when the server stops.
RequestInitDB(g) ==
    /\ serving[g] = "accept" /\ local[g] \in sockets
    /\ db = 0
    /\ db' = g /\ handles' = handles \cup {g}
    /\ UNCHANGED <<mode, listener, wait, sockets, profilePort, calls, goroutines, closed>>

ServeCloseListener(g) ==
    /\ serving[g] = "closeListener"
    /\ CloseListener
    /\ Goes(g, "closeDB")
    /\ UNCHANGED <<mode, db, wait, handles, profilePort, calls, local, broken, panicked, closed>>

\* Variant: serve leaves the database open.
ServeDBKept == UNCHANGED <<handles, db>>

ServeCloses == CloseDB

ServeCloseDB(g) ==
    /\ serving[g] = "closeDB"
    /\ ServeCloses
    /\ Goes(g, IF wait = 0 THEN "ended" ELSE "send")
    /\ local' = [local EXCEPT ![g] = wait]
    /\ UNCHANGED <<mode, listener, wait, sockets, profilePort, calls, broken, panicked, closed>>

-----------------------------------------------------------------------------
(* Stop *)

\* A blocking server is stopped once it has served something.
Stop ==
    /\ Idle
    /\ listener # 0
    /\ BlockingStart => \A g \in Goroutines : serving[g] # "enter"
    /\ CloseListener
    /\ stopping' = IF wait = 0 THEN "no" ELSE "poll"
    /\ polls' = 0
    /\ known' = IF wait = 0 THEN "stopped" ELSE "unknown"
    /\ UNCHANGED <<mode, db, wait, handles, profilePort, starts, starting, goroutines, closed>>

\* Stop on a server that does not listen is an error.
StopError ==
    /\ Idle
    /\ listener = 0
    /\ known' = "unknown"
    /\ UNCHANGED <<mode, listener, db, wait, open, starts, starting, stopping, polls, goroutines, closed>>

\* The message of serve, then Stop closes the channel.
Sends(g) == serving[g] = "send" /\ local[g] = wait

Receive ==
    /\ stopping = "poll"
    /\ \E g \in Goroutines : Sends(g) /\ Goes(g, "ended")
    /\ closed' = closed \cup {wait}
    /\ wait' = 0
    /\ stopping' = "no"
    /\ known' = "stopped"
    /\ UNCHANGED <<mode, listener, db, open, starts, starting, polls, local, broken, panicked>>

\* Variant: Stop does not wait for serve.
AfterMissReturning == "timeout"

\* Nobody sends yet: Stop sleeps.
AfterMiss == "sleep"

\* Variant: the rounds are not counted.
CountedNever == polls

Counted == polls + 1

Miss ==
    /\ stopping = "poll"
    /\ \A g \in Goroutines : ~Sends(g)
    /\ stopping' = AfterMiss
    /\ polls' = Counted
    /\ UNCHANGED <<mode, listener, db, wait, open, starts, starting, known, goroutines, closed>>

MayPoll == polls < Polls

Wake ==
    /\ stopping = "sleep"
    /\ Settled
    /\ stopping' = IF MayPoll THEN "poll" ELSE "timeout"
    /\ UNCHANGED <<mode, listener, db, wait, open, starts, starting, polls, known, goroutines, closed>>

\* Variant: Stop leaves the database open.
StopDBKept == UNCHANGED <<handles, db>>

StopCloses == CloseDB

TimedOut ==
    /\ stopping = "timeout"
    /\ StopCloses
    /\ stopping' = "no"
    /\ known' = "stopped"
    /\ UNCHANGED <<mode, listener, wait, sockets, profilePort, starts, starting, polls,
                   goroutines, closed>>

-----------------------------------------------------------------------------
Starting == InitServer \/ Listen \/ CheckAndEnableProfiling \/ Go \/ StartFails
Stopping == Receive \/ Miss \/ Wake \/ TimedOut
Serve(g) == Enter(g) \/ ServeReturns(g) \/ ServeCloseListener(g) \/ ServeCloseDB(g)

Next ==
    \/ Start \/ Starting \/ Stop \/ StopError \/ Stopping
    \/ \E g \in Goroutines : Serve(g) \/ AcceptFails(g) \/ RequestInitDB(g)

Spec == Init /\ [][Next]_vars

\* The Go scheduler runs the caller and every goroutine that can go on.
FairSpec ==
    /\ Spec
    /\ WF_vars(Starting) /\ WF_vars(Stopping)
    /\ \A g \in Goroutines : WF_vars(Serve(g))

-----------------------------------------------------------------------------
(* Properties *)

Numbers == 0 .. MaxStarts
TypeOK ==
    /\ BlockingStart \in BOOLEAN /\ profiling \in BOOLEAN
    /\ {listener, db, wait, starts} \subseteq Numbers
    /\ sockets \subseteq Goroutines /\ handles \subseteq Goroutines /\ profilePort \in BOOLEAN
    /\ starting \in {"no", "init", "listen", "profile", "serve", "cleanup"}
    /\ stopping \in {"no", "poll", "sleep", "timeout"}
    /\ polls \in 0 .. Polls
    /\ serving \in [Goroutines -> {"none", "enter", "accept", "closeListener", "closeDB", "send", "ended"}]
    /\ local \in [Goroutines -> Numbers]
    /\ closed \subseteq Goroutines /\ broken \subseteq Goroutines
    /\ known \in {"stopped", "running", "unknown"}
    /\ panicked \in BOOLEAN

\* serve never runs on a listener Stop took away (server.go:588, FAB-3100), and never
\* sends to a channel Stop has closed.
NoPanic ==
    /\ ~panicked
    /\ \A g \in Goroutines : serving[g] = "send" => local[g] \notin closed

\* As long as its caller has not stopped it, a server that started is served by the
\* goroutine of that Start on the socket and the database of that Start: no goroutine
\* of an earlier Start closes them.
RunningServes ==
    known = "running" =>
        \/ starts \in broken
        \/ /\ listener = starts /\ sockets = {starts}
           /\ handles = {db} \ {0} /\ db \in {0, starts}
           /\ serving[starts] = "enter" \/ (serving[starts] = "accept" /\ local[starts] = starts)

Released ==
    /\ sockets = {} /\ handles = {}
    /\ \A g \in Goroutines : serving[g] \in {"none", "ended"} \/ g \in broken

\* When Stop returns without an error, and when Start fails, the port is free and
\* the database closed, and serve is through, so that the server may be started at once.
StopReleases == known = "stopped" /\ ~BlockingStart => Released

\* Stop ends, also when serve ended before it and sends no message (server.go:168).
StopReturns == stopping # "no" ~> stopping = "no"

\* A blocking server is released as well, some time after Stop.
StopEnds == known = "stopped" ~> Released \/ known # "stopped"

=============================================================================
