------------------------ MODULE ServerLifecycleProofs ------------------------
(***************************************************************************)
(* Proofs about ServerLifecycle, for any number of restarts and of polls.  *)
(***************************************************************************)
EXTENDS ServerLifecycle, TLAPS

\* What is open is what the fields of the server point to, of the last Start.
Resources ==
    /\ listener \in {0, starts} /\ sockets = {listener} \ {0}
    /\ db \in {0, starts} /\ handles = {db} \ {0}
    /\ wait \in {0} \cup 1 .. starts

\* The goroutines of earlier Starts have ended, or wait on a channel of their own
\* because their socket failed and no Stop was there to receive.
Abandoned(g) == serving[g] = "send" /\ local[g] = g /\ g \in broken
Older ==
    /\ \A g \in Goroutines : g < starts => serving[g] \in {"none", "ended"} \/ Abandoned(g)
    /\ \A g \in Goroutines : g > starts => serving[g] = "none" /\ g \notin broken
    /\ \A g \in Goroutines : g \in closed => serving[g] = "ended"
    /\ \A g \in Goroutines : serving[g] = "send" => local[g] = g /\ ~BlockingStart

\* During a call of Start its goroutine does not run yet.
StartingOK ==
    starting # "no" =>
        /\ stopping = "no" /\ known = "unknown"
        /\ starts \in Goroutines /\ serving[starts] = "none" /\ starts \notin broken
        /\ starting = "init" => db = 0
        /\ starting \in {"init", "listen", "cleanup"} => listener = 0
        /\ starting \in {"profile", "serve"} => listener = starts

\* During a call of Stop: the first second is enough for serve to come to its end.
StoppingOK ==
    stopping # "no" =>
        /\ ~BlockingStart /\ listener = 0 /\ starting = "no" /\ known = "unknown"
        /\ wait = starts /\ starts \in Goroutines /\ serving[starts] # "none"
        /\ stopping = "poll" /\ polls > 0 => serving[starts] \in {"send", "ended"}
        /\ stopping = "sleep" => polls > 0
        /\ stopping = "sleep" /\ polls > 1 => serving[starts] = "ended"
        /\ stopping = "timeout" => serving[starts] = "ended"
        /\ stopping = "poll" => polls < Polls

\* The goroutine of the last Start.
CurrentOK ==
    starting = "no" /\ starts \in Goroutines =>
        /\ serving[starts] \in {"none", "send"} => db = 0
        /\ serving[starts] = "ended" => db = 0 \/ stopping # "no"
        /\ serving[starts] \in {"none", "closeDB", "send", "ended"} => listener = 0
        /\ serving[starts] = "enter" => listener = starts \/ stopping # "no"
        /\ serving[starts] = "accept" => local[starts] = starts
        /\ serving[starts] = "closeListener" => listener = 0 \/ starts \in broken
        /\ listener = 0 /\ stopping = "no" /\ ~BlockingStart =>
               serving[starts] \in {"none", "ended"} \/ starts \in broken
        /\ ~BlockingStart => wait = starts \/ serving[starts] \in {"none", "ended"}
        /\ serving[starts] = "none" => starts \notin broken

KnownOK ==
    /\ BlockingStart => wait = 0
    /\ starts = 0 => db = 0 /\ known # "running"
    /\ known # "unknown" => starting = "no" /\ stopping = "no"
    /\ known = "stopped" => listener = 0
    /\ known = "stopped" /\ ~BlockingStart /\ starts \in Goroutines => serving[starts] \in {"none", "ended"}
    /\ known = "running" /\ starts \notin broken =>
           listener = starts /\ serving[starts] \in {"enter", "accept"}

Inv == TypeOK /\ ~panicked /\ Resources /\ Older /\ StartingOK /\ StoppingOK /\ CurrentOK /\ KnownOK

-----------------------------------------------------------------------------
(* Every step keeps the invariant *)

LEMMA StartInv == ASSUME Inv, Start PROVE Inv'
<1> USE ServerLifecycleAssumption DEF Inv, TypeOK, Resources, Older, Abandoned, StartingOK, StoppingOK, CurrentOK, KnownOK,
       mode, open, calls, goroutines, Goroutines, Numbers
<1> USE DEF Start, Idle, Settled, Waits
<1>1. TypeOK' /\ ~panicked'
    OBVIOUS
<1>2. Resources'
    OBVIOUS
<1>3. Older'
    OBVIOUS
<1>4. StartingOK' /\ StoppingOK'
    OBVIOUS
<1>5. CurrentOK' /\ KnownOK'
    OBVIOUS
<1> QED
    BY <1>1, <1>2, <1>3, <1>4, <1>5

LEMMA InitServerInv == ASSUME Inv, InitServer PROVE Inv'
<1> USE ServerLifecycleAssumption DEF Inv, TypeOK, Resources, Older, Abandoned, StartingOK, StoppingOK, CurrentOK, KnownOK,
       mode, open, calls, goroutines, Goroutines, Numbers
<1> USE DEF InitServer
<1>1. TypeOK' /\ ~panicked'
    OBVIOUS
<1>2. Resources'
    OBVIOUS
<1>3. Older'
    OBVIOUS
<1>4. StartingOK' /\ StoppingOK'
    OBVIOUS
<1>5. CurrentOK' /\ KnownOK'
    OBVIOUS
<1> QED
    BY <1>1, <1>2, <1>3, <1>4, <1>5

LEMMA ListenInv == ASSUME Inv, Listen PROVE Inv'
<1> USE ServerLifecycleAssumption DEF Inv, TypeOK, Resources, Older, Abandoned, StartingOK, StoppingOK, CurrentOK, KnownOK,
       mode, open, calls, goroutines, Goroutines, Numbers
<1> USE DEF Listen
<1>1. TypeOK' /\ ~panicked'
    OBVIOUS
<1>2. Resources'
    OBVIOUS
<1>3. Older'
    OBVIOUS
<1>4. StartingOK' /\ StoppingOK'
    OBVIOUS
<1>5. CurrentOK' /\ KnownOK'
    OBVIOUS
<1> QED
    BY <1>1, <1>2, <1>3, <1>4, <1>5

LEMMA CheckAndEnableProfilingInv == ASSUME Inv, CheckAndEnableProfiling PROVE Inv'
<1> USE ServerLifecycleAssumption DEF Inv, TypeOK, Resources, Older, Abandoned, StartingOK, StoppingOK, CurrentOK, KnownOK,
       mode, open, calls, goroutines, Goroutines, Numbers
<1> USE DEF CheckAndEnableProfiling, CloseListener
<1>1. TypeOK' /\ ~panicked'
    OBVIOUS
<1>2. Resources'
    OBVIOUS
<1>3. Older'
    OBVIOUS
<1>4. StartingOK' /\ StoppingOK'
    OBVIOUS
<1>5. CurrentOK' /\ KnownOK'
    OBVIOUS
<1> QED
    BY <1>1, <1>2, <1>3, <1>4, <1>5

LEMMA GoInv == ASSUME Inv, Go PROVE Inv'
<1> USE ServerLifecycleAssumption DEF Inv, TypeOK, Resources, Older, Abandoned, StartingOK, StoppingOK, CurrentOK, KnownOK,
       mode, open, calls, goroutines, Goroutines, Numbers
<1> USE DEF Go, Goes
<1>1. TypeOK' /\ ~panicked'
    OBVIOUS
<1>2. Resources'
    OBVIOUS
<1>3. Older'
    OBVIOUS
<1>4. StartingOK' /\ StoppingOK'
    OBVIOUS
<1>5. CurrentOK' /\ KnownOK'
    OBVIOUS
<1> QED
    BY <1>1, <1>2, <1>3, <1>4, <1>5

LEMMA StartFailsInv == ASSUME Inv, StartFails PROVE Inv'
<1> USE ServerLifecycleAssumption DEF Inv, TypeOK, Resources, Older, Abandoned, StartingOK, StoppingOK, CurrentOK, KnownOK,
       mode, open, calls, goroutines, Goroutines, Numbers
<1> USE DEF StartFails, CloseDB
<1>1. TypeOK' /\ ~panicked'
    OBVIOUS
<1>2. Resources'
    OBVIOUS
<1>3. Older'
    OBVIOUS
<1>4. StartingOK' /\ StoppingOK'
    OBVIOUS
<1>5. CurrentOK' /\ KnownOK'
    OBVIOUS
<1> QED
    BY <1>1, <1>2, <1>3, <1>4, <1>5

LEMMA EnterInv == ASSUME Inv, NEW g \in Goroutines, Enter(g) PROVE Inv'
<1> USE ServerLifecycleAssumption
<1>1. TypeOK' /\ ~panicked'
    <2>1. ~panicked'
        BY Zenon DEF Inv, Enter, NoListener
    <2>2. UNCHANGED <<mode, listener, db, wait, open, calls, closed, broken>>
        BY DEF Enter
    <2>3. serving' \in [Goroutines -> {"none", "enter", "accept", "closeListener", "closeDB", "send", "ended"}]
        BY DEF Inv, TypeOK, Enter, Goes
    <2>4. local' \in [Goroutines -> Numbers]
        BY DEF Inv, TypeOK, Enter
    <2>5. panicked' \in BOOLEAN
        BY Zenon DEF Inv, TypeOK, Enter
    <2> QED
        BY <2>1, <2>2, <2>3, <2>4, <2>5 DEF Inv, TypeOK, mode, open, calls
<1>2. Resources'
    BY DEF Inv, TypeOK, Resources, Older, Abandoned, StartingOK, StoppingOK, CurrentOK, KnownOK, Enter, Goes, NoListener, mode, open, calls, goroutines, Goroutines, Numbers
<1>3. Older'
    BY DEF Inv, TypeOK, Resources, Older, Abandoned, StartingOK, StoppingOK, CurrentOK, KnownOK, Enter, Goes, NoListener, mode, open, calls, goroutines, Goroutines, Numbers
<1>4. StartingOK' /\ StoppingOK'
    BY DEF Inv, TypeOK, Resources, Older, Abandoned, StartingOK, StoppingOK, CurrentOK, KnownOK, Enter, Goes, NoListener, mode, open, calls, goroutines, Goroutines, Numbers
<1>5. CurrentOK' /\ KnownOK'
    BY DEF Inv, TypeOK, Resources, Older, Abandoned, StartingOK, StoppingOK, CurrentOK, KnownOK, Enter, Goes, NoListener, mode, open, calls, goroutines, Goroutines, Numbers
<1> QED
    BY <1>1, <1>2, <1>3, <1>4, <1>5 DEF Inv

LEMMA ServeReturnsInv == ASSUME Inv, NEW g \in Goroutines, ServeReturns(g) PROVE Inv'
<1> USE ServerLifecycleAssumption DEF Inv, TypeOK, Resources, Older, Abandoned, StartingOK, StoppingOK, CurrentOK, KnownOK,
       mode, open, calls, goroutines, Goroutines, Numbers
<1> USE DEF ServeReturns, Returned, Goes
<1>1. TypeOK' /\ ~panicked'
    OBVIOUS
<1>2. Resources'
    OBVIOUS
<1>3. Older'
    OBVIOUS
<1>4. StartingOK' /\ StoppingOK'
    OBVIOUS
<1>5. CurrentOK' /\ KnownOK'
    OBVIOUS
<1> QED
    BY <1>1, <1>2, <1>3, <1>4, <1>5

LEMMA AcceptFailsInv == ASSUME Inv, NEW g \in Goroutines, AcceptFails(g) PROVE Inv'
<1> USE ServerLifecycleAssumption DEF Inv, TypeOK, Resources, Older, Abandoned, StartingOK, StoppingOK, CurrentOK, KnownOK,
       mode, open, calls, goroutines, Goroutines, Numbers
<1> USE DEF AcceptFails, Returned, Goes
<1>1. TypeOK' /\ ~panicked'
    OBVIOUS
<1>2. Resources'
    OBVIOUS
<1>3. Older'
    OBVIOUS
<1>4. StartingOK' /\ StoppingOK'
    OBVIOUS
<1>5. CurrentOK' /\ KnownOK'
    OBVIOUS
<1> QED
    BY <1>1, <1>2, <1>3, <1>4, <1>5

LEMMA RequestInitDBInv == ASSUME Inv, NEW g \in Goroutines, RequestInitDB(g) PROVE Inv'
<1> USE ServerLifecycleAssumption DEF Inv, TypeOK, Resources, Older, Abandoned, StartingOK, StoppingOK, CurrentOK, KnownOK,
       mode, open, calls, goroutines, Goroutines, Numbers
<1> USE DEF RequestInitDB
<1>1. TypeOK' /\ ~panicked'
    OBVIOUS
<1>2. Resources'
    OBVIOUS
<1>3. Older'
    OBVIOUS
<1>4. StartingOK' /\ StoppingOK'
    OBVIOUS
<1>5. CurrentOK' /\ KnownOK'
    OBVIOUS
<1> QED
    BY <1>1, <1>2, <1>3, <1>4, <1>5

LEMMA ServeCloseListenerInv == ASSUME Inv, NEW g \in Goroutines, ServeCloseListener(g) PROVE Inv'
<1> USE ServerLifecycleAssumption
<1>1. TypeOK' /\ ~panicked'
    BY DEF Inv, TypeOK, Resources, Older, Abandoned, StartingOK, StoppingOK, CurrentOK, KnownOK, ServeCloseListener, CloseListener, Goes, mode, open, calls, goroutines, Goroutines, Numbers
<1>2. Resources'
    BY DEF Inv, TypeOK, Resources, Older, Abandoned, StartingOK, StoppingOK, CurrentOK, KnownOK, ServeCloseListener, CloseListener, Goes, mode, open, calls, goroutines, Goroutines, Numbers
<1>3. Older'
    BY DEF Inv, TypeOK, Resources, Older, Abandoned, StartingOK, StoppingOK, CurrentOK, KnownOK, ServeCloseListener, CloseListener, Goes, mode, open, calls, goroutines, Goroutines, Numbers
<1>4. StartingOK' /\ StoppingOK'
    BY DEF Inv, TypeOK, Resources, Older, Abandoned, StartingOK, StoppingOK, CurrentOK, KnownOK, ServeCloseListener, CloseListener, Goes, mode, open, calls, goroutines, Goroutines, Numbers
<1>5. CurrentOK' /\ KnownOK'
    <2>1. g = starts /\ starting = "no"
        BY DEF Inv, TypeOK, Older, Abandoned, StartingOK, ServeCloseListener, Goroutines, Numbers
    <2>2. serving'[starts] = "closeDB" /\ listener' = 0
        BY <2>1 DEF Inv, TypeOK, ServeCloseListener, CloseListener, Goes
    <2>3. stopping = "no" /\ ~BlockingStart => starts \in broken
        BY <2>1 DEF Inv, CurrentOK, ServeCloseListener
    <2>4. CurrentOK'
        BY <2>1, <2>2, <2>3 DEF Inv, CurrentOK, ServeCloseListener, mode, calls
    <2>5. KnownOK'
        BY <2>1, <2>2 DEF Inv, KnownOK, ServeCloseListener, mode, calls
    <2> QED
        BY <2>4, <2>5
<1> QED
    BY <1>1, <1>2, <1>3, <1>4, <1>5 DEF Inv

LEMMA ServeCloseDBInv == ASSUME Inv, NEW g \in Goroutines, ServeCloseDB(g) PROVE Inv'
<1> USE ServerLifecycleAssumption DEF Inv, TypeOK, Resources, Older, Abandoned, StartingOK, StoppingOK, CurrentOK, KnownOK,
       mode, open, calls, goroutines, Goroutines, Numbers
<1> USE DEF ServeCloseDB, ServeCloses, CloseDB, Goes
<1>1. TypeOK' /\ ~panicked'
    OBVIOUS
<1>2. Resources'
    OBVIOUS
<1>3. Older'
    OBVIOUS
<1>4. StartingOK' /\ StoppingOK'
    OBVIOUS
<1>5. CurrentOK' /\ KnownOK'
    OBVIOUS
<1> QED
    BY <1>1, <1>2, <1>3, <1>4, <1>5

LEMMA StopInv == ASSUME Inv, Stop PROVE Inv'
<1> USE ServerLifecycleAssumption DEF Inv, TypeOK, Resources, Older, Abandoned, StartingOK, StoppingOK, CurrentOK, KnownOK,
       mode, open, calls, goroutines, Goroutines, Numbers
<1> USE DEF Stop, Idle, CloseListener
<1>1. TypeOK' /\ ~panicked'
    OBVIOUS
<1>2. Resources'
    OBVIOUS
<1>3. Older'
    OBVIOUS
<1>4. StartingOK' /\ StoppingOK'
    OBVIOUS
<1>5. CurrentOK' /\ KnownOK'
    OBVIOUS
<1> QED
    BY <1>1, <1>2, <1>3, <1>4, <1>5

LEMMA StopErrorInv == ASSUME Inv, StopError PROVE Inv'
<1> USE ServerLifecycleAssumption DEF Inv, TypeOK, Resources, Older, Abandoned, StartingOK, StoppingOK, CurrentOK, KnownOK,
       mode, open, calls, goroutines, Goroutines, Numbers
<1> USE DEF StopError, Idle
<1>1. TypeOK' /\ ~panicked'
    OBVIOUS
<1>2. Resources'
    OBVIOUS
<1>3. Older'
    OBVIOUS
<1>4. StartingOK' /\ StoppingOK'
    OBVIOUS
<1>5. CurrentOK' /\ KnownOK'
    OBVIOUS
<1> QED
    BY <1>1, <1>2, <1>3, <1>4, <1>5

LEMMA ReceiveInv == ASSUME Inv, Receive PROVE Inv'
<1> USE ServerLifecycleAssumption DEF Inv, TypeOK, Resources, Older, Abandoned, StartingOK, StoppingOK, CurrentOK, KnownOK,
       mode, open, calls, goroutines, Goroutines, Numbers
<1> USE DEF Receive, Sends, Goes
<1>1. TypeOK' /\ ~panicked'
    OBVIOUS
<1>2. Resources'
    OBVIOUS
<1>3. Older'
    OBVIOUS
<1>4. StartingOK' /\ StoppingOK'
    OBVIOUS
<1>5. CurrentOK' /\ KnownOK'
    OBVIOUS
<1> QED
    BY <1>1, <1>2, <1>3, <1>4, <1>5

LEMMA MissInv == ASSUME Inv, Miss PROVE Inv'
<1> USE ServerLifecycleAssumption DEF Inv, TypeOK, Resources, Older, Abandoned, StartingOK, StoppingOK, CurrentOK, KnownOK,
       mode, open, calls, goroutines, Goroutines, Numbers
<1> USE DEF Miss, Sends, AfterMiss, Counted
<1>1. TypeOK' /\ ~panicked'
    OBVIOUS
<1>2. Resources'
    OBVIOUS
<1>3. Older'
    OBVIOUS
<1>4. StartingOK' /\ StoppingOK'
    OBVIOUS
<1>5. CurrentOK' /\ KnownOK'
    OBVIOUS
<1> QED
    BY <1>1, <1>2, <1>3, <1>4, <1>5

LEMMA WakeInv == ASSUME Inv, Wake PROVE Inv'
<1> USE ServerLifecycleAssumption DEF Inv, TypeOK, Resources, Older, Abandoned, StartingOK, StoppingOK, CurrentOK, KnownOK,
       mode, open, calls, goroutines, Goroutines, Numbers
<1> USE DEF Wake, Settled, Waits, MayPoll
<1>1. TypeOK' /\ ~panicked'
    OBVIOUS
<1>2. Resources'
    OBVIOUS
<1>3. Older'
    OBVIOUS
<1>4. StartingOK' /\ StoppingOK'
    OBVIOUS
<1>5. CurrentOK' /\ KnownOK'
    OBVIOUS
<1> QED
    BY <1>1, <1>2, <1>3, <1>4, <1>5

LEMMA TimedOutInv == ASSUME Inv, TimedOut PROVE Inv'
<1> USE ServerLifecycleAssumption DEF Inv, TypeOK, Resources, Older, Abandoned, StartingOK, StoppingOK, CurrentOK, KnownOK,
       mode, open, calls, goroutines, Goroutines, Numbers
<1> USE DEF TimedOut, StopCloses, CloseDB
<1>1. TypeOK' /\ ~panicked'
    OBVIOUS
<1>2. Resources'
    OBVIOUS
<1>3. Older'
    OBVIOUS
<1>4. StartingOK' /\ StoppingOK'
    OBVIOUS
<1>5. CurrentOK' /\ KnownOK'
    OBVIOUS
<1> QED
    BY <1>1, <1>2, <1>3, <1>4, <1>5

-----------------------------------------------------------------------------
(* The theorems *)

LEMMA InitInv == ASSUME Init PROVE Inv
<1> USE ServerLifecycleAssumption
<1>1. TypeOK /\ ~panicked
    <2>1. 0 \in Numbers /\ 0 \in 0 .. Polls
        BY DEF Numbers
    <2>2. ~panicked /\ panicked \in BOOLEAN /\ profilePort \in BOOLEAN
        BY Zenon DEF Init
    <2>3. BlockingStart \in BOOLEAN /\ profiling \in BOOLEAN
        BY Zenon DEF Init
    <2> QED
        BY <2>1, <2>2, <2>3 DEF Init, TypeOK
<1>2. Resources /\ Older /\ StartingOK /\ StoppingOK
    BY DEF Init, Resources, Older, StartingOK, StoppingOK, Goroutines
<1>3. CurrentOK /\ KnownOK
    BY DEF Init, CurrentOK, KnownOK, Goroutines
<1> QED
    BY <1>1, <1>2, <1>3 DEF Inv

LEMMA NextInv == ASSUME Inv, [Next]_vars PROVE Inv'
<1>1. CASE Start \/ Starting
    BY <1>1, StartInv, InitServerInv, ListenInv, CheckAndEnableProfilingInv, GoInv, StartFailsInv
    DEF Starting
<1>2. CASE Stop \/ StopError \/ Stopping
    BY <1>2, StopInv, StopErrorInv, ReceiveInv, MissInv, WakeInv, TimedOutInv DEF Stopping
<1>3. CASE \E g \in Goroutines : Serve(g) \/ AcceptFails(g) \/ RequestInitDB(g)
    BY <1>3, EnterInv, ServeReturnsInv, AcceptFailsInv, RequestInitDBInv, ServeCloseListenerInv,
       ServeCloseDBInv
    DEF Serve
<1>4. CASE UNCHANGED vars
    BY <1>4 DEF vars, mode, open, calls, goroutines, Inv, TypeOK, Resources, Older, Abandoned,
           StartingOK, StoppingOK, CurrentOK, KnownOK
<1> QED
    BY <1>1, <1>2, <1>3, <1>4 DEF Next

\* Inv holds in every reachable state: what each call of Start and Stop, and each
\* goroutine in serve, may rely on at its next step.
THEOREM Invariance == Spec => []Inv
<1>1. Init => Inv
    BY InitInv
<1>2. Inv /\ [Next]_vars => Inv'
    BY NextInv
<1> QED
    BY <1>1, <1>2, PTL DEF Spec

\* Fields, goroutines and observers keep their types; Stop looks for the message of
\* serve as often as its loop says, and no more.
THEOREM TypeCorrect == Spec => []TypeOK
<1>1. Inv => TypeOK
    BY DEF Inv
<1> QED
    BY <1>1, Invariance, PTL

\* For any number of restarts, serve never runs without a listener and never sends to
\* a channel that Stop has closed.
THEOREM Quiet == Spec => []NoPanic
<1>1. Inv => NoPanic
    BY DEF Inv, Older, NoPanic
<1> QED
    BY <1>1, Invariance, PTL

\* No goroutine left over from an earlier Start closes the socket or the database of
\* a server its caller has not stopped.
THEOREM Serving == Spec => []RunningServes
<1>1. Inv => RunningServes
    <2> SUFFICES ASSUME Inv, known = "running", starts \notin broken
                 PROVE  /\ listener = starts /\ sockets = {starts}
                        /\ handles = {db} \ {0} /\ db \in {0, starts}
                        /\ serving[starts] = "enter" \/ (serving[starts] = "accept" /\ local[starts] = starts)
        BY DEF RunningServes
    <2>1. starts \in Goroutines /\ starting = "no"
        BY ServerLifecycleAssumption DEF Inv, TypeOK, KnownOK, Goroutines, Numbers
    <2>2. listener = starts /\ serving[starts] \in {"enter", "accept"} /\ starts # 0
        BY <2>1 DEF Inv, KnownOK
    <2> QED
        BY <2>1, <2>2 DEF Inv, Resources, CurrentOK
<1> QED
    BY <1>1, Invariance, PTL

\* A Stop without an error, and a Start that failed, leave nothing open behind and no
\* goroutine in serve that could still close something.
THEOREM Releasing == Spec => []StopReleases
<1>1. Inv => StopReleases
    <2> SUFFICES ASSUME Inv, known = "stopped", ~BlockingStart
                 PROVE  Released
        BY DEF StopReleases
    <2>1. starting = "no" /\ stopping = "no" /\ listener = 0
        BY DEF Inv, KnownOK
    <2>2. db = 0
        <3>1. CASE starts = 0
            BY <3>1 DEF Inv, KnownOK
        <3>2. CASE starts # 0
            <4>1. starts \in Goroutines
                BY <3>2, ServerLifecycleAssumption DEF Inv, TypeOK, Goroutines, Numbers
            <4> QED
                BY <4>1, <2>1 DEF Inv, KnownOK, CurrentOK
        <3> QED
            BY <3>1, <3>2
    <2>3. sockets = {} /\ handles = {}
        BY <2>1, <2>2 DEF Inv, Resources
    <2>4. \A g \in Goroutines : serving[g] \in {"none", "ended"} \/ g \in broken
        <3> SUFFICES ASSUME NEW g \in Goroutines
                     PROVE  serving[g] \in {"none", "ended"} \/ g \in broken
            OBVIOUS
        <3>1. g < starts \/ g = starts \/ g > starts
            BY ServerLifecycleAssumption DEF Inv, TypeOK, Goroutines, Numbers
        <3> QED
            BY <3>1 DEF Inv, Older, Abandoned, KnownOK
    <2> QED
        BY <2>3, <2>4 DEF Released
<1> QED
    BY <1>1, Invariance, PTL

=============================================================================
