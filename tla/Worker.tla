------------------------------- MODULE Worker -------------------------------
(***************************************************************************)
(* The worker pool (internal/worker/pool.go) at the other end of the       *)
(* dispatcher's streams: one pool per stream, one execution per lease that *)
(* arrives, each with a handler, a heartbeat goroutine and a deadline, and *)
(* one report when the handler has returned.  The way of the report to the *)
(* broker counts as part of the execution, so reports may be late, overtake *)
(* one another or never arrive.                                            *)
(***************************************************************************)
EXTENDS Dispatcher

CONSTANTS
    Milli,          \* a millisecond, in units of time.Duration
    Second,         \* also the shortest lease
    DefaultLease,
    MaxLease

ASSUME LeaseAssumption ==
    /\ {Milli, Second, DefaultLease, MaxLease} \subseteq Nat \ {0}
    /\ Second % Milli = 0 /\ Milli < Second
    /\ Second < DefaultLease /\ DefaultLease <= MaxLease

VARIABLES
    running,    \* tokens being executed or on report
    cancelled   \* of those, the ones whose jobCtx was cancelled before they were done

workVars == <<running, cancelled>>
vars == <<dispVars, workVars>>

WorkerOf(e) == leases[e].stream

\* The lease a pool configured with d goes by ...
PoolLease(d) == IF d <= 0 THEN DefaultLease ELSE d

\* ... and what it asks for, in its request and in every heartbeat: that many
\* whole milliseconds.
AskedMillis(d) == PoolLease(d) \div Milli

\* clampLease.
ClampLease(d) ==
    IF d <= 0 THEN DefaultLease
    ELSE IF d < Second THEN Second
    ELSE IF d > MaxLease THEN MaxLease
    ELSE d

\* The lease the broker gives to that pool.
GivenLease(d) == ClampLease(AskedMillis(d) * Milli)

\* Mutant: the lease is renewed once in its life time.
HeartbeatIntervalWhole(d) == IF d < Second THEN Second ELSE d

\* How long heartbeat waits before each renewal: it goes by the pool's own d.
HeartbeatInterval(d) == IF d \div 3 < Second THEN Second ELSE d \div 3

Of(s) == {e \in running : WorkerOf(e) = s}

-----------------------------------------------------------------------------

\* Run opens the stream.
Connect(s) == Register(s) /\ UNCHANGED workVars

\* stream.Receive: every response starts an execution, if the process lives.
Receive(s) ==
    /\ StreamSend(s)
    /\ running' = IF conn[s] = "open" THEN running \cup {Head(ch[s])} ELSE running
    /\ UNCHANGED cancelled

\* The stream breaks; what is running goes on.
StreamBreaks(s) == HangUp(s) /\ UNCHANGED workVars

\* jobCtx has the expiry the lease was issued with as its deadline, whatever
\* became of the lease since.
Deadline(e) ==
    /\ e \in running \ cancelled
    /\ Current(e) => job[leases[e].job].expiry # "first"
    /\ cancelled' = cancelled \cup {e}
    /\ UNCHANGED <<dispVars, running>>

\* heartbeat: the lease is renewed, or the broker refuses and the job is aborted.
Beat(e) ==
    /\ e \in running \ cancelled
    /\ \/ Heartbeat(e) /\ UNCHANGED workVars
       \/ /\ ~Current(e)
          /\ cancelled' = cancelled \cup {e}
          /\ UNCHANGED <<storeVars, running>>
    /\ UNCHANGED <<streamVars, calls, loop, stopping, overtaken>>

\* execute is over.
Finished(e) ==
    /\ e \in running
    /\ running' = running \ {e}
    /\ cancelled' = cancelled \ {e}

\* The handler returns nil and the Ack reaches the broker.
HandlerSucceeds(e) == Finished(e) /\ Ack(e)

\* The handler returns an error, its own or that of its context, and the Nack
\* reaches the broker.
HandlerFails(e) == Finished(e) /\ Nack(e)

\* The report does not arrive within reportTimeout; the worker only logs that.
ReportLost(e) == Finished(e) /\ UNCHANGED dispVars

\* The worker is told to stop: its context ends the stream and every jobCtx,
\* and Run waits for the executions to report.
WorkerStops(s) ==
    /\ conn[s] = "open"
    /\ HangUp(s)
    /\ cancelled' = cancelled \cup Of(s)
    /\ UNCHANGED running

\* kill -9: the executions are gone and the broker is told nothing.
WorkerDies(s) ==
    /\ MayHappen
    /\ conn[s] = "open"
    /\ conn' = [conn EXCEPT ![s] = "silent"]
    /\ running' = running \ Of(s)
    /\ cancelled' = cancelled \ Of(s)
    /\ UNCHANGED <<storeVars, inFlight, ch, owner, calls, loop, stopping, overtaken>>

-----------------------------------------------------------------------------

Init ==
    /\ job = [j \in Jobs |-> [state |-> "Absent", attempt |-> 0, epoch |-> 0,
                              expiry |-> "none"]]
    /\ leases = <<>>
    /\ failed = FALSE
    /\ conn = [s \in Streams |-> "new"]
    /\ inFlight = [s \in Streams |-> 0]
    /\ ch = [s \in Streams |-> <<>>]
    /\ owner = [j \in Jobs |-> None]
    /\ calls = {}
    /\ loop = [pc |-> "release", ids |-> {}, seen |-> {}, todo |-> {}, placed |-> FALSE]
    /\ stopping = FALSE
    /\ overtaken = FALSE
    /\ running = {} /\ cancelled = {}

LoopStep ==
    /\ \/ LoopReclaim \/ LoopRelease \/ LoopOwn \/ LoopSend \/ LoopEndPass
       \/ \E s \in Streams : LoopSkip(s) \/ \E j \in Jobs : LoopLease(s, j)
    /\ UNCHANGED workVars

StreamStep(s) == Receive(s) \/ (Unregister(s) /\ UNCHANGED workVars)

ClockStep(j) == (BackoffElapses(j) \/ ExpiryPasses(j)) /\ UNCHANGED workVars

\* Once the loop has ended the process does, and nothing is followed further.
Next ==
    \/ /\ loop.pc # "exit"
       /\ \/ LoopStep
          \/ (LoopExit \/ Stop \/ FlushFails) /\ UNCHANGED workVars
          \/ \E j \in Jobs : (Submit(j) /\ UNCHANGED workVars) \/ ClockStep(j)
          \/ \E s \in Streams : \/ Connect(s) \/ StreamStep(s) \/ StreamBreaks(s)
                                \/ WorkerStops(s) \/ WorkerDies(s)
          \/ \E e \in running : \/ HandlerSucceeds(e) \/ HandlerFails(e) \/ ReportLost(e)
                                \/ Deadline(e) \/ Beat(e)
          \/ \E e \in calls : (CallReleases(e) \/ CallFails(e)) /\ UNCHANGED workVars
    \/ loop.pc = "exit" /\ UNCHANGED vars

Spec == Init /\ [][Next]_vars

\* The loop runs, and its select sooner or later takes a case that stays
\* ready; clocks advance; a stream's Send ends, and a broken stream is noticed.
Fairness ==
    /\ WF_vars(LoopStep)
    /\ SF_vars(LoopExit /\ UNCHANGED workVars)
    /\ \A s \in Streams : WF_vars(StreamStep(s))
    /\ \A j \in Jobs : WF_vars(ClockStep(j))

FairSpec == Spec /\ Fairness

-----------------------------------------------------------------------------
(* Properties *)

\* The shape of the state.
TypeOK ==
    /\ job \in [Jobs -> [state : {"Absent", "Ready", "Waiting", "Leased", "Done", "DeadLetter"},
                         attempt : Nat, epoch : 0..Len(leases),
                         expiry : {"none", "first", "renewed", "passed"}]]
    /\ \A j \in Jobs : job[j].attempt <= MaxRetries[j] + 1
    /\ \A j \in Jobs : job[j].state = "Leased" <=> job[j].expiry # "none"
    /\ leases \in Seq([job : Jobs, stream : Streams])
    /\ calls \cup running \subseteq Tokens
    /\ cancelled \subseteq running
    /\ {failed, stopping, overtaken} \subseteq BOOLEAN
    /\ conn \in [Streams -> {"new", "open", "silent", "hungup", "gone"}]
    /\ inFlight \in [Streams -> 0..MaxInFlight]
    /\ ch \in [Streams -> Seq(Tokens)]
    /\ \A s \in Streams : Len(ch[s]) <= MaxInFlight
    /\ owner \in [Jobs -> Streams \cup {None}]
    /\ loop \in [pc : {"release", "scan", "own", "send", "sleep", "exit"},
                 ids : SUBSET Jobs, seen : SUBSET Streams, todo : SUBSET Streams,
                 placed : BOOLEAN]

\* A worker never holds more valid leases than it asked for, unless a job was
\* handed out again before the slot of its last delivery was released.
CapacityKept ==
    ~overtaken => \A s \in Streams : ~CtxDone(s) =>
        Cardinality({e \in Tokens : WorkerOf(e) = s /\ Current(e)}) <= MaxInFlight

\* Some call of the server or the loop is about to release job j.
ReleaseDue(j) == j \in loop.ids \/ \E e \in calls : leases[e].job = j

\* Under the same condition the slots of a connected worker are exactly the
\* jobs recorded as its own, and each of those is on lease to it or about to be
\* released: no slot is lost, whichever of Ack, Nack, expiry and disconnection
\* ends a lease.
SlotsExact ==
    ~overtaken /\ ~failed => \A s \in Streams : ~CtxDone(s) =>
        /\ inFlight[s] = Cardinality({j \in Jobs : owner[j] = s})
        /\ \A j \in Jobs : owner[j] = s =>
              \/ job[j].state = "Leased" /\ WorkerOf(job[j].epoch) = s
              \/ ReleaseDue(j)

\* The loop waits for a connected worker's channel only when the channel holds
\* a lease that is over, or an overtaking release has freed a slot in use.
BlocksOnlyBehindStale ==
    LET s == WorkerOf(Held)
    IN loop.pc = "send" /\ ~CtxDone(s) /\ Len(ch[s]) = MaxInFlight =>
         overtaken \/ \E i \in DOMAIN ch[s] : ~Current(ch[s][i])

Room == \E s \in Streams : conn[s] = "open" /\ inFlight[s] < MaxInFlight

\* A job that is ready does not wait for ever while some connected worker has
\* room, although the loop may block on the channel of another worker.
ReadyJobsLeased ==
    \A j \in Jobs : job[j].state = "Ready" ~> job[j].state # "Ready" \/ ~Room \/ failed \/ stopping

\* Nobody is executing the lease of job j, or will be.
Abandoned(j) ==
    LET e == job[j].epoch
    IN /\ job[j].state = "Leased"
       /\ e \notin running
       /\ \A s \in Streams : \A i \in DOMAIN ch[s] : ch[s][i] # e
       /\ ~(loop.pc \in {"own", "send"} /\ e = Held)

\* A job whose worker was killed, whose stream broke on the way or whose report
\* was lost comes back: its lease expires and the loop gets to reclaim it.
AbandonedJobsComeBack ==
    \A j \in Jobs : Abandoned(j) ~> (job[j].state # "Leased" \/ failed \/ stopping)

\* The loop ends after the process was told to stop, so that the broker can.
ShutdownEnds == stopping ~> loop.pc = "exit"

\* The lease of a pool configured with d lasts until a heartbeat can be due.
RenewedInTime(d) == HeartbeatInterval(PoolLease(d)) < GivenLease(d)

\* The pool's lease is a second and a whole millisecond or more, and less than
\* three times the most the broker gives; or it is below a millisecond, which
\* asks for 0 ms and is given the default.
Renewable(d) ==
    LET own == PoolLease(d)
    IN own < 3 * MaxLease /\ (own < Milli \/ own >= Second + Milli)

\* With these lengths, and with no others, a connected worker's heartbeat is due
\* before the lease the broker has given it ends.
RenewsInTime ==
    \A s \in Streams : conn[s] = "open" =>
        {d \in -1..(3 * MaxLease + 1) : RenewedInTime(d)} = {d \in -1..(3 * MaxLease + 1) : Renewable(d)}

-----------------------------------------------------------------------------
(* What the code does not guarantee *)

\* A handler is not stopped while the broker keeps its lease, renewed and not
\* expired, and the worker's stream is open.
RenewedWorkContinues ==
    \A e \in cancelled :
        Current(e) /\ job[leases[e].job].expiry = "renewed" => conn[WorkerOf(e)] # "open"

=============================================================================
