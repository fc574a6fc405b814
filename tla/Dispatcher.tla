----------------------------- MODULE Dispatcher -----------------------------
(***************************************************************************)
(* The dispatcher (internal/broker/dispatcher.go) with the RPC server      *)
(* around it (internal/broker/server.go): worker streams with their slots  *)
(* and hand-over channels, the one loop that reclaims and hands out leases, *)
(* and the Ack and Nack handlers, which call the store and, some time      *)
(* later, release the slot.                                                *)
(*                                                                         *)
(* The store appears by what its operations decide at once under s.mu; the *)
(* wait for the flush is the time a call spends in `calls'.  Leases are    *)
(* numbered by their fencing token.  There is one queue.  A response that  *)
(* is in stream.Send counts as delivered, and the channel of a stream whose *)
(* context is done, which nobody reads any more, as empty.                 *)
(***************************************************************************)
EXTENDS Integers, Sequences, FiniteSets

CONSTANTS
    Jobs,
    None,
    MaxRetries,     \* per job: its retry budget
    MaxInFlight,    \* jobs a worker asked to have at once
    MaxStreams,     \* bound: Lease streams ever opened
    MaxEvents       \* bound: submissions, connections, disconnections, faults and signals

\* The streams by their id: nextID counts up.
Streams == 1..MaxStreams

ASSUME DispatcherNone == None \notin Jobs \cup Streams
ASSUME MaxRetriesAssumption == MaxRetries \in [Jobs -> Nat]
ASSUME MaxInFlightAssumption == MaxInFlight \in Nat \ {0}
ASSUME DispatcherBounds == {MaxStreams, MaxEvents} \subseteq Nat

VARIABLES
    job,        \* per job: [state, attempt, epoch, expiry]
    leases,     \* leases[e]: the job and the stream token e was issued for
    failed,     \* the store is poisoned, or its log takes no more records
    conn,       \* per stream: "new", "open", "silent" (its worker is dead, which
                \* the broker cannot know), "hungup" (ctx is done), "gone"
    inFlight,   \* per stream: slots in use
    ch,         \* per stream: the hand-over channel
    owner,      \* jobOwner
    calls,      \* tokens whose Ack or Nack waits for its flush, then releases
    loop,       \* the Run goroutine
    stopping,   \* the process was told to stop
    overtaken   \* history: a job was handed out while its last call was still in `calls'

storeVars  == <<job, leases, failed>>
streamVars == <<conn, inFlight, ch, owner>>
dispVars   == <<storeVars, streamVars, calls, loop, stopping, overtaken>>

Tokens == DOMAIN leases

\* holdsLease for the job and the token of a lease that was issued.
Current(e) == job[leases[e].job].state = "Leased" /\ job[leases[e].job].epoch = e

\* The streams register has added and unregister has not yet removed.
Registered == {s \in Streams : conn[s] \in {"open", "silent", "hungup"}}

CtxDone(s) == conn[s] \in {"hungup", "gone"}

\* There may be one more event from outside.
MayHappen ==
      Cardinality({j \in Jobs : job[j].state # "Absent"})
    + Cardinality({s \in Streams : conn[s] # "new"})
    + Cardinality({s \in Streams : conn[s] \notin {"new", "open"}})
    + Cardinality({b \in {<<1, failed>>, <<2, stopping>>} : b[2]}) < MaxEvents

-----------------------------------------------------------------------------
(* The store, and the clock it reads *)

\* Eligible now, or after a delay.
Submit(j) ==
    /\ MayHappen
    /\ ~failed
    /\ job[j].state = "Absent"
    /\ \E st \in {"Ready", "Waiting"} : job' = [job EXCEPT ![j].state = st]
    /\ UNCHANGED <<leases, failed, streamVars, calls, loop, stopping, overtaken>>

\* failLocked, for a Nack and for an expired lease alike.
Failed(j) ==
    [job[j] EXCEPT !.state = IF job[j].attempt > MaxRetries[j] THEN "DeadLetter" ELSE "Waiting",
                   !.expiry = "none"]

\* EligibleAt arrives.
BackoffElapses(j) ==
    /\ job[j].state = "Waiting"
    /\ job' = [job EXCEPT ![j].state = "Ready"]
    /\ UNCHANGED <<leases, failed, streamVars, calls, loop, stopping, overtaken>>

\* LeaseExpiresAt passes, the one of the lease or the one of a heartbeat.
ExpiryPasses(j) ==
    /\ job[j].expiry \in {"first", "renewed"}
    /\ job' = [job EXCEPT ![j].expiry = "passed"]
    /\ UNCHANGED <<leases, failed, streamVars, calls, loop, stopping, overtaken>>

\* commitDurable: some flush fails, and the store refuses every later write; or a
\* rotation loses the log's file, and every append fails.
FlushFails ==
    /\ MayHappen
    /\ ~failed
    /\ failed' = TRUE
    /\ UNCHANGED <<job, leases, streamVars, calls, loop, stopping, overtaken>>

-----------------------------------------------------------------------------
(* Slots *)

\* release, for each of js: the slot of the stream that owns the job is freed.
Release(js) ==
    /\ owner' = [j \in Jobs |-> IF j \in js THEN None ELSE owner[j]]
    /\ inFlight' = [s \in Streams |->
           LET n == Cardinality({j \in js : owner[j] = s})
           IN IF inFlight[s] > n THEN inFlight[s] - n ELSE 0]
    /\ UNCHANGED <<conn, ch>>

-----------------------------------------------------------------------------
(* Run *)

\* Mutant: only leases of streams still registered are taken back.
LoopReclaimOwned ==
    /\ loop.pc = "sleep"
    /\ LET due == {j \in Jobs : ~failed /\ job[j].expiry = "passed" /\ owner[j] # None}
       IN \E ids \in SUBSET due :
            /\ due # {} => ids # {}
            /\ job' = [j \in Jobs |-> IF j \in ids THEN Failed(j) ELSE job[j]]
            /\ loop' = [loop EXCEPT !.pc = "release", !.ids = ids]
    /\ UNCHANGED <<leases, failed, streamVars, calls, stopping, overtaken>>

\* The tick, a deadline, a submission, a completion or a release wakes the
\* loop, and ReclaimExpired fails the expired leases in one sweep, which ends
\* early when the log refuses a record.  One that ends at its first record does
\* nothing, like one that came before the expiry.
LoopReclaim ==
    /\ loop.pc = "sleep"
    /\ LET due == {j \in Jobs : ~failed /\ job[j].expiry = "passed"}
       IN \E ids \in SUBSET due :
            /\ due # {} => ids # {}
            /\ job' = [j \in Jobs |-> IF j \in ids THEN Failed(j) ELSE job[j]]
            /\ loop' = [loop EXCEPT !.pc = "release", !.ids = ids]
    /\ UNCHANGED <<leases, failed, streamVars, calls, stopping, overtaken>>

\* Mutant: the slots of reclaimed leases are not released.
LoopReleaseForgets ==
    /\ loop.pc = "release"
    /\ loop' = [pc |-> IF Registered = {} THEN "sleep" ELSE "scan", ids |-> {},
                seen |-> Registered, todo |-> Registered, placed |-> FALSE]
    /\ UNCHANGED <<storeVars, streamVars, calls, stopping, overtaken>>

\* reclaimExpired releases what the sweep took back, even when its flush
\* failed; dispatch takes down the streams it will visit.
LoopRelease ==
    /\ loop.pc = "release"
    /\ Release(loop.ids)
    /\ loop' = [pc |-> IF Registered = {} THEN "sleep" ELSE "scan", ids |-> {},
                seen |-> Registered, todo |-> Registered, placed |-> FALSE]
    /\ UNCHANGED <<storeVars, calls, stopping, overtaken>>

\* Mutant: dispatch returns at the first stream it can give nothing.
LoopSkipReturns(s) ==
    /\ loop.pc = "scan"
    /\ s \in loop.todo
    /\ \/ CtxDone(s)
       \/ inFlight[s] >= MaxInFlight
       \/ failed
       \/ \A j \in Jobs : job[j].state # "Ready"
    /\ loop' = [loop EXCEPT !.todo = {}]
    /\ UNCHANGED <<storeVars, streamVars, calls, stopping, overtaken>>

\* The stream is closed or full, or the store refuses or has nothing for it.
LoopSkip(s) ==
    /\ loop.pc = "scan"
    /\ s \in loop.todo
    /\ \/ CtxDone(s)
       \/ inFlight[s] >= MaxInFlight
       \/ failed
       \/ \A j \in Jobs : job[j].state # "Ready"
    /\ loop' = [loop EXCEPT !.todo = @ \ {s}]
    /\ UNCHANGED <<storeVars, streamVars, calls, stopping, overtaken>>

\* Mutant: a stream at its limit still has room.
LoopLeaseOneMore(s, j) ==
    /\ loop.pc = "scan"
    /\ s \in loop.todo
    /\ ~CtxDone(s)
    /\ inFlight[s] <= MaxInFlight
    /\ ~failed
    /\ job[j].state = "Ready"
    /\ leases' = Append(leases, [job |-> j, stream |-> s])
    /\ job' = [job EXCEPT ![j] = [state |-> "Leased", attempt |-> @.attempt + 1,
                                  epoch |-> Len(leases) + 1, expiry |-> "first"]]
    /\ loop' = [loop EXCEPT !.pc = "own", !.todo = @ \ {s}]
    /\ UNCHANGED <<failed, streamVars, calls, stopping, overtaken>>

LoopLease(s, j) ==
    /\ loop.pc = "scan"
    /\ s \in loop.todo
    /\ ~CtxDone(s)
    /\ inFlight[s] < MaxInFlight
    /\ ~failed
    /\ job[j].state = "Ready"
    /\ leases' = Append(leases, [job |-> j, stream |-> s])
    /\ job' = [job EXCEPT ![j] = [state |-> "Leased", attempt |-> @.attempt + 1,
                                  epoch |-> Len(leases) + 1, expiry |-> "first"]]
    /\ loop' = [loop EXCEPT !.pc = "own", !.todo = @ \ {s}]
    /\ UNCHANGED <<failed, streamVars, calls, stopping, overtaken>>

\* The lease in the loop's hands.
Held == Len(leases)

\* The slot is taken and the job recorded as the stream's.
LoopOwn ==
    /\ loop.pc = "own"
    /\ LET l == leases[Held]
       IN /\ inFlight' = [inFlight EXCEPT ![l.stream] = @ + 1]
          /\ owner' = [owner EXCEPT ![l.job] = l.stream]
          /\ overtaken' = (overtaken \/ \E e \in calls : leases[e].job = l.job)
    /\ loop' = [loop EXCEPT !.pc = "send"]
    /\ UNCHANGED <<storeVars, conn, ch, calls, stopping>>

\* Mutant: the channel has no bound.
LoopSendUnbounded ==
    /\ loop.pc = "send"
    /\ LET s == leases[Held].stream
       IN ch' = IF CtxDone(s) THEN ch ELSE [ch EXCEPT ![s] = Append(@, Held)]
    /\ loop' = [loop EXCEPT !.pc = "scan", !.placed = TRUE]
    /\ UNCHANGED <<storeVars, conn, inFlight, owner, calls, stopping, overtaken>>

\* The channel takes the job, or the worker is gone and the lease is left alone.
LoopSend ==
    /\ loop.pc = "send"
    /\ LET s == leases[Held].stream
       IN \/ /\ Len(ch[s]) < MaxInFlight
             /\ ch' = IF CtxDone(s) THEN ch ELSE [ch EXCEPT ![s] = Append(@, Held)]
             /\ loop' = [loop EXCEPT !.pc = "scan", !.placed = TRUE]
          \/ /\ CtxDone(s)
             /\ loop' = [loop EXCEPT !.pc = "scan"]
             /\ UNCHANGED ch
    /\ UNCHANGED <<storeVars, conn, inFlight, owner, calls, stopping, overtaken>>

\* Mutant: `placed' is not reset between passes.
LoopEndPassKeepsPlaced ==
    /\ loop.pc = "scan"
    /\ loop.todo = {}
    /\ loop' = IF loop.placed THEN [loop EXCEPT !.todo = loop.seen]
                              ELSE [loop EXCEPT !.pc = "sleep", !.seen = {}]
    /\ UNCHANGED <<storeVars, streamVars, calls, stopping, overtaken>>

\* Another pass if something was placed, otherwise the loop waits.
LoopEndPass ==
    /\ loop.pc = "scan"
    /\ loop.todo = {}
    /\ loop' = IF loop.placed THEN [loop EXCEPT !.todo = loop.seen, !.placed = FALSE]
                              ELSE [loop EXCEPT !.pc = "sleep", !.seen = {}]
    /\ UNCHANGED <<storeVars, streamVars, calls, stopping, overtaken>>

\* ctx is done; the select may also pick another case that is ready.
LoopExit ==
    /\ loop.pc = "sleep"
    /\ stopping
    /\ loop' = [loop EXCEPT !.pc = "exit"]
    /\ UNCHANGED <<storeVars, streamVars, calls, stopping, overtaken>>

-----------------------------------------------------------------------------
(* Server.Lease: one handler per stream *)

Register(s) ==
    /\ MayHappen
    /\ conn[s] = "new" /\ \A t \in Streams : t < s => conn[t] # "new"
    /\ conn' = [conn EXCEPT ![s] = "open"]
    /\ UNCHANGED <<storeVars, inFlight, ch, owner, calls, loop, stopping, overtaken>>

\* The handler takes a job from the channel and sends it.
StreamSend(s) ==
    /\ conn[s] \in {"open", "silent"}
    /\ ch[s] # <<>>
    /\ ch' = [ch EXCEPT ![s] = Tail(@)]
    /\ UNCHANGED <<storeVars, conn, inFlight, owner, calls, loop, stopping, overtaken>>

\* The connection breaks or is closed.
HangUp(s) ==
    /\ conn[s] = "silent" \/ (conn[s] = "open" /\ MayHappen)
    /\ conn' = [conn EXCEPT ![s] = "hungup"]
    /\ ch' = [ch EXCEPT ![s] = <<>>]
    /\ UNCHANGED <<storeVars, inFlight, owner, calls, loop, stopping, overtaken>>

\* ctx is done, in the select or in Send: unregister forgets the stream and
\* what it owned, and leaves its leases to expire.
Unregister(s) ==
    /\ conn[s] = "hungup"
    /\ conn' = [conn EXCEPT ![s] = "gone"]
    /\ owner' = [j \in Jobs |-> IF owner[j] = s THEN None ELSE owner[j]]
    /\ UNCHANGED <<storeVars, inFlight, ch, calls, loop, stopping, overtaken>>

-----------------------------------------------------------------------------
(* Server.Ack, Server.Nack, Server.Heartbeat *)

\* Mutant: the handler releases the slot although the caller was fenced.
SettleReleasesFenced(e, r) ==
    /\ job' = IF Current(e) /\ ~failed THEN [job EXCEPT ![leases[e].job] = r] ELSE job
    /\ calls' = calls \cup {e}
    /\ UNCHANGED <<leases, failed, streamVars, loop, stopping, overtaken>>

\* The store settles the lease, or refuses: the caller is fenced or the store
\* is poisoned, and the handler returns without a release.
Settle(e, r) ==
    /\ IF Current(e) /\ ~failed
       THEN /\ job' = [job EXCEPT ![leases[e].job] = r]
            /\ calls' = calls \cup {e}
       ELSE UNCHANGED <<job, calls>>
    /\ UNCHANGED <<leases, failed, streamVars, loop, stopping, overtaken>>

Ack(e) == Settle(e, [job[leases[e].job] EXCEPT !.state = "Done", !.expiry = "none"])

Nack(e) == Settle(e, Failed(leases[e].job))

\* The flush is over and the handler releases the slot.
CallReleases(e) ==
    /\ e \in calls
    /\ calls' = calls \ {e}
    /\ Release({leases[e].job})
    /\ UNCHANGED <<storeVars, loop, stopping, overtaken>>

\* The flush has failed: the handler returns an error, without a release.
CallFails(e) ==
    /\ e \in calls
    /\ failed
    /\ calls' = calls \ {e}
    /\ UNCHANGED <<storeVars, streamVars, loop, stopping, overtaken>>

\* Heartbeat looks neither at the expiry nor at s.failed.
Heartbeat(e) ==
    /\ Current(e)
    /\ job' = [job EXCEPT ![leases[e].job].expiry = "renewed"]
    /\ UNCHANGED <<leases, failed>>

\* runBroker gets a signal.
Stop ==
    /\ MayHappen
    /\ ~stopping
    /\ stopping' = TRUE
    /\ UNCHANGED <<storeVars, streamVars, calls, loop, overtaken>>

=============================================================================
