--------------------------- MODULE ScheduleIndex ----------------------------
(***************************************************************************)
(* The schedule index (internal/broker/index.go) as the store and the      *)
(* dispatch loop use it, over integer time: per queue a heap of jobs that  *)
(* can run and a heap of jobs that wait, both holding copies of a job's    *)
(* key, and the authoritative jobs the copies are compared with.           *)
(*                                                                         *)
(* A heap is the bag of its entries: what its order decides is which entry *)
(* comes out first, and both orders are total.  Workers of the queues in   *)
(* Served always have room, nobody serves the others.                      *)
(*                                                                         *)
(* Every stored time is time.Now().UTC(), which has no monotonic reading:  *)
(* times are compared by the wall clock, and that may be set at any time.  *)
(* Timers are monotonic.                                                   *)
(***************************************************************************)
EXTENDS Backoff, Bags

CONSTANTS
    Jobs,           \* job ids, which are ordered
    Queues,
    Served,         \* queues some connected worker leases from
    Requests,       \* what a Submit may carry: [queue, priority, delay], where a
                    \* larger priority is more urgent
    MaxRetries,
    BackoffBase,
    BackoffCap,
    DispatchTick,
    MaxTime,        \* bound on the clock
    MaxFaults,      \* bound on restarts, refused leases and steps of the clock
    MaxLost         \* bound on the records that a restart may lose

ASSUME ScheduleAssumption ==
    /\ Jobs \subseteq Nat
    /\ Queues # {} /\ Served \subseteq Queues
    /\ Requests \subseteq [queue : Queues, priority : Nat, delay : Nat]
    /\ {MaxRetries, BackoffBase, BackoffCap, MaxTime, MaxFaults} \subseteq Nat
    /\ {DispatchTick, MaxLost} \subseteq Nat \ {0}

VARIABLES
    now,        \* the wall clock
    job,        \* the authoritative jobs
    ready,      \* per queue: the ready heap
    delayed,    \* per queue: the delayed heap
    loop,       \* the dispatch loop: [pc, todo, until, refused]
    disk,       \* the jobs that replaying the records on disk gives
    unsaved,    \* how many records are not yet on disk
    recovered,  \* jobs that Open took off a lease, which no record says
    waited,     \* history: for how long each job of a served queue has been eligible,
                \* in elapsed time, up to one unit more than the tick
    faults

diskVars == <<disk, unsaved, recovered>>
vars == <<now, job, ready, delayed, loop, diskVars, waited, faults>>

States == {"Absent", "Pending", "RetryWait", "Leased", "Done", "DeadLetter"}

NoJob == [state |-> "Absent", queue |-> CHOOSE q \in Queues : TRUE, priority |-> 0,
          enqueuedAt |-> 0, eligibleAt |-> 0, attempt |-> 0]

Leasable(r) == r.state \in {"Pending", "RetryWait"}

-----------------------------------------------------------------------------
(* index.go *)

\* indexEntry: a copy of the key.
Entry(j, r) == [id |-> j, priority |-> r.priority, enqueuedAt |-> r.enqueuedAt,
                eligibleAt |-> r.eligibleAt]

\* Mutant: the oldest job first, whatever its priority.
LessByAge(a, b) ==
    \/ a.enqueuedAt < b.enqueuedAt
    \/ a.enqueuedAt = b.enqueuedAt /\ a.id < b.id

\* readyHeap.Less: highest priority, then oldest, then id.
Less(a, b) ==
    \/ a.priority > b.priority
    \/ /\ a.priority = b.priority
       /\ \/ a.enqueuedAt < b.enqueuedAt
          \/ a.enqueuedAt = b.enqueuedAt /\ a.id < b.id

\* push, into heaps rd and de of the job's queue.
Push(rd, de, j, r, t) ==
    LET e == SetToBag({Entry(j, r)})
    IN IF r.eligibleAt > t
       THEN ready' = rd /\ delayed' = [de EXCEPT ![r.queue] = @ (+) e]
       ELSE ready' = [rd EXCEPT ![r.queue] = @ (+) e] /\ delayed' = de

\* The copies of the entries of bag B that satisfy P.
Those(B, P(_)) == [e \in {f \in BagToSet(B) : P(f)} |-> B[e]]

\* promote: what has become eligible moves to the ready heap.
Elapsed(q) == Those(delayed[q], LAMBDA e : e.eligibleAt <= now)

Promoted(q) == ready[q] (+) Elapsed(q)

\* nextDeadline, over the queues that have somebody waiting.
Deadlines == {e.eligibleAt : e \in UNION {BagToSet(delayed[q]) : q \in Queues}}

\* Mutant: the loop sleeps until the deadline even when the tick comes first.
SleepForDeadline ==
    LET soonest == CHOOSE d \in Deadlines : \A e \in Deadlines : d <= e
    IN IF Deadlines # {} /\ soonest > now THEN soonest - now ELSE DispatchTick

\* sleepFor: the tick, or less if the earliest deadline of any queue is sooner;
\* one that has passed without a worker for its queue hides all others.
SleepFor ==
    LET soonest == CHOOSE d \in Deadlines : \A e \in Deadlines : d <= e
    IN IF Deadlines # {} /\ soonest > now /\ soonest - now < DispatchTick
       THEN soonest - now ELSE DispatchTick

-----------------------------------------------------------------------------
(* The store's operations, as far as they touch the index *)

\* recordLocked: a record about job j, which is not on disk yet.
Record(j) ==
    /\ unsaved < MaxLost
    /\ unsaved' = unsaved + 1
    /\ recovered' = recovered \ {j}
    /\ UNCHANGED disk

Submit(j, m) ==
    /\ job[j].state = "Absent"
    /\ LET r == [state |-> "Pending", queue |-> m.queue, priority |-> m.priority,
                 enqueuedAt |-> now, eligibleAt |-> now + m.delay, attempt |-> 0]
       IN job' = [job EXCEPT ![j] = r] /\ Push(ready, delayed, j, r, now)
    /\ Record(j)
    /\ UNCHANGED <<now, loop, faults>>

\* A popped entry still speaks for its job ...
Valid(e) == Leasable(job[e.id]) /\ e.eligibleAt = job[e.id].eligibleAt

\* ... and the job may run.
Runs(e) == Valid(e) /\ job[e.id].eligibleAt <= now

Candidates(q) == {e \in BagToSet(Promoted(q)) : Runs(e)}

\* The entries Lease pops before it comes to candidate e.
Passed(q, e) == Those(Promoted(q), LAMBDA f : Less(f, e))

\* Of the entries it pops, those that are valid but not yet eligible are filed
\* again, the others are dropped.
Refiled(B) == Those(B, LAMBDA f : Valid(f) /\ ~Runs(f))

\* Mutant: whatever is not a candidate is dropped.
TakeDropsEarly(q, e) ==
    /\ e \in Candidates(q)
    /\ \A f \in Candidates(q) : f = e \/ Less(e, f)
    /\ ready' = [ready EXCEPT ![q] = Promoted(q) (-) Passed(q, e) (-) SetToBag({e})]
    /\ delayed' = [delayed EXCEPT ![q] = @ (-) Elapsed(q)]

\* promote and the pop loop, up to the first candidate.
Take(q, e) ==
    /\ e \in Candidates(q)
    /\ \A f \in Candidates(q) : f = e \/ Less(e, f)
    /\ ready' = [ready EXCEPT ![q] = Promoted(q) (-) Passed(q, e) (-) SetToBag({e})]
    /\ delayed' = [delayed EXCEPT ![q] = @ (-) Elapsed(q) (+) Refiled(Passed(q, e))]

Lease(q, e) ==
    /\ q \in loop.todo
    /\ Take(q, e)
    /\ job' = [job EXCEPT ![e.id].state = "Leased", ![e.id].attempt = @ + 1]
    /\ Record(e.id)
    /\ UNCHANGED <<now, loop, faults>>

\* No token or no record for it: the job is filed again, dispatch goes on.
LeaseRefused(q, e) ==
    /\ q \in loop.todo
    /\ faults < MaxFaults
    /\ e \in Candidates(q)
    /\ \A f \in Candidates(q) : f = e \/ Less(e, f)
    /\ ready' = [ready EXCEPT ![q] = Promoted(q) (-) Passed(q, e)]
    /\ delayed' = [delayed EXCEPT ![q] = @ (-) Elapsed(q) (+) Refiled(Passed(q, e))]
    /\ loop' = [loop EXCEPT !.todo = @ \ {q}, !.refused = TRUE]
    /\ faults' = faults + 1
    /\ UNCHANGED <<now, job, diskVars>>

\* Nothing to lease: the whole ready heap was popped.
LeaseNothing(q) ==
    /\ q \in loop.todo
    /\ Candidates(q) = {}
    /\ ready' = [ready EXCEPT ![q] = EmptyBag]
    /\ delayed' = [delayed EXCEPT ![q] = @ (-) Elapsed(q) (+) Refiled(Promoted(q))]
    /\ loop' = [loop EXCEPT !.todo = @ \ {q}]
    /\ UNCHANGED <<now, job, diskVars, faults>>

Ack(j) ==
    /\ job[j].state = "Leased"
    /\ job' = [job EXCEPT ![j].state = "Done"]
    /\ Record(j)
    /\ UNCHANGED <<now, ready, delayed, loop, faults>>

\* failLocked, for a Nack or an expired lease.
Retry(j, d) ==
    /\ job[j].state = "Leased"
    /\ job[j].attempt <= MaxRetries
    /\ LET r == [job[j] EXCEPT !.state = "RetryWait", !.eligibleAt = now + d]
       IN job' = [job EXCEPT ![j] = r] /\ Push(ready, delayed, j, r, now)
    /\ Record(j)
    /\ UNCHANGED <<now, loop, faults>>

DeadLetter(j) ==
    /\ job[j].state = "Leased"
    /\ job[j].attempt > MaxRetries
    /\ job' = [job EXCEPT ![j].state = "DeadLetter", ![j].eligibleAt = now]
    /\ Record(j)
    /\ UNCHANGED <<now, ready, delayed, loop, faults>>

\* Mutant: the attempts already made still count.
ReplayJobKeepsAttempts(j) ==
    /\ job[j].state = "DeadLetter"
    /\ LET r == [job[j] EXCEPT !.state = "Pending", !.eligibleAt = now]
       IN job' = [job EXCEPT ![j] = r] /\ Push(ready, delayed, j, r, now)
    /\ Record(j)
    /\ UNCHANGED <<now, loop, faults>>

ReplayJob(j) ==
    /\ job[j].state = "DeadLetter"
    /\ LET r == [job[j] EXCEPT !.state = "Pending", !.eligibleAt = now, !.attempt = 0]
       IN job' = [job EXCEPT ![j] = r] /\ Push(ready, delayed, j, r, now)
    /\ Record(j)
    /\ UNCHANGED <<now, loop, faults>>

\* The records so far reach the disk, by a flush of some caller or by chance.
\* What the jobs of `recovered' were leased for is what replay will find.
Flush ==
    /\ disk' = [j \in Jobs |-> IF j \in recovered THEN [job[j] EXCEPT !.state = "Leased"]
                                                 ELSE job[j]]
    /\ unsaved > 0 /\ unsaved' = 0
    /\ UNCHANGED <<now, job, ready, delayed, loop, recovered, faults>>

\* A crash, and Open when the clock shows t: the records that did not reach the
\* disk are gone; recoverLeasedLocked, then rebuildIndexLocked.
Restart(t) ==
    /\ faults < MaxFaults
    /\ faults' = faults + 1
    /\ now' = t
    /\ recovered' = {j \in Jobs : disk[j].state = "Leased"}
    /\ LET back == [j \in Jobs |-> IF disk[j].state = "Leased"
                      THEN [disk[j] EXCEPT !.state = "RetryWait", !.eligibleAt = t] ELSE disk[j]]
           filed(q, due) == SetToBag({Entry(j, back[j]) : j \in {k \in Jobs :
                              /\ Leasable(back[k])
                              /\ back[k].queue = q
                              /\ (back[k].eligibleAt <= t) = due}})
       IN /\ job' = back
          /\ ready' = [q \in Queues |-> filed(q, TRUE)]
          /\ delayed' = [q \in Queues |-> filed(q, FALSE)]
    /\ loop' = [pc |-> "pass", todo |-> Served, until |-> t, refused |-> FALSE]
    /\ unsaved' = 0
    /\ UNCHANGED disk

-----------------------------------------------------------------------------
(* The dispatch loop and the clock *)

\* A notification or the timer.
Wake ==
    /\ loop.pc = "sleep"
    /\ loop' = [pc |-> "pass", todo |-> Served, until |-> now, refused |-> FALSE]
    /\ UNCHANGED <<now, job, ready, delayed, diskVars, faults>>

Sleep ==
    /\ loop.pc = "pass"
    /\ loop.todo = {}
    /\ loop' = [loop EXCEPT !.pc = "sleep", !.until = now + SleepFor]
    /\ UNCHANGED <<now, job, ready, delayed, diskVars, faults>>

\* Passes take no time, and the timer does not oversleep.
TimePasses ==
    /\ loop.pc = "sleep"
    /\ now < loop.until
    /\ now < MaxTime
    /\ now' = now + 1
    /\ UNCHANGED <<job, ready, delayed, loop, diskVars, faults>>

\* The wall clock is set to t, back or ahead; the timer is monotonic.
ClockSet(t) ==
    /\ faults < MaxFaults
    /\ faults' = faults + 1
    /\ t # now
    /\ now' = t
    /\ loop' = [loop EXCEPT !.until = @ + (t - now)]
    /\ UNCHANGED <<job, ready, delayed, diskVars>>

Eligible(j) == Leasable(job[j]) /\ job[j].eligibleAt <= now

\* d units of time have passed for the jobs that are eligible all along.
Watch(d) ==
    waited' = [j \in Jobs |->
        IF ~(Eligible(j) /\ Eligible(j)' /\ job[j].queue \in Served) THEN 0
        ELSE IF waited[j] + d > DispatchTick THEN DispatchTick + 1 ELSE waited[j] + d]

Init ==
    /\ now = 0
    /\ job = [j \in Jobs |-> NoJob]
    /\ ready = [q \in Queues |-> EmptyBag]
    /\ delayed = [q \in Queues |-> EmptyBag]
    /\ loop = [pc |-> "pass", todo |-> Served, until |-> 0, refused |-> FALSE]
    /\ disk = job
    /\ unsaved = 0
    /\ recovered = {}
    /\ waited = [j \in Jobs |-> 0]
    /\ faults = 0

\* What takes no time.
Instant ==
    \/ \E j \in Jobs :
          \/ \E m \in Requests : Submit(j, m)
          \/ Ack(j) \/ DeadLetter(j) \/ ReplayJob(j)
          \/ \E d \in Delays(job[j].attempt, BackoffBase, BackoffCap) : Retry(j, d)
    \/ \E q \in Queues : \/ LeaseNothing(q)
                         \/ \E e \in Candidates(q) : Lease(q, e) \/ LeaseRefused(q, e)
    \/ Wake \/ Sleep \/ Flush
    \/ \E t \in 0..MaxTime : ClockSet(t) \/ Restart(t)

Next == (Instant /\ Watch(0)) \/ (TimePasses /\ Watch(1))

Spec == Init /\ [][Next]_vars

-----------------------------------------------------------------------------
(* Properties *)

Waits == {m.delay : m \in Requests} \cup {CapDelay(BackoffCap)}

JobRec == [state : States, queue : Queues, priority : Nat,
           enqueuedAt : 0..MaxTime, eligibleAt : Nat, attempt : Nat]

\* The shape of the state, of the jobs in memory and of those on disk: times are
\* ones the clock can show, or later by a delay; the attempt counter is above
\* the budget by one, and one more per fault, at most; the timer is never set to
\* the past or beyond the tick.
SchedTypeOK ==
    /\ now \in 0..MaxTime
    /\ job \in [Jobs -> JobRec] /\ disk \in [Jobs -> JobRec]
    /\ \A j \in Jobs : \A r \in {job[j], disk[j]} :
          /\ \E w \in Waits : r.eligibleAt <= MaxTime + w
          /\ r.attempt <= MaxRetries + faults + 1
    /\ \A q \in Queues : IsABag(ready[q]) /\ IsABag(delayed[q])
    /\ loop \in [pc : {"pass", "sleep"}, todo : SUBSET Queues, until : Int, refused : BOOLEAN]
    /\ loop.pc = "sleep" => loop.until - now \in 0..DispatchTick
    /\ unsaved \in 0..MaxLost
    /\ recovered \subseteq {j \in Jobs : job[j].state = "RetryWait"}
    /\ waited \in [Jobs -> 0..(DispatchTick + 1)]
    /\ faults \in 0..MaxFaults

\* The two heaps of a queue hold, together, the current key of every job of the
\* queue that may be leased, once, and nothing else: no entry is lost, filed
\* twice or left behind by retries, refused leases, restarts that lose records
\* or a clock that is set.
EntriesExact ==
    \A q \in Queues :
        ready[q] (+) delayed[q] =
            SetToBag({Entry(j, job[j]) : j \in {k \in Jobs : Leasable(job[k]) /\ job[k].queue = q}})

\* Job j is to be handed out before job k.
Before(j, k) ==
    \/ job[j].priority > job[k].priority
    \/ job[j].priority = job[k].priority /\ job[j].enqueuedAt < job[k].enqueuedAt
    \/ job[j].priority = job[k].priority /\ job[j].enqueuedAt = job[k].enqueuedAt /\ j < k

\* What a step leases may run, and no eligible job of its queue comes before it,
\* judged by the jobs themselves.
BestFirst ==
    [][\A j \in Jobs : job[j].state # "Leased" /\ job'[j].state = "Leased" =>
         /\ Eligible(j)
         /\ \A k \in Jobs \ {j} : Eligible(k) /\ job[k].queue = job[j].queue => Before(j, k)]_vars

\* While the loop sleeps, no job that a worker is waiting for has been eligible
\* for longer than the tick, although deadlines of queues nobody serves may
\* keep the loop from waking up in time, and although the wall clock may be set
\* back or ahead while it sleeps.  The time meant is the time that elapsed.
NoticedWithinTick ==
    loop.pc = "sleep" /\ ~loop.refused =>
        \A j \in Jobs : Eligible(j) /\ job[j].queue \in Served => waited[j] <= DispatchTick

\* A job that fails now or later waits for a delay that is sound (SoundFor) under
\* every base and cap the broker can be configured with, overflowing ones too.
BackoffSound ==
    \A j \in Jobs : job[j].state = "Leased" =>
        {a \in Attempts : a >= job[j].attempt} \subseteq SoundAttempts

=============================================================================
