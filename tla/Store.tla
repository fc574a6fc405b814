------------------------------- MODULE Store -------------------------------
(***************************************************************************)
(* The broker's job store (internal/broker/store.go): an in-memory job     *)
(* map kept in step with a write-ahead log.  Every transition is recorded  *)
(* under s.mu (recordLocked), which appends to the log and applies in      *)
(* memory, and is answered only after s.mu was released and a shared flush *)
(* succeeded (commitDurable).  A crash keeps the durable prefix of the     *)
(* log and, by chance, some of the rest; recovery replays what is left.    *)
(*                                                                         *)
(* The log and the committer appear here by their contract: Append gives   *)
(* consecutive LSNs, a successful flush covers a prefix, and a waiter is   *)
(* answered by a flush that covers its record.  Clock values are left out: *)
(* a lease may expire at any moment (LeaseExpires) and a job that is       *)
(* leasable may be eligible at any moment.  Snapshots are not part of this *)
(* module.                                                                 *)
(***************************************************************************)
EXTENDS Naturals, Sequences, FiniteSets

CONSTANTS
    Jobs,           \* job IDs; job.NewID draws one that was never drawn
    Keys,           \* (queue, idempotency key) pairs, as idemKey joins them
    Procs,          \* the goroutines that call into the store
    Requests,       \* what a Submit may carry: [key, maxRetries]
    EpochBlockSize, \* fencing tokens reserved by one flush
    None,           \* no job, no key, no goroutine
    DropsPages,     \* may a failed fsync discard dirty pages?
    MaxLog,         \* bound: records in the log
    MaxEpoch,       \* bound: fencing tokens
    MaxCrashes,     \* bound: restarts of the broker
    MaxFaults       \* bound: failed disk operations

ASSUME NoneAssumption == None \notin Jobs \cup Keys \cup Procs
ASSUME RequestsAssumption == Requests \subseteq [key : Keys \cup {None}, maxRetries : Nat]
ASSUME EpochBlockSizeAssumption == EpochBlockSize \in Nat \ {0}
ASSUME DropsPagesAssumption == DropsPages \in BOOLEAN
ASSUME BoundsAssumption == {MaxLog, MaxEpoch, MaxCrashes, MaxFaults} \subseteq Nat

VARIABLES
    mem,        \* what Apply maintains: jobs, idem, leased, epochReservedUpTo
    index,      \* jobs with an entry in the schedule index
    nextEpoch,  \* next fencing token to hand out
    lastLSN,    \* LSN the in-memory state accounts for
    failed,     \* the store is poisoned
    expired,    \* leased jobs whose LeaseExpiresAt has passed
    reserving,  \* the job Lease popped while it holds s.mu for a reservation
    sweeper,    \* the goroutine that holds s.mu inside ReclaimExpired
    sweep,      \* the expired leases that sweep has still to visit
    calls,      \* per goroutine: the operation waiting in commitDurable
    log,        \* every record of the log, by LSN
    image,      \* image[n]: the memory that replaying records 1..n produces
    stable,     \* records 1..stable survive any crash
    reported,   \* records 1..reported were covered by a flush that succeeded
    dropped,    \* the OS discarded dirty pages after stable
    used,       \* history: job IDs drawn so far
    issued,     \* history: every lease handed out, in order
    accepted,   \* history: jobs whose Submit returned success, not as a duplicate
    deduped,    \* history: jobs a Submit returned as an existing duplicate
    acks,       \* history: leases whose Ack was answered "accepted"
    nacks,      \* history: leases whose Nack was answered "accepted"
    crashes,    \* restarts so far
    faults      \* failed disk operations so far

memVars  == <<mem, index, nextEpoch, lastLSN, failed, expired>>
muVars   == <<reserving, sweeper, sweep>>
diskVars == <<log, image, stable, reported, dropped>>
histVars == <<used, issued, accepted, deduped, acks, nacks>>
vars     == <<memVars, muVars, calls, diskVars, histVars, crashes, faults>>

-----------------------------------------------------------------------------
(* Jobs and events *)

States == {"Absent", "Pending", "Leased", "Done", "RetryWait", "DeadLetter"}

\* job.Job, without the fields no decision of the store reads.  A job that is
\* not in s.jobs is a record in state "Absent".
JobRec == [state : States, attempt : Nat, epoch : Nat,
           key : Keys \cup {None}, maxRetries : Nat]

NoJob == [state |-> "Absent", attempt |-> 0, epoch |-> 0,
          key |-> None, maxRetries |-> 0]

Leasable(j) == j.state \in {"Pending", "RetryWait"}

Mem == [jobs : [Jobs -> JobRec], idem : [Keys -> Jobs \cup {None}],
        leased : SUBSET Jobs, reserved : Nat]

EmptyMem == [jobs |-> [j \in Jobs |-> NoJob], idem |-> [k \in Keys |-> None],
             leased |-> {}, reserved |-> 0]

SubmitEvents  == [type : {"submit"}, job : Jobs, key : Keys \cup {None}, maxRetries : Nat]
LeaseEvents   == [type : {"lease"}, job : Jobs, epoch : Nat, attempt : Nat]
AckEvents     == [type : {"ack"}, job : Jobs]
FailEvents    == [type : {"fail"}, job : Jobs, attempt : Nat, next : {"RetryWait", "DeadLetter"}]
ReplayEvents  == [type : {"replay"}, job : Jobs]
ReserveEvents == [type : {"reserve"}, upTo : Nat]
Events == SubmitEvents \cup LeaseEvents \cup AckEvents \cup FailEvents
            \cup ReplayEvents \cup ReserveEvents

-----------------------------------------------------------------------------
(* apply: the one function that live writes and replay share *)

\* Job id gets record r, and L is the new set of leased jobs.
Put(m, id, r, L) == [m EXCEPT !.jobs = [m.jobs EXCEPT ![id] = r], !.leased = L]

SubmittedJob(e) == [state |-> "Pending", attempt |-> 0, epoch |-> 0,
                    key |-> e.key, maxRetries |-> e.maxRetries]

\* Mutant: the idempotency key is not recorded.
ApplySubmitForgetsKey(m, e) == Put(m, e.job, SubmittedJob(e), m.leased)

ApplySubmit(m, e) ==
    [Put(m, e.job, SubmittedJob(e), m.leased) EXCEPT
        !.idem = IF e.key = None THEN m.idem ELSE [m.idem EXCEPT ![e.key] = e.job]]

ApplyLease(m, e) ==
    Put(m, e.job, [m.jobs[e.job] EXCEPT !.state = "Leased", !.epoch = e.epoch,
                                        !.attempt = e.attempt],
        m.leased \cup {e.job})

ApplyAck(m, e) ==
    Put(m, e.job, [m.jobs[e.job] EXCEPT !.state = "Done"], m.leased \ {e.job})

\* Mutant: the lease is not taken off the leased set.
ApplyFailKeepsLease(m, e) ==
    Put(m, e.job, [m.jobs[e.job] EXCEPT !.state = e.next, !.attempt = e.attempt],
        m.leased)

ApplyFail(m, e) ==
    Put(m, e.job, [m.jobs[e.job] EXCEPT !.state = e.next, !.attempt = e.attempt],
        m.leased \ {e.job})

ApplyReplay(m, e) ==
    Put(m, e.job, [m.jobs[e.job] EXCEPT !.state = "Pending", !.attempt = 0],
        m.leased \ {e.job})

ApplyReserve(m, e) == [m EXCEPT !.reserved = e.upTo]

Apply(m, e) ==
    CASE e.type = "submit"  -> ApplySubmit(m, e)
      [] e.type = "lease"   -> ApplyLease(m, e)
      [] e.type = "ack"     -> ApplyAck(m, e)
      [] e.type = "fail"    -> ApplyFail(m, e)
      [] e.type = "replay"  -> ApplyReplay(m, e)
      [] e.type = "reserve" -> ApplyReserve(m, e)

\* A lease that was outstanding when the process died is released; the job
\* keeps its attempt and its epoch.
Released(j) == IF j.state = "Leased" THEN [j EXCEPT !.state = "RetryWait"] ELSE j

RecoverLeased(m) ==
    [m EXCEPT !.jobs = [j \in Jobs |-> Released(m.jobs[j])], !.leased = {}]

-----------------------------------------------------------------------------
(* The log and s.mu *)

\* wal.Append: the record takes the next LSN and is not durable yet.
AppendRecord(e) ==
    /\ Len(log) < MaxLog
    /\ log' = Append(log, e)
    /\ image' = [n \in 0..(Len(log) + 1) |->
                    IF n <= Len(log) THEN image[n] ELSE Apply(image[Len(log)], e)]
    /\ UNCHANGED <<stable, reported, dropped>>

\* Mutant: the poisoned store goes on recording.
RecordLockedPoisoned(e) ==
    /\ AppendRecord(e)
    /\ mem' = Apply(mem, e)
    /\ lastLSN' = Len(log) + 1

RecordLocked(e) ==
    /\ ~failed
    /\ AppendRecord(e)
    /\ mem' = Apply(mem, e)
    /\ lastLSN' = Len(log) + 1

\* A disk operation fails.
Fault == faults < MaxFaults /\ faults' = faults + 1

\* What a failed fsync leaves of the pages it was to write.
FsyncFails == dropped' \in {dropped, dropped \/ DropsPages}

MuFree == reserving = None /\ sweeper = None

Idle == [op |-> "idle", job |-> None, epoch |-> 0, lsn |-> 0, err |-> FALSE]

\* The caller has released s.mu and waits in commitDurable for its record.
AwaitCommit(p, o, j, ep) ==
    calls' = [calls EXCEPT ![p] = [op |-> o, job |-> j, epoch |-> ep,
                                   lsn |-> Len(log'), err |-> FALSE]]

-----------------------------------------------------------------------------
(* Submit *)

Submit(p, j, r) ==
    /\ MuFree
    /\ calls[p] = Idle
    /\ j \notin used
    /\ r.key # None => mem.idem[r.key] = None
    /\ RecordLocked([type |-> "submit", job |-> j, key |-> r.key,
                     maxRetries |-> r.maxRetries])
    /\ index' = index \cup {j}
    /\ used' = used \cup {j}
    /\ AwaitCommit(p, "submit", j, 0)
    /\ UNCHANGED <<nextEpoch, failed, expired, muVars, issued, accepted, deduped,
                   acks, nacks, crashes, faults>>

\* The key matches a job: it is returned at once, without a commit.
SubmitDuplicate(k) ==
    /\ MuFree
    /\ ~failed
    /\ mem.idem[k] # None
    /\ deduped' = deduped \cup {mem.idem[k]}
    /\ UNCHANGED <<memVars, muVars, calls, diskVars, used, issued, accepted,
                   acks, nacks, crashes, faults>>

-----------------------------------------------------------------------------
(* Lease *)

\* Lease popped j, or still holds s.mu after reserving a block for it.
Candidate(j) ==
    \/ MuFree /\ j \in index /\ Leasable(mem.jobs[j])
    \/ reserving = j

\* The next block of tokens.
ReserveEvent == [type |-> "reserve", upTo |-> nextEpoch + EpochBlockSize - 1]

\* nextEpochLocked finds the block used up and appends a reservation, which
\* AppendSync flushes while s.mu stays held.  No check of s.failed.
ReserveEpochs(j) ==
    /\ MuFree
    /\ j \in index
    /\ Leasable(mem.jobs[j])
    /\ nextEpoch > mem.reserved
    /\ nextEpoch <= MaxEpoch
    /\ Len(log) + 2 <= MaxLog      \* room for the lease record too
    /\ AppendRecord(ReserveEvent)
    /\ reserving' = j
    /\ index' = index \ {j}
    /\ UNCHANGED <<mem, nextEpoch, lastLSN, failed, expired, sweeper, sweep, calls,
                   histVars, crashes, faults>>

\* Mutant: Append in place of AppendSync.
EpochsReservedUnflushed ==
    /\ reserving # None
    /\ nextEpoch > mem.reserved
    /\ mem' = Apply(mem, ReserveEvent)
    /\ lastLSN' = Len(log)
    /\ UNCHANGED <<index, nextEpoch, failed, expired, muVars, calls, diskVars,
                   histVars, crashes, faults>>

\* The flush covered the reservation, so it is applied.
EpochsReserved ==
    /\ reserving # None
    /\ nextEpoch > mem.reserved
    /\ reported = Len(log)
    /\ mem' = Apply(mem, ReserveEvent)
    /\ lastLSN' = Len(log)
    /\ UNCHANGED <<index, nextEpoch, failed, expired, muVars, calls, diskVars,
                   histVars, crashes, faults>>

\* Mutant: the popped job is not filed again.
ReserveFailsDropsJob ==
    /\ reserving # None
    /\ nextEpoch > mem.reserved
    /\ Fault
    /\ FsyncFails
    /\ reserving' = None
    /\ UNCHANGED <<mem, index, nextEpoch, lastLSN, failed, expired, sweeper, sweep, calls,
                   log, image, stable, reported, histVars, crashes>>

\* Mutant: the popped job is filed after it was let go of.
ReserveFailsTooLate ==
    /\ reserving # None
    /\ nextEpoch > mem.reserved
    /\ Fault
    /\ FsyncFails
    /\ reserving' = None
    /\ index' = index \cup {reserving'}
    /\ UNCHANGED <<mem, nextEpoch, lastLSN, failed, expired, sweeper, sweep, calls,
                   log, image, stable, reported, histVars, crashes>>

\* The flush failed: the record stays in the log, unapplied, the job is filed
\* again and the store is NOT poisoned.
ReserveFails ==
    /\ reserving # None
    /\ nextEpoch > mem.reserved
    /\ Fault
    /\ FsyncFails
    /\ index' = index \cup {reserving}
    /\ reserving' = None
    /\ UNCHANGED <<mem, nextEpoch, lastLSN, failed, expired, sweeper, sweep, calls,
                   log, image, stable, reported, histVars, crashes>>

Lease(j) ==
    /\ Candidate(j)
    /\ nextEpoch <= mem.reserved
    /\ RecordLocked([type |-> "lease", job |-> j, epoch |-> nextEpoch,
                     attempt |-> mem.jobs[j].attempt + 1])
    /\ nextEpoch' = nextEpoch + 1
    /\ index' = index \ {j}
    /\ expired' = expired \ {j}
    /\ reserving' = None
    /\ issued' = Append(issued, [job |-> j, epoch |-> nextEpoch])
    /\ UNCHANGED <<failed, sweeper, sweep, calls, used, accepted, deduped, acks,
                   nacks, crashes, faults>>

\* Mutant: the lease was applied before its append failed.
LeaseRefusedApplied(j) ==
    /\ Candidate(j)
    /\ nextEpoch <= mem.reserved
    /\ Fault
    /\ FsyncFails
    /\ mem' = Apply(mem, [type |-> "lease", job |-> j, epoch |-> nextEpoch,
                          attempt |-> mem.jobs[j].attempt + 1])
    /\ nextEpoch' = nextEpoch + 1
    /\ index' = index \cup {j}
    /\ reserving' = None
    /\ UNCHANGED <<lastLSN, failed, expired, sweeper, sweep, calls, log, image,
                   stable, reported, histVars, crashes>>

\* recordLocked refused the lease, because the store is poisoned or the append
\* failed: the token is spent and the job is filed again.
LeaseRefused(j) ==
    /\ Candidate(j)
    /\ nextEpoch <= mem.reserved
    /\ \/ failed /\ UNCHANGED <<faults, dropped>>
       \/ Fault /\ FsyncFails
    /\ nextEpoch' = nextEpoch + 1
    /\ index' = index \cup {j}
    /\ reserving' = None
    /\ UNCHANGED <<mem, lastLSN, failed, expired, sweeper, sweep, calls, log, image,
                   stable, reported, histVars, crashes>>

-----------------------------------------------------------------------------
(* Ack, Nack, Heartbeat: a worker presents a lease it was once given.  The    *)
(* lease may be any lease ever issued, so late, repeated and reordered        *)
(* requests are covered.                                                      *)

\* Mutant: the token alone decides.
HoldsLeaseByEpoch(g) == mem.jobs[g.job].epoch = g.epoch

\* Mutant: the state alone decides.
HoldsLeaseByState(g) == mem.jobs[g.job].state = "Leased"

HoldsLease(g) ==
    /\ mem.jobs[g.job].state = "Leased"
    /\ mem.jobs[g.job].epoch = g.epoch

Ack(p, g) ==
    /\ MuFree
    /\ calls[p] = Idle
    /\ HoldsLease(g)
    /\ RecordLocked([type |-> "ack", job |-> g.job])
    /\ AwaitCommit(p, "ack", g.job, g.epoch)
    /\ UNCHANGED <<index, nextEpoch, failed, expired, muVars, histVars, crashes, faults>>

\* Mutant: one retry too many.
VerdictLate(j) ==
    IF mem.jobs[j].attempt > mem.jobs[j].maxRetries + 1 THEN "DeadLetter" ELSE "RetryWait"

\* failLocked: the attempt was charged by Lease; past the budget the job is
\* dead-lettered, otherwise it is filed for a retry.
Verdict(j) ==
    IF mem.jobs[j].attempt > mem.jobs[j].maxRetries THEN "DeadLetter" ELSE "RetryWait"

FailLocked(j) ==
    /\ RecordLocked([type |-> "fail", job |-> j, attempt |-> mem.jobs[j].attempt,
                     next |-> Verdict(j)])
    /\ index' = IF Verdict(j) = "RetryWait" THEN index \cup {j} ELSE index

Nack(p, g) ==
    /\ MuFree
    /\ calls[p] = Idle
    /\ HoldsLease(g)
    /\ FailLocked(g.job)
    /\ AwaitCommit(p, "nack", g.job, g.epoch)
    /\ UNCHANGED <<nextEpoch, failed, expired, muVars, histVars, crashes, faults>>

Heartbeat(g) ==
    /\ MuFree
    /\ HoldsLease(g)
    /\ expired' = expired \ {g.job}
    /\ UNCHANGED <<mem, index, nextEpoch, lastLSN, failed, muVars, calls, diskVars,
                   histVars, crashes, faults>>

-----------------------------------------------------------------------------
(* Lease expiry and ReclaimExpired *)

\* The clock passes LeaseExpiresAt.
LeaseExpires(j) ==
    /\ mem.jobs[j].state = "Leased"
    /\ expired' = expired \cup {j}
    /\ UNCHANGED <<mem, index, nextEpoch, lastLSN, failed, muVars, calls, diskVars,
                   histVars, crashes, faults>>

\* ReclaimExpired takes s.mu and will visit s.leased in an arbitrary order.
ReclaimExpired(p) ==
    /\ MuFree
    /\ calls[p] = Idle
    /\ expired \cap mem.leased # {}
    /\ Len(log) + Cardinality(expired \cap mem.leased) <= MaxLog
    /\ sweeper' = p
    /\ sweep' = expired \cap mem.leased
    /\ UNCHANGED <<memVars, reserving, calls, diskVars, histVars, crashes, faults>>

ReclaimOne(j) ==
    /\ sweeper # None
    /\ j \in sweep
    /\ FailLocked(j)
    /\ sweep' = sweep \ {j}
    /\ expired' = expired \ {j}
    /\ UNCHANGED <<nextEpoch, failed, reserving, sweeper, calls, histVars, crashes, faults>>

\* The sweep releases s.mu and pays for one flush.
ReclaimCommit ==
    /\ sweeper # None
    /\ sweep = {}
    /\ calls' = [calls EXCEPT ![sweeper] = [op |-> "reclaim", job |-> None, epoch |-> 0,
                                            lsn |-> Len(log), err |-> FALSE]]
    /\ sweeper' = None
    /\ UNCHANGED <<memVars, reserving, sweep, diskVars, histVars, crashes, faults>>

\* A record is refused: the sweep stops and returns what it has, uncommitted.
ReclaimAborts ==
    /\ sweeper # None
    /\ sweep # {}
    /\ \/ failed /\ UNCHANGED <<faults, dropped>>
       \/ Fault /\ FsyncFails
    /\ sweeper' = None
    /\ sweep' = {}
    /\ UNCHANGED <<memVars, reserving, calls, log, image, stable, reported, histVars,
                   crashes>>

-----------------------------------------------------------------------------
(* ReplayJob *)

ReplayJob(p, j) ==
    /\ MuFree
    /\ calls[p] = Idle
    /\ mem.jobs[j].state = "DeadLetter"
    /\ RecordLocked([type |-> "replay", job |-> j])
    /\ index' = index \cup {j}
    /\ AwaitCommit(p, "replay", j, 0)
    /\ UNCHANGED <<nextEpoch, failed, expired, muVars, histVars, crashes, faults>>

\* Submit, Ack, Nack or ReplayJob gets an error from wal.Append (a rotation
\* that could not flush the old segment): the caller fails, nothing is
\* recorded and the store is NOT poisoned.
AppendFails ==
    /\ MuFree
    /\ Fault
    /\ FsyncFails
    /\ UNCHANGED <<memVars, muVars, calls, log, image, stable, reported, histVars,
                   crashes>>

\* Get, ListJobs, Stats, NextDelayedDeadline and Failed read under s.mu; a
\* request that is refused (unknown job, fenced lease, wrong state, poisoned
\* store) leaves the store as it is too.
ReadOnly == MuFree /\ UNCHANGED vars

-----------------------------------------------------------------------------
(* commitDurable *)

Waiting(p) == calls[p].op # "idle" /\ ~calls[p].err

\* A flush begun when n records had been appended reports success, be it the
\* committer's, AppendSync's or that of a rotation.  If the OS dropped pages
\* before, the records after the gap are not durable at all.
Sync(n) ==
    /\ n \in (reported + 1)..Len(log)
    /\ reported' = n
    /\ stable' = IF dropped THEN stable ELSE n
    /\ UNCHANGED <<memVars, muVars, calls, log, image, dropped, histVars, crashes, faults>>

\* A flush fails; every waiter of its batch is told.
SyncFails(batch) ==
    /\ Fault
    /\ FsyncFails
    /\ batch # {}
    /\ \A p \in batch : Waiting(p)
    /\ calls' = [p \in Procs |-> IF p \in batch THEN [calls[p] EXCEPT !.err = TRUE]
                                                ELSE calls[p]]
    /\ UNCHANGED <<memVars, muVars, log, image, stable, reported, histVars, crashes>>

\* Mutant: the operation reports success without waiting for the flush.
ReturnEarly(p) ==
    /\ Waiting(p)
    /\ LET c == calls[p]
           g == [job |-> c.job, epoch |-> c.epoch]
       IN /\ accepted' = IF c.op = "submit" THEN accepted \cup {c.job} ELSE accepted
          /\ acks'     = IF c.op = "ack" THEN acks \cup {g} ELSE acks
          /\ nacks'    = IF c.op = "nack" THEN nacks \cup {g} ELSE nacks
    /\ calls' = [calls EXCEPT ![p] = Idle]
    /\ UNCHANGED <<memVars, muVars, diskVars, used, issued, deduped, crashes, faults>>

\* The flush covered the record: the operation reports success.
Return(p) ==
    /\ Waiting(p)
    /\ calls[p].lsn <= reported
    /\ LET c == calls[p]
           g == [job |-> c.job, epoch |-> c.epoch]
       IN /\ accepted' = IF c.op = "submit" THEN accepted \cup {c.job} ELSE accepted
          /\ acks'     = IF c.op = "ack" THEN acks \cup {g} ELSE acks
          /\ nacks'    = IF c.op = "nack" THEN nacks \cup {g} ELSE nacks
    /\ calls' = [calls EXCEPT ![p] = Idle]
    /\ UNCHANGED <<memVars, muVars, diskVars, used, issued, deduped, crashes, faults>>

\* The waiter that was told of a failed flush takes s.mu and poisons the store.
Poison(p) ==
    /\ MuFree
    /\ calls[p].err
    /\ failed' = TRUE
    /\ calls' = [calls EXCEPT ![p] = Idle]
    /\ UNCHANGED <<mem, index, nextEpoch, lastLSN, expired, muVars, diskVars, histVars,
                   crashes, faults>>

-----------------------------------------------------------------------------
(* Crash and Open *)

\* Mutant: the last reserved token is handed out again.
OpenReusesToken(m) ==
    /\ mem' = RecoverLeased(m)
    /\ index' = {j \in Jobs : Leasable(Released(m.jobs[j]))}
    /\ nextEpoch' = m.reserved
    /\ failed' = FALSE
    /\ expired' = {}
    /\ reserving' = None
    /\ sweeper' = None
    /\ sweep' = {}
    /\ calls' = [p \in Procs |-> Idle]

\* Open on the memory m that replay produced: release leases, rebuild the
\* index, resume tokens strictly above the recorded ceiling.
Open(m) ==
    /\ mem' = RecoverLeased(m)
    /\ index' = {j \in Jobs : Leasable(Released(m.jobs[j]))}
    /\ nextEpoch' = m.reserved + 1
    /\ failed' = FALSE
    /\ expired' = {}
    /\ reserving' = None
    /\ sweeper' = None
    /\ sweep' = {}
    /\ calls' = [p \in Procs |-> Idle]

\* What a crash leaves of the log: the first n records.  A process that dies
\* leaves the page cache alone, so of those only `stable' are certain to
\* outlive a later power failure; a power failure also ends the effect of
\* pages dropped earlier.
LogCut(n) ==
    /\ n \in stable..Len(log)
    /\ log' = SubSeq(log, 1, n)
    /\ image' = [i \in 0..n |-> image[i]]
    /\ dropped' \in {dropped, FALSE}
    /\ dropped' # dropped => n = stable
    /\ reported' = stable
    /\ UNCHANGED stable

Crash(n) ==
    /\ crashes < MaxCrashes
    /\ crashes' = crashes + 1
    /\ LogCut(n)
    /\ Open(image[n])
    /\ lastLSN' = n
    /\ UNCHANGED <<histVars, faults>>

-----------------------------------------------------------------------------

Grants == {issued[i] : i \in DOMAIN issued}

Init ==
    /\ mem = EmptyMem
    /\ index = {}
    /\ nextEpoch = 1
    /\ lastLSN = 0
    /\ failed = FALSE
    /\ expired = {}
    /\ reserving = None
    /\ sweeper = None
    /\ sweep = {}
    /\ calls = [p \in Procs |-> Idle]
    /\ log = <<>>
    /\ image = [n \in {0} |-> EmptyMem]
    /\ stable = 0
    /\ reported = 0
    /\ dropped = FALSE
    /\ used = {}
    /\ issued = <<>>
    /\ accepted = {}
    /\ deduped = {}
    /\ acks = {}
    /\ nacks = {}
    /\ crashes = 0
    /\ faults = 0

\* Everything a running broker does.
Live ==
    \/ \E p \in Procs, j \in Jobs, r \in Requests : Submit(p, j, r)
    \/ \E k \in Keys : SubmitDuplicate(k)
    \/ \E j \in Jobs : ReserveEpochs(j) \/ Lease(j) \/ LeaseRefused(j)
    \/ EpochsReserved
    \/ ReserveFails
    \/ \E p \in Procs, g \in Grants : Ack(p, g) \/ Nack(p, g)
    \/ \E g \in Grants : Heartbeat(g)
    \/ \E j \in Jobs : LeaseExpires(j) \/ ReclaimOne(j)
    \/ \E p \in Procs : ReclaimExpired(p)
    \/ ReclaimCommit
    \/ ReclaimAborts
    \/ \E p \in Procs, j \in Jobs : ReplayJob(p, j)
    \/ AppendFails
    \/ ReadOnly
    \/ \E n \in 1..MaxLog : Sync(n)
    \/ \E batch \in SUBSET Procs : SyncFails(batch)
    \/ \E p \in Procs : Return(p) \/ Poison(p)

Next == Live \/ \E n \in 0..MaxLog : Crash(n)

Spec == Init /\ [][Next]_vars

-----------------------------------------------------------------------------
(* Properties *)

Calls == {c \in [op : {"idle", "submit", "ack", "nack", "reclaim", "replay"},
                job : Jobs \cup {None}, epoch : Nat, lsn : Nat, err : BOOLEAN] :
            c.op \in {"submit", "ack", "nack"} => c.job \in Jobs}
Leases == [job : Jobs, epoch : Nat]

\* The shape of the state: what each field of Store and of the log may hold.
TypeOK ==
    /\ mem \in Mem
    /\ index \in SUBSET Jobs
    /\ nextEpoch \in Nat
    /\ lastLSN \in Nat
    /\ failed \in BOOLEAN
    /\ expired \in SUBSET Jobs
    /\ reserving \in Jobs \cup {None}
    /\ sweeper \in Procs \cup {None}
    /\ sweep \in SUBSET Jobs
    /\ calls \in [Procs -> Calls]
    /\ log \in Seq(Events)
    /\ image \in [0..Len(log) -> Mem]
    /\ stable \in 0..Len(log)
    /\ reported \in stable..Len(log)
    /\ dropped \in BOOLEAN
    /\ used \in SUBSET Jobs
    /\ issued \in Seq(Leases)
    /\ accepted \in SUBSET Jobs
    /\ deduped \in SUBSET Jobs
    /\ acks \in SUBSET Leases
    /\ nacks \in SUBSET Leases
    /\ crashes \in Nat
    /\ faults \in Nat

\* A job whose Submit was answered with success is in the store for ever,
\* whatever crashes follow: Submit answers only after commitDurable.
AcceptedSurvive == \A j \in accepted : mem.jobs[j].state # "Absent"

\* A job whose Ack was answered "accepted" is Done and stays Done across every
\* restart: it is never handed out again.
CompletedStayDone == \A g \in acks : mem.jobs[g.job].state = "Done"

\* A job gets at most one accepted Ack, and one lease is never both acked and
\* nacked with success, however requests are delayed, repeated or reordered
\* around reclaims and restarts.
OneVerdict ==
    /\ \A g, h \in acks : g.job = h.job => g = h
    /\ acks \cap nacks = {}

\* Fencing tokens strictly increase over the whole life of the data directory,
\* although the lease records themselves may be lost in a crash.
TokensIncrease ==
    \A i, k \in DOMAIN issued : i < k => issued[i].epoch < issued[k].epoch

\* Only the newest lease of a job can pass holdsLease: a worker whose lease was
\* reclaimed, or voided by a restart, is fenced.
OnlyNewestLeaseHolds ==
    \A i \in DOMAIN issued :
        HoldsLease(issued[i]) => \A k \in DOMAIN issued :
                                    issued[k].job = issued[i].job => k <= i

\* Replaying the whole log and releasing leases gives the jobs and the
\* idempotency map that the running store has once its leases are released:
\* the unlogged changes of recovery and Heartbeat lose nothing, and the
\* replayed token ceiling is never below the one in use.
ReplayAgrees ==
    LET m == image[Len(log)]
    IN /\ \A j \in Jobs : Released(m.jobs[j]) = Released(mem.jobs[j])
       /\ m.idem = mem.idem
       /\ m.reserved >= mem.reserved

\* What a crash brings back is the replay, from nothing, of the records it left:
\* each image is the one before with one more record applied, as in Open's loop.
LogReplays ==
    /\ image[0] = EmptyMem
    /\ \A n \in 1..Len(log) : image[n] = Apply(image[n - 1], log[n])

\* Recovery rebuilds the jobs that the running store has: apply gives the same
\* result live and in Open's loop.
RecoveryAgrees == LogReplays /\ ReplayAgrees

\* No leasable job is ever stranded: it has an entry in the schedule index or
\* is the one Lease is holding, and nothing else is filed.
NoneStranded ==
    {j \in Jobs : Leasable(mem.jobs[j])}
        = index \cup (IF reserving = None THEN {} ELSE {reserving})

\* The set ReclaimExpired scans is exactly the set of jobs out on lease, so no
\* lease escapes reclaiming.
LeasedSetExact == mem.leased = {j \in Jobs : mem.jobs[j].state = "Leased"}

\* Two jobs accepted as new never share an idempotency key, across restarts.
OneJobPerKey ==
    \A i, j \in accepted :
        mem.jobs[i].key = mem.jobs[j].key /\ mem.jobs[i].key # None => i = j

\* The step hands out a lease of job j.
Delivers(j) == issued' # issued /\ issued'[Len(issued')].job = j

\* Every delivery is charged to the job's budget as one attempt, there is none
\* once the budget and one attempt per restart so far are used up, and a running
\* broker takes back no attempt but of a dead letter, by ReplayJob.  So between two
\* restarts or replays a job is delivered at most maxRetries + 1 times, and once
\* more per restart before, since recovery puts a leased job back without a look
\* at the budget.  A restart also takes back the attempts whose records it lost.
BudgetCharged ==
    [][\A j \in Jobs :
         LET old == mem.jobs[j]
             new == mem'.jobs[j]
         IN /\ Delivers(j) => /\ old.attempt <= old.maxRetries + crashes
                              /\ new.attempt = old.attempt + 1
            /\ crashes' = crashes /\ old.state \notin {"Absent", "DeadLetter"} =>
                 new.attempt >= old.attempt /\ new.maxRetries = old.maxRetries]_vars

\* Once the store is poisoned no job changes any more until the process is
\* restarted.
PoisonFreezesJobs == [][failed /\ crashes' = crashes => mem'.jobs = mem.jobs]_vars

Service == INSTANCE JobQueue

\* The answers clients get, over any number of restarts, are those of a job
\* queue that never stops: a job whose Ack was accepted is not handed out again,
\* only its newest lease completes it, and tokens only grow.
ImplementsJobQueue == Service!QueueSpec

-----------------------------------------------------------------------------
(* What the code does not guarantee *)

\* A job returned to a duplicate Submit is in the store for ever.
DedupedSurvive == \A j \in deduped : mem.jobs[j].state # "Absent"

\* No job is charged with more attempts than its retry budget allows.
RetryBudget == \A j \in Jobs : mem.jobs[j].attempt <= mem.jobs[j].maxRetries + 1

=============================================================================
