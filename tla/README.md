# conveyor in TLA+

conveyor is a single-broker job queue: clients submit jobs, workers lease them
over a stream, and the broker keeps every transition in a write-ahead log so
that acknowledged work survives a crash.  This directory models the broker's
durable core (store, snapshots, log, group committer), the scheduling around it
(index, backoff, dispatcher) and the workers at the other end of its streams,
checks them with TLC, and proves with TLAPS every safety property that the
passing runs check of them.

Paths below are relative to `src/`.

## 1. The system

| Component | State | Operations | Hard behaviour |
| --- | --- | --- | --- |
| **Store** `internal/broker/store.go`, `event.go`, `internal/job/job.go` | job map, idempotency map, leased set, schedule index, token counter and reserved ceiling, `lastLSN`, `failed` | `Open`, `Submit`, `Lease`, `Ack`, `Nack`, `Heartbeat`, `ReclaimExpired`, `ReplayJob`, reads | a transition is applied in memory before it is durable and answered after; lease records are never flushed; recovery changes jobs without logging it; a failed flush poisons the store later than it happens |
| **Snapshots and recovery** `store.go` 905-1070 | snapshot files, the log's first segment | `Snapshot`, `loadLatestSnapshot`, `pruneSnapshots` | jobs are marshalled after the lock was released; the LSN recorded may not be flushed; truncation; unreadable files |
| **Write-ahead log** `internal/wal/wal.go` | segments, buffer, `nextLSN`, `w.mu`, `w.fileMu` | `Append`, `AppendSync`, `Sync`, rotation, `TruncateBefore`, `Replay`, `Close`, `Open` | a rotation between the write of a flush and its fsync; torn tails; writes that fail part-way |
| **Group committer** `internal/broker/commit.go` | waiters, running flag | `commit`, `flushLoop` | one flush answers many callers; a caller joining as the loop stops |
| **Schedule index** `internal/broker/index.go` | ready and delayed heaps per queue | `push`, `promote`, `pop`, `nextDeadline` | entries that outlive the transition they were filed for; every stored time is a wall-clock time |
| **Dispatcher** `internal/broker/dispatcher.go` | streams, slots, job owners | `Run`, `dispatch`, `release`, `register`, `unregister`, `reclaimExpired` | slots released after the store call returned; a blocking send in the loop that also reclaims leases |
| **RPC server** `internal/broker/server.go` | none | one handler per request | store call, then release: not atomic |
| **Backoff** `internal/job/backoff.go` | none | `Backoff` | shift overflow |
| **Worker pool** `internal/worker/pool.go` | executions | `Run`, `execute`, `heartbeat`, `ack`, `nack` | deadline fixed at the first lease, while heartbeats extend the lease |
| Handlers, broker process, command line, metrics, generated protocol code | - | - | no decision of the queue is taken here |

Interaction: the RPC server and the dispatcher call the store; the store
appends to the log under `s.mu`, releases it and waits in the committer, whose
`flushLoop` calls `Sync`.  A token reservation flushes through `AppendSync`
while `s.mu` is held.  `Snapshot` runs on a ticker and truncates the log.
Workers only see RPC answers; whatever they send may be late or repeated.

What makes each part correct:

* Store: an answered Submit and an answered Ack survive every crash; fencing
  tokens strictly increase; only the newest lease of a job can decide it; a
  job gets one verdict; no job is stranded outside the index; no lease escapes
  reclaiming; one job per idempotency key; every delivery is charged to the
  job's budget.
* Snapshots: recovery from a snapshot and the rest of the log loses nothing.
* Log and committer: a caller that is told "durable" finds its record again,
  at its own LSN; every caller is answered.
* Dispatcher: slots in use agree with jobs out on the stream; the loop that
  reclaims leases always gets on, and ends when the process is told to stop.
* Index: the heaps hold exactly what can be leased, the best eligible job comes
  out first, and none waits longer than a tick to be noticed.
* Backoff: within its bounds, and growing, whatever base and cap are set to.
* Worker: its lease is renewed before it ends; what it abandons comes back.

`PROJECT.json` lists the hazards line by line, with the properties that watch
them.

## 2. Modules

| Module | Models | Composes |
| --- | --- | --- |
| `Store` | the store over the contract of the log | |
| `StoreInv` | the inductive invariant of `Store` | extends `Store` |
| `StoreProofs`, `StoreRebuildProofs`, `StoreServiceProofs` | theorems about `Store`: shape, durability and tokens; recovery, keys, budget, index; fencing, verdicts and the refinement | each extends the one before, the first `StoreInv` |
| `StoreSnapshot` | store, snapshots, truncation, recovery | extends `Store` |
| `SnapshotProofs` | theorems about it, with their inductive invariant | extends `StoreSnapshot` and `StoreRebuildProofs` |
| `DurableLog` | abstract: what log and committer promise | |
| `DurableLogProofs` | the theorem about that contract | extends `DurableLog` |
| `Wal` | log and committer step by step | implements `DurableLog` |
| `WalProofs` | theorems about them and that refinement, with their inductive invariant | extends `Wal` |
| `JobQueue` | abstract: the answers clients may be given | implemented by `Store` |
| `Backoff` | the retry delay, on words of a given width | |
| `ScheduleIndex` | heaps, entries and the loop's sleep over integer time | extends `Backoff` |
| `ScheduleProofs` | theorems about `Backoff` and `ScheduleIndex`, with their inductive invariant | extends `ScheduleIndex` |
| `Dispatcher` | streams, slots, channels, the loop, the RPC handlers | |
| `Worker` | the worker pools, composed with the dispatcher | extends `Dispatcher` |
| `WorkerInv` | the inductive invariant of dispatcher and workers | extends `Worker` |
| `WorkerProofs` | theorems about them | extends `WorkerInv` |
| `MCStore`, `MCStoreSnapshot`, `MCWal`, `MCSchedule`, `MCWorker` | instances for TLC | |

### Store

A job is the record of the fields some decision reads: state, attempt, epoch,
key, retry limit; a job that is not in `s.jobs` is in state `Absent`.
`mem` is what `apply` maintains; `log` is the sequence of records and
`image[n]` the memory that replaying the first `n` of them gives, so a crash
that keeps `n` records opens on `image[n]`.

| Action | Code |
| --- | --- |
| `Submit`, `SubmitDuplicate` | `Submit`, new and existing key |
| `ReserveEpochs`, `EpochsReserved`, `ReserveFails` | `nextEpochLocked`, `reserveEpochsLocked`: append, then flush with `s.mu` held; success; failure |
| `Lease`, `LeaseRefused` | `Lease`; its record refused |
| `Ack`, `Nack`, `Heartbeat` | the same, presented with any lease ever issued |
| `ReclaimExpired`, `ReclaimOne`, `ReclaimCommit`, `ReclaimAborts` | the sweep under `s.mu`, one lease after the other, its one commit, its early return |
| `ReplayJob`, `AppendFails`, `ReadOnly` | the same; a failed `wal.Append`; reads and refused requests |
| `Sync`, `SyncFails`, `Return`, `Poison` | `commitDurable`: a flush covers a prefix, or fails for its batch; the waiter answers, or takes `s.mu` and poisons |
| `LeaseExpires` | the clock |
| `Crash` | the process dies and `Open` runs: `LogCut` (what is left), `Open` (`recoverLeasedLocked`, `rebuildIndexLocked`, tokens) |

Abstractions: times are left out - a lease may expire and a leasable job may
be eligible at any moment, which covers every clock.  The index is the set of
filed jobs.  Queues, priorities, payloads and errors decide nothing here
(`Keys` stands for the pair of queue and key).  A flush may begin before
records it does not cover; `Sync(n)` is the moment it reports success for the
first `n`.

`DropsPages` says what a failed fsync leaves behind.  `FALSE`: the pages are
still there for the next flush.  `TRUE`: the OS may have discarded them, and a
later flush reports success without them - the case the comment at
`internal/broker/store.go:207-222` is about.

### StoreSnapshot

`Snapshot` in stages: `SnapshotBegin` reads the LSN, the ceiling and the
pointers under the read lock; `SnapshotMarshal(j, f)` re-reads one field of
one job at any later moment, which is what marshalling through shared pointers
can see (the marshaller may also see a field's first value: the step is
optional); `SnapshotPublish`, `SnapshotTruncate`, `SnapshotPrune` follow, and
any of them may fail.  `CrashWithSnapshots` loads the newest readable file and
replays the records that are left over it, one by one (`Replayed`); `apply` refuses a transition of an
unknown job, and then `Open` fails (`down`).  The history variables `ahead`
and `gap` record that a recovery met a snapshot newer than the log, or older
than the truncated log.

### Wal

A record is its number of appending, sizes are counted in records, and `Torn`
stands for bytes that fail the length or checksum test.  Each goroutine has a
program counter through `Append` / rotation / `commit` / `Sync`; `w.mu` is
kept across steps only by a rotation (`rotator`), `w.fileMu` for reading by
every goroutine in `fsync`.  A write may fail part-way (`WriteFails`): the code
keeps the whole buffer and a later write repeats it behind the torn piece.
`Crash` keeps what was flushed and any prefix of the rest, perhaps ending in
half a record.  `Close` may fail before it has written anything, part-way through
the write (`CloseWriteFails`) or in the flush behind it (`CloseFails`).  After a
failed fsync the pages are still there for the next one; a kernel that forgets
them is the case `DropsPages` of `Store`.

### JobQueue

Four variables - the jobs accepted, the leases handed out, the Acks and the
Nacks accepted - and one action per answer.  There is neither a log nor a
crash: a restart is not an answer, so the store's `Crash` must be a stutter.
`Store` implements it with its history variables under their own names
(`ImplementsJobQueue`).  A Nack may be answered late, after the job was handed
out again or completed, because `commitDurable` waits without `s.mu`; an Ack
may not, because its job is done from the moment it is recorded.

### ScheduleIndex and Backoff

`now` is the wall clock.  A heap is the bag of its entries, which are copies of
a job's key as in `indexEntry`; both orders are total, so what a heap decides
is which entry comes out first (`Less`).

| Definition | Code |
| --- | --- |
| `Push`, `Elapsed`, `Promoted`, `Deadlines` | `push`, `promote`, `nextDeadline` |
| `Valid`, `Runs`, `Refiled`, `Take` | the pop loop of `Store.Lease`: superseded entries are dropped, early ones filed again |
| `Lease`, `LeaseRefused`, `LeaseNothing` | its three returns |
| `Submit`, `Ack`, `Retry`, `DeadLetter`, `ReplayJob` | the store's operations, as far as they touch the index |
| `Record`, `Flush` | `recordLocked`; the records reach the disk, with a flush of some caller or by chance |
| `Restart` | a crash, and `Open` over what is on disk: `recoverLeasedLocked`, `rebuildIndexLocked`; records that were not flushed (a lease never is by itself) are lost with what they changed |
| `Wake`, `Sleep`, `SleepFor` | the end of `Dispatcher.Run`'s loop, `sleepFor` |
| `TimePasses`, `ClockSet` | time passes; the wall clock is set, back or ahead |
| `Shift`, `Ceiling`, `Delays` | `Backoff`, as the set of delays the jitter allows |

Abstractions: workers of the queues in `Served` always have room, nobody serves
the others; passes of the loop take no time.  Every time the code stores or
compares is `time.Now().UTC()`, and `UTC` strips the monotonic reading, so jobs
and entries are compared by the wall clock: `ClockSet` may set it to any value
at any step, and `Restart` may find it anywhere.  The timer of the loop is
monotonic: `loop.until` moves with the clock when that is set.  What waits for
how long is measured in elapsed time (`waited`), of which only `TimePasses` has
any.  `disk` is what replay would give; a job that recovery took off a lease is
still leased there (`recovered`), since no record says otherwise.  The floor of a
millisecond in `sleepFor` is below the unit of the clock.

### Dispatcher and Worker

The store appears by what its operations decide at once under `s.mu`; a call
that waits for its flush, and then releases the slot, is in `calls`.  Leases
are numbered by their token.  A job's expiry is `first` (as issued), `renewed`
by a heartbeat, or `passed`.

| Action | Code |
| --- | --- |
| `LoopReclaim`, `LoopRelease` | `reclaimExpired`: the sweep, which may end early with what it has, then the releases; the streams `dispatch` will visit |
| `LoopSkip`, `LoopLease`, `LoopOwn`, `LoopSend`, `LoopEndPass` | `dispatch`, stream by stream, with `d.mu` released between the steps |
| `LoopExit`, `Stop` | the select of `Run` takes `ctx.Done()`; the broker gets a signal |
| `Register`, `StreamSend`, `Unregister` | `Server.Lease` |
| `Ack`, `Nack` (`Settle`), `CallReleases`, `CallFails` | the handlers: the store's decision, and later the release or the error |
| `Connect`, `Receive`, `StreamBreaks`, `WorkerStops`, `WorkerDies` | `Pool.Run`, a broken stream, SIGTERM, `kill -9` |
| `Deadline`, `Beat` | the deadline of `jobCtx`; `heartbeat` |
| `HandlerSucceeds`, `HandlerFails`, `ReportLost` | the end of `execute` with its report |
| `PoolLease`, `AskedMillis`, `ClampLease`, `GivenLease`, `HeartbeatInterval` | lease lengths: the pool's own, the whole milliseconds it asks for, what the broker makes of them, and the interval, which goes by the pool's own |

Abstractions: there is one queue, and which ready job the store picks is left
open (`ScheduleIndex` decides that).  A response inside `stream.Send` counts as
delivered.  The channel of a stream whose context is done counts as empty, for
nobody reads it any more.  The way of a report to the broker is part of the
execution, so reports may be late, overtake one another or get lost.  After
`WorkerDies` the broker goes on sending to a `silent` stream until the
connection is found broken.  A heartbeat that gets no answer changes nothing
and is not a step.  `failed` stands for a poisoned store and for a log that takes
no more records alike.  Times appear by the moment they are passed, in any
order; a clock that is set is the business of `ScheduleIndex`, and here it would
only move those moments.  The broker process itself does not crash here; what that
does to leases is the business of `Store`.

## 3. Runs

| Run | Configuration | Result |
| --- | --- | --- |
| `store` | 2 jobs, 1 key, 2 callers, blocks of 2 tokens, 6 records, 4 tokens, 2 crashes, 1 failed disk operation | pass, 14 properties, 0.9 million states |
| `store_dedup` | 4 records, 1 crash | violation, see below |
| `store_budget` | 6 records, 1 crash | violation |
| `store_fsync` | `DropsPages`, 4 records, 1 crash, 1 fault | violation |
| `snapshot` | 2 jobs, 1 caller, 4 records, 2 tokens, 2 snapshots, 1 kept, 1 unreadable file, 2 crashes | pass, 5 properties, 1.8 million states |
| `snapshot_ahead` | 5 records, 2 snapshots, 2 crashes | violation |
| `snapshot_fallback` | 2 files kept, 1 unreadable, 1 crash | violation |
| `wal` | 2 callers, segments of 2 records, 3 appends, 1 fault, 1 crash | pass, 6 properties, 0.35 million states |
| `wal_liveness` | 2 callers, segments of 1 record, 2 appends, 1 fault, 1 crash | pass, 45 thousand states |
| `dispatcher` | 2 jobs (one with a retry), 2 streams of 1 slot, 4 events from outside | pass, 9 properties, 0.2 million states |
| `worker_deadline` | the same, without fairness | violation |
| `schedule` | 2 jobs, 2 queues of which 1 is served, 2 priorities, clock 0..2, tick 2, 2 faults (restarts, refused leases, settings of the clock), 1 record not yet on disk; words of 6 bits | pass, 5 properties, 2.8 million states |

What the passing runs show:

* `store`: the promises of section 1, with any interleaving of two callers, a
  sweep and a reservation.  `RecoveryAgrees` shows that each record of the log
  takes one image to the next, and the last image to the running jobs: `apply`
  gives live and in `Open`'s loop the same result, although recovery and
  Heartbeat change jobs without a record.  `PoisonFreezesJobs` is about steps: after poisoning no
  job changes.  `BudgetCharged` is the budget the code does keep: a delivery
  costs an attempt, there is none beyond the budget and one attempt per restart,
  and a running broker takes no attempt back but when a dead letter is replayed.
  It bounds the deliveries between restarts, not over them: lease and fail records
  that were never flushed are lost in a crash together with the attempts they
  charged, several at a time.  `Inductive` is the invariant of section 4.
  `ImplementsJobQueue` is the refinement: over any number of restarts clients
  see a queue that never stopped.
* `snapshot`: torn snapshots, truncation and pruning lose nothing, keep tokens
  increasing and let the broker start, as long as the log reaches the loaded
  snapshot and the snapshot reaches the truncated log.  The two violations
  show how each half of that condition can fail.
* `wal`: a confirmed record is readable at its LSN after any crash,
  replay is gapless, no waiter is lost, and the pair implements `DurableLog`;
  all but the last two for files no write has failed part-way in, the case the
  contract calls lossy.  `ReadableStays` holds for damaged files too: a torn
  piece and the buffer repeated behind it never take back a confirmed record
  that could be read.
* `wal_liveness`: every caller inside the log or the committer gets out.
* `dispatcher`: slots are exact (`SlotsExact`) and a worker's limit is kept
  (`CapacityKept`) unless a release was overtaken: the store has put a failed
  job back and the loop has handed it out again before the Nack that failed it
  releases its slot.  Then the release hits the new owner, a slot of the old
  stream stays taken until it disconnects, and the new one may get a job too
  many; `pool.go:36-38` and `queue.proto:36` promise the limit without that
  exception.  `BlocksOnlyBehindStale` says when the loop can block on a
  channel: only if a lease ended while its job was still in the channel, or
  after an overtaken release (`dispatcher.go:26` says never).  Blocking does no
  harm for long: `ReadyJobsLeased`, `AbandonedJobsComeBack` and `ShutdownEnds`
  hold all the same.  `Slots` is the invariant of section 4.  `RenewsInTime`: the interval comes from the lease the
  pool is configured with, the expiry from the whole milliseconds it asks for and
  the broker's clamp.  The heartbeat is due before the expiry for leases of
  1.001 s up to (not including) three hours, and for those below a millisecond,
  which are asked for as 0 ms and given the default; for no others.
* `schedule`: `EntriesExact` shows that the superseded entries the code guards
  against do not come up, and that the branch it calls defensive
  (`store.go:538`) is needed whenever the wall clock is set back behind an entry
  that was already promoted.  `BestFirst` judges each lease by the clock of that
  moment, whatever it was set to before.
  `NoticedWithinTick` is what `sleepFor` achieves, in elapsed time: a clock set
  ahead makes jobs eligible while the loop sleeps, one set back makes them wait
  again, and neither moves the timer; the comment above it
  promises to wake up as soon as a delayed job becomes eligible, which an
  overdue job of a queue without workers prevents.  `BackoffSound` compares
  `Backoff` with doubling on unbounded integers over all bases and caps of the
  word: the delay is within its bounds always, and right as long as
  `base << shift` is below twice the range of positive durations; beyond that
  (a base just above 2^32 ns, some four seconds, after 33 failures) it can wrap
  to a small positive delay, which `backoff.go:15` rules out.

Bounds.  Two jobs, because the interesting conflicts are between two leases of
one job or between two submissions of one key; two callers, since a flush
shared by two is the smallest group commit; six records hold a reservation,
a submission, two leases with a verdict between them, and one more; blocks of
two tokens and four tokens reach a second reservation; two crashes let a
recovery run on what a recovered store wrote.  For the log, segments of two
records and three appends give one rotation with records on both sides.
For the dispatcher, two streams of one slot are enough for a job to move
from one worker to another around a late call, and for the loop to block on one
while the other has room; `MaxEvents` bounds submissions, connections, breaks,
kills, the poisoning and the signal together, so that any four of them meet
rather than two of each.  For the index, the second queue is there to be
overdue; two faults are enough to set the clock ahead and back again, or to
restart with a clock that was set; one record that is not on disk is enough to
lose a lease, a retry or a submission.  Words of six
bits and shifts up to three wrap to negative and, twice around, to positive
values, as 64 bits and a shift of 32 do.
Symmetry over jobs and callers is used for invariants and for action
properties; the runs with liveness properties have none.  A bounded log makes actions
with a record disabled at the bound; `ReadOnly` keeps such states from being
deadlocks, as the code's reads do.

Fairness (`FairSpec`), for `wal_liveness`: strong fairness for each goroutine's
steps inside the log and the committer.  A disk operation ends, and `w.mu` is
taken by whoever keeps asking for it, even though others hold it now and then:
Go's mutex hands over to a waiter that has starved.  A pending writer of
`w.fileMu` likewise gets in.  Nothing is assumed about callers, crashes,
`Close` or faults.

For `dispatcher`: weak fairness of the loop, of each stream's handler and of
each job's clock - a goroutine that can run does, `stream.Send` ends with
success or with the connection, time passes - and strong fairness of
`LoopExit`, because Go's select picks among the cases that are ready at random
and so takes `ctx.Done()` sooner or later.  Nothing is assumed about workers:
a handler may run for ever while heartbeats renew its lease, reports may be
lost, and the store's flushes may fail.

### Disagreements between code and documentation

* `store_dedup` - `store.go:466`: a duplicate Submit answers with the existing
  job without waiting for that job's own flush; a crash then loses it.
  `scripts/crash_test.sh:11`: "a job whose Submit returned successfully is
  durable."
* `store_fsync` - `store.go:223`: after a failed flush, other flushes are
  attempted and believed until a waiter of the failed one has taken `s.mu`;
  a failed reservation or rotation does not poison at all.  The comment at
  `store.go:214` says "A failed flush poisons the store".
* `store_budget` - `store.go:340`: a restart puts a leased job back without a
  look at its budget.  `README.md:122`: "A job that exhausts its retry budget
  is dead-lettered rather than retried forever".
* `snapshot_ahead` - `store.go:921`: a snapshot may account for records that
  were never flushed (they may still be in the log's own buffer, which a killed
  process loses); after a crash their LSNs are used again and the
  next recovery skips the new records.  `README.md:17`: "a job the broker has
  acknowledged survives a `kill -9`".
* `snapshot_fallback` - `store.go:953`: the log is truncated up to the newest
  snapshot, so the older file that is kept has nothing to continue from.
  `store.go:27`: keeping more than one "means a snapshot that turns out to be
  unreadable does not cost us the whole recovery".
* `worker_deadline` - `pool.go:90`: the handler's context ends when the lease
  as first issued does, whatever the heartbeats have renewed since; a handler
  that takes longer than one lease is cancelled and nacked, every time.
  `queue.proto:48`: "Heartbeat renews a job's lease so a long-running handler
  isn't reclaimed as if it had crashed."

## 4. Proofs

All theorems hold for every number of jobs, keys, callers, streams, slots and
queues, and for any value of the bounds.  The assumptions on constants are the
named `ASSUME`s of the modules, which TLC evaluates in every run.

### Store

| Theorem | States | Disk |
| --- | --- | --- |
| `StoreProofs!TypeCorrect` | `TypeOK` | any |
| `StoreProofs!LeasedSetIsExact`, `PoisonedStoreIsFrozen` | `LeasedSetExact`, `PoisonFreezesJobs` | any |
| `StoreRebuildProofs!RecoveryRebuilds`, `KeysAreUnique`, `DeliveriesAreCharged`, `NoJobIsStranded` | `RecoveryAgrees`, `OneJobPerKey`, `BudgetCharged`, `NoneStranded` | any |
| `StoreProofs!FencingTokensIncrease`, `AcceptedJobsSurvive`, `CompletedJobsStayDone` | `TokensIncrease`, `AcceptedSurvive`, `CompletedStayDone` | `DropsPages = FALSE` |
| `StoreServiceProofs!InductiveHolds`, `StaleLeasesAreFenced`, `VerdictsAreUnique`, `StoreImplementsJobQueue` | `Inductive`, `OnlyNewestLeaseHolds`, `OneVerdict`, `ImplementsJobQueue` | `DropsPages = FALSE` |
| `DurableLogProofs!ConfirmedRecordsAreStable` | the contract of the log implies that what was confirmed survives | undamaged |

`DropsPages = FALSE` is needed where it is assumed: `store_fsync` is the
counterexample without it.

The argument.  None of the promises is inductive by itself, because they speak
of the running memory, and a crash replaces it by `image[n]` for any `n` from
`stable` to the end of the log (`Cuts`).  So `Inductive` states each promise of
every image a crash could choose.

* `Durable`: `AcceptedInv`, `DoneInv`: an answered job is present (done) in
  memory and in every image in `Cuts`; one whose caller is still waiting, from
  the caller's LSN on.  When the flush covers that LSN, `stable` has passed it,
  and the second statement becomes the first.  `TokenInv`: every token issued
  is at most the ceiling in every image in `Cuts`, so `Open` resumes above all
  of them.  That needs: while tokens of a block remain, its reservation is in
  every cut - true because `AppendSync` flushed it - and while a reservation is
  under way its record is the last word on the ceiling, because `s.mu` is held.
  `UsedInv`: an ID that is drawn fresh has no record, so Submit overwrites
  nothing.  `LockInv`: `s.mu` has one holder; the job Lease holds is leasable,
  the leases a sweep visits are still leased (so a verdict never hits a done
  job).  `LeasedSetExact` and `Healthy` (flushed is stable) carry these.
* `OnAnyDisk`: `RebuildInv` keeps replay and the running store in step - a job
  may differ only in a lease that recovery released, and one on lease is on
  lease in the log; `KeysInv` and `BudgetInv` hold of the memory and of every
  image, since a crash may bring any of them back.
* `VerdictInv`: an accepted Ack completed its job under its own lease, an
  accepted Nack spent its lease, in memory and in every cut; a waiting one from
  its record on, and a waiting Ack holds the newest lease.  This is what makes
  each answer a step of `JobQueue`: the refinement needs, at the moment of
  `Return`, that no other verdict was answered meanwhile.

`Durable` has one step lemma per part with a case per action.  The later parts
reason by kind of step instead (`StepKinds`): every step of `Next` is a record
that the guards of its operation make legal (`Legal`), a reservation written, a
reservation applied, a crash, or quiet.  Lemmas about `Apply` (what it does to
the ceiling, to a job's state, to presence, to keys) serve the live step and
the new image alike.

### Snapshots

| Theorem | States | Disk |
| --- | --- | --- |
| `SnapshotProofs!SnapshotsAreWellTyped`, `DeletedRecordsAreCovered`, `RecoveryStarts` | `SnapTypeOK`, `TruncatedIsCovered`, `StartsUp` | any |
| `SnapshotProofs!SnapshotsLoseNothing`, `TokensSurviveSnapshots` | `NothingLost`, `TokensSurvive` | `DropsPages = FALSE` |

`StartsUp`, `NothingLost` and `TokensSurvive` speak of executions in which every
recovery found snapshot and log meeting (`Intact`); `snapshot_ahead` and
`snapshot_fallback` show that both conditions are needed.  The theorems cover
idempotency keys and failed disk operations too, which the runs leave out.

The argument.  A snapshot is not the memory of any moment: its fields were read
at different times after `s.mu` was released.  What it does have is monotone:
jobs and completions are never taken back (`Kept`), and jobs that the log up to
its LSN does not have are not in it, because their pointers were not collected
(`Known`).

* `CoverInv`: the running store and everything recovery may start from
  (`Origins`: readable files, the snapshot in progress, nothing at all) is
  `Kept` and `Known` with respect to the image at its LSN.  It follows that
  replaying the records behind a snapshot never meets an unknown job, and ends
  with a memory that has everything `image[n]` has (`ReplayCovers`).
* `LogInv`: images only gain jobs and completions along the log, and no record
  is about a job that is not in the image before it.
* `FilesInv`: a newest file exists, the file just published is there when the
  log is truncated, and `TruncatedIsCovered`.
* `SnapDurable`: `Durable` of the store, and `CeilingInv`: an origin behind
  which no reservation is left has a ceiling that no token exceeds.  The
  obvious invariant, that a snapshot's ceiling is that of the log at its LSN,
  is false: after a failed reservation whose record stays in the log, the store
  takes a snapshot with the ceiling of its memory, which is lower.  No token of
  that block was handed out, which is what `CeilingInv` keeps track of.

`Replayed` is a recursive function.  That it exists and has the expected value
at every record is proved by its least counterexample (`LeastNumber`,
`AllNumbers`, `ReplayRun`), which needs no induction theorem with an operator as
a parameter.  (The inductive invariant was model-checked, with a failing
disk operation, before it was proved.)

### Write-ahead log and committer

| Theorem | States |
| --- | --- |
| `WalProofs!LogKeepsItsInvariant` | the inductive invariant `WalInv` |
| `WalProofs!LogIsWellTyped`, `NoCallerIsForgotten` | `WalTypeOK`, `NoLostWaiter` |
| `WalProofs!ReplayKeepsLSNs`, `ConfirmedRecordsAreReadable`, `ReadableRecordsStay` | `ReplayInOrder`, `ConfirmedReadable`, `ReadableStays` |
| `WalProofs!LogImplementsContract` | `ImplementsDurableLog`, the contract `Store` is built on |

They hold for any number of callers, any segment size and any number of failed
disk operations and crashes.

`WalInv` has six parts.  `DiskInv`: types.  `LockInv`: who holds `w.mu`, who is
in the queue, who is in the batch, and that a flushLoop serves them; a rotation
keeps `w.mu` with an empty buffer.  `PlaceInv`: an entry is never beyond the
place its LSN has in its segment - this survives a write that failed part-way
and was repeated, and is why damage spreads only backwards from where it was
done (`ReadableStays`).  `ExactInv`: in an undamaged log every record is exactly
at that place and segments follow one another without a gap.  `FlushInv` and
`CoverInv`: whoever a flush will answer has its LSN at or below the flush's
target, and its record in a file or in the buffer; once the flush is in fsync,
before its mark.  The rotation between a flush's write and its fsync is the
delicate step: it is only possible before the flush holds `w.fileMu`, and it
flushes the segment itself.

The proof separates files from control.  Each step is of one of seven kinds as
far as the files go (`FileStep`: `Stays`, `Grows`, `Frames`, `Rotates`,
`Truncates`, `Cuts`, `Opens`), and `PlaceInv` and `ExactInv` have one lemma per
kind; callers, flushes and claims have their own three kinds of change.  After a
crash the invariant of the running log is replaced by what the crash leaves
(`LeftInv`) until `Open` has restored it.

For the refinement, `stable` is mapped to the last LSN up to which every record
can be read.  That there is one is a pigeonhole argument: there are fewer
records than numbers (`SomeMissing`).  `ContractKinds` then says what each step
is to the contract: framing a record is `AppendOne`, a failed write is
`Damage`, `Open` is `Restart`, and any other step, a crash included, leaves the
length alone and is a `Flush` or a stutter.

### Dispatcher and workers

`WorkerProofs`: `TypeCorrect`, `CapacityHolds`, `SlotsAreExact`,
`BlockedOnlyByStale` and `LeasesAreRenewedInTime` state `TypeOK`,
`CapacityKept`, `SlotsExact`, `BlocksOnlyBehindStale` and `RenewsInTime`.
`RenewsInTime` enumerates the lengths up to three times the maximum; the lemma it
rests on, `IntervalWithinLease`, is about every integer.  The assumptions are those of the
constants in the code: a second is whole milliseconds, the default lease is
longer than a second and at most the maximum (`server.go:18-20`).

Three tables - the leases of the store, `jobOwner` and the slot counts - are
changed at different times by the loop, the handlers and broken streams.
`Slots` (section 3 checks it, `SlotsHold` proves it) says how far they may be
apart: what the loop holds between `Lease` and the send is valid, known to
nobody else, and its stream keeps room for it (`HandInv`); channels hold leases
of their own stream, once (`ChannelInv`); what a sweep took back is not leased
again before it is released (`SweepInv`); a job with a pending release is on
lease only if its slot is still to be charged, or a release was overtaken
(`CallsInv`); a stream never owns more jobs than it has slots in use
(`OwnedInv`, which holds even then); a valid lease with a slot is recorded for
its stream (`OwnerInv`), and what is recorded is leased or about to be released
(`SlotInv`).  Every step is undisturbing, a release, the end of some leases, or
one of five steps of the loop and the streams; each kind has its lemma.  Nothing
is assumed finite: a set of owned jobs is shown finite on the way.
`BlocksOnlyBehindStale` then is a count: if every lease in a full channel were
valid, the stream would own more jobs than it has slots.

### Schedule index and backoff

`ScheduleProofs`: `BackoffIsSound`, `ScheduleTypeCorrect`, `IndexIsExact`,
`NoticedInTime` and `BestJobFirst` state `BackoffSound`, `SchedTypeOK`,
`EntriesExact`, `NoticedWithinTick` and `BestFirst`.

`BackoffIsSound` is arithmetic, for any word size, base and cap: a product
below twice the positive range is kept or turns negative (`WrapOnce`), so the
ceiling is the smaller of product and cap.  The prover knows nothing of powers;
that they are positive and grow is `PowerAssumption`, which TLC evaluates for
the shifts of the run.

`ScheduleInv` has five parts.  `HeapsInv`: the two heaps of a queue are sets
(no entry twice), disjoint, and together the keys of the jobs that may be
leased; so every popped entry is current, what `Lease` passes over before its
candidate is merely early and goes back to the delayed heap, and nothing is
dropped.  It does not mention the clock, which is why setting it disturbs
nothing.  `JobsInv` bounds times and attempts; a waiting job has one attempt
fewer than a leased one, plus one per fault.  `DiskInv` says the same of what is
on disk, so that a restart that loses records finds jobs of that shape.  `LoopInv`
is the shape of the loop; that its timer is set to the future and at most a tick
ahead needs a least deadline to exist, which comes from the well-foundedness of
the naturals.  `NoticeInv`: an eligible job of a queue that a pass is done with
has waited for no time yet, and while the loop sleeps, what an eligible job has
waited and what is left of the timer add up to at most a tick.  Both are
elapsed time, so `ClockSet` moves neither; it can only make jobs eligible, which
then start from zero, or no longer eligible.
`BestJobFirst` follows from `HeapsInv`: the eligible jobs of the queue are
exactly the candidates, and `Less` orders their keys as `Before` orders jobs.

### Only model-checked

* Liveness (`CallersReturn`, `ReadyJobsLeased`, `AbandonedJobsComeBack`,
  `ShutdownEnds`): fairness and ENABLED are out of the prover's reach.
* The six disagreements of section 3: a counterexample is a trace, and TLC
  prints it.

## 5. Not modelled

* Byte framing and checksums: whole and torn records stand for them.
* RPC conversion, request validation, queries, metrics, command line,
  generated code: no decision of the queue depends on their state.  Handlers
  run a process or an HTTP request; in `Worker` they return, or not, at will.
* The `bench` command and the tests drive the system from outside with
  requests the models already send in any order.
* `JobQueue` says nothing of retries and dead letters: the budget is a matter
  of `BudgetCharged`.  ReplayJob is modelled in `Store` and `ScheduleIndex`,
  not in `Dispatcher`, where a replayed job is like one just submitted.
* In the runs of `StoreSnapshot` the disk does not fail (`MaxFaults = 0`) and
  there are no idempotency keys: TLC explores both in `store` and `wal`, and the
  theorems of `SnapshotProofs` cover them.

## 6. State of the project

The components whose state decides anything are modelled.  Every invariant,
action property and refinement of the passing runs is proved; liveness stays
with TLC.  A change of the code goes through the model first: change the action
its map entry names, let the runs decide whether the properties still hold, and
then repair the lemma about that action (or kind of step).
