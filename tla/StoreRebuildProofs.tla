------------------------- MODULE StoreRebuildProofs -------------------------
(***************************************************************************)
(* What holds of Store on any disk: replaying the log rebuilds the running *)
(* store, keys lead to one job, the retry budget is exceeded by at most    *)
(* one delivery per restart, and no leasable job is stranded.              *)
(*                                                                         *)
(* The argument is by kind of step (StepKinds): a record that the guards   *)
(* of its operation make legal, a reservation written, a reservation       *)
(* applied, a crash, or a step that touches neither jobs nor log.          *)
(***************************************************************************)
EXTENDS StoreProofs

-----------------------------------------------------------------------------
(* Kinds of steps *)

\* What the guards of the operations establish about the event they record.
Legal(e) ==
    \/ /\ e \in SubmitEvents
       /\ e.job \notin used
       /\ e.key # None => mem.idem[e.key] = None
    \/ /\ e \in LeaseEvents
       /\ Leasable(mem.jobs[e.job])
       /\ e.attempt = mem.jobs[e.job].attempt + 1
       /\ e.epoch = nextEpoch
    \/ /\ e \in AckEvents
       /\ mem.jobs[e.job].state = "Leased"
    \/ /\ e \in FailEvents
       /\ mem.jobs[e.job].state = "Leased"
       /\ e.attempt = mem.jobs[e.job].attempt
       /\ e.next = Verdict(e.job)
    \/ /\ e \in ReplayEvents
       /\ mem.jobs[e.job].state = "DeadLetter"

\* Who waits for a record: only its own caller starts to, and an Ack or Nack
\* does so under a lease that passed holdsLease.
Waiters(e) ==
    \A q \in Procs :
        \/ calls'[q] = calls[q]
        \/ calls'[q].op \notin {"ack", "nack"}
        \/ /\ calls'[q].lsn = Len(log) + 1
           /\ \E g \in Grants : /\ HoldsLease(g)
                                /\ e.job = g.job
                                /\ calls'[q].job = g.job
                                /\ calls'[q].epoch = g.epoch
           /\ \/ calls'[q].op = "ack" /\ e.type = "ack"
              \/ calls'[q].op = "nack" /\ e.type = "fail"

\* A record about a job.
Recorded(e) ==
    /\ Legal(e)
    /\ RecordLocked(e)
    /\ Waiters(e)
    /\ reserving' = None
    /\ issued' = IF e.type = "lease" THEN Append(issued, [job |-> e.job, epoch |-> nextEpoch])
                 ELSE issued
    /\ UNCHANGED <<accepted, acks, nacks, crashes>>

\* The record of a reservation, not applied yet.
ReservationWritten ==
    /\ AppendRecord(ReserveEvent)
    /\ nextEpoch > mem.reserved
    /\ UNCHANGED <<mem, nextEpoch, calls, issued, accepted, acks, nacks, crashes>>

\* A step after which nobody was answered and nobody began to wait for a verdict.
NoAnswer ==
    /\ UNCHANGED <<accepted, acks, nacks>>
    /\ \A q \in Procs : \/ calls'[q].op \notin {"ack", "nack"}
                        \/ /\ calls'[q].op = calls[q].op
                           /\ calls'[q].job = calls[q].job
                           /\ calls'[q].epoch = calls[q].epoch
                           /\ calls'[q].lsn = calls[q].lsn

\* Neither the jobs nor the log, and no reservation begins.
Quiet ==
    /\ UNCHANGED <<mem, log, image, issued, crashes>>
    /\ stable' \in stable..Len(log)
    /\ reserving' = None \/ UNCHANGED <<reserving, nextEpoch>>
    /\ NoAnswer \/ \E p \in Procs : Return(p)

\* A legal event is an event about a job.
LEMMA LegalType ==
    ASSUME NEW e, Legal(e)
    PROVE  e \in Events /\ e.type # "reserve" /\ e.job \in Jobs
BY DEF Legal, Events, SubmitEvents, LeaseEvents, AckEvents, FailEvents, ReplayEvents

\* Only ReserveEpochs, EpochsReserved and Crash do other than record a legal
\* event or leave jobs and log alone.
LEMMA StepKinds ==
    ASSUME TypeOK, LockInv, [Next]_vars
    PROVE  \/ \E e : Recorded(e)
           \/ ReservationWritten
           \/ EpochsReserved
           \/ Quiet
           \/ \E n \in 0..MaxLog : Crash(n)
<1>0. calls \in [Procs -> Calls] /\ Len(log) \in Nat /\ stable \in 0..Len(log)
      /\ reported \in stable..Len(log)
  BY DEF TypeOK
<1>1. ASSUME NEW p \in Procs, NEW j \in Jobs, NEW r \in Requests, Submit(p, j, r)
      PROVE  \E e : Recorded(e)
  <2> DEFINE e == [type |-> "submit", job |-> j, key |-> r.key, maxRetries |-> r.maxRetries]
  <2>1. e \in SubmitEvents
    BY RequestsAssumption DEF SubmitEvents
  <2>2. Legal(e)
    BY <1>1, <2>1 DEF Submit, Legal
  <2>3. Waiters(e)
    BY <1>0, <1>1 DEF Submit, AwaitCommit, Waiters
  <2> QED BY <1>1, <2>2, <2>3 DEF Submit, Recorded, MuFree, muVars
<1>2. ASSUME NEW j \in Jobs, ReserveEpochs(j) PROVE ReservationWritten
  BY <1>2 DEF ReserveEpochs, ReservationWritten, histVars
<1>3. ASSUME NEW j \in Jobs, Lease(j) PROVE \E e : Recorded(e)
  <2> DEFINE e == [type |-> "lease", job |-> j, epoch |-> nextEpoch,
                   attempt |-> mem.jobs[j].attempt + 1]
  <2>1. e \in LeaseEvents
    BY JobType DEF LeaseEvents, TypeOK
  <2>2. Leasable(mem.jobs[j])
    BY <1>3, NoneAssumption DEF Lease, Candidate, LockInv
  <2>3. Legal(e)
    BY <2>1, <2>2 DEF Legal
  <2> QED BY <1>3, <2>3 DEF Lease, Recorded, Waiters
<1>4. ASSUME NEW p \in Procs, NEW g \in Grants, NEW e, NEW o, AwaitCommit(p, o, g.job, g.epoch),
             HoldsLease(g), e \in Events, AppendRecord(e), e.job = g.job,
             \/ o = "ack" /\ e.type = "ack"
             \/ o = "nack" /\ e.type = "fail"
      PROVE  Waiters(e)
  <2>1. Len(log') = Len(log) + 1
    BY <1>4, AppendImage
  <2>2. \A q \in Procs : \/ calls'[q] = calls[q]
                         \/ calls'[q] = [op |-> o, job |-> g.job, epoch |-> g.epoch,
                                         lsn |-> Len(log) + 1, err |-> FALSE]
    BY <1>0, <1>4, <2>1 DEF AwaitCommit
  <2> QED BY <1>4, <2>2 DEF Waiters
<1>5. ASSUME NEW p \in Procs, NEW g \in Grants, Ack(p, g) PROVE \E e : Recorded(e)
  <2> DEFINE e == [type |-> "ack", job |-> g.job]
  <2>1. e \in AckEvents
    BY GrantType DEF AckEvents
  <2>2. Legal(e)
    BY <1>5, <2>1 DEF Ack, HoldsLease, Legal
  <2>3. Waiters(e)
    BY <1>4, <1>5, <2>1 DEF Ack, RecordLocked, Events
  <2> QED BY <1>5, <2>2, <2>3 DEF Ack, Recorded, MuFree, muVars, histVars
<1>6. ASSUME NEW j \in Jobs, mem.jobs[j].state = "Leased"
      PROVE  LET e == [type |-> "fail", job |-> j, attempt |-> mem.jobs[j].attempt,
                       next |-> Verdict(j)]
             IN  e \in FailEvents /\ Legal(e)
  <2> DEFINE e == [type |-> "fail", job |-> j, attempt |-> mem.jobs[j].attempt,
                   next |-> Verdict(j)]
  <2>1. e \in FailEvents
    BY JobType DEF FailEvents, Verdict
  <2> QED BY <1>6, <2>1 DEF Legal
<1>7. ASSUME NEW p \in Procs, NEW g \in Grants, Nack(p, g) PROVE \E e : Recorded(e)
  <2> DEFINE e == [type |-> "fail", job |-> g.job, attempt |-> mem.jobs[g.job].attempt,
                   next |-> Verdict(g.job)]
  <2>1. e \in FailEvents /\ Legal(e)
    BY <1>6, <1>7, GrantType DEF Nack, HoldsLease
  <2>2. Waiters(e)
    BY <1>4, <1>7, <2>1 DEF Nack, FailLocked, RecordLocked, Events
  <2> QED BY <1>7, <2>1, <2>2 DEF Nack, FailLocked, Recorded, MuFree, muVars, histVars
<1>8. ASSUME NEW j \in Jobs, ReclaimOne(j) PROVE \E e : Recorded(e)
  <2> DEFINE e == [type |-> "fail", job |-> j, attempt |-> mem.jobs[j].attempt,
                   next |-> Verdict(j)]
  <2>1. Legal(e)
    BY <1>6, <1>8 DEF ReclaimOne, LockInv
  <2>2. reserving' = None
    BY <1>8 DEF ReclaimOne, LockInv
  <2> QED BY <1>8, <2>1, <2>2 DEF ReclaimOne, FailLocked, Recorded, Waiters, histVars
<1>9. ASSUME NEW p \in Procs, NEW j \in Jobs, ReplayJob(p, j) PROVE \E e : Recorded(e)
  <2> DEFINE e == [type |-> "replay", job |-> j]
  <2>1. Legal(e)
    BY <1>9 DEF ReplayJob, ReplayEvents, Legal
  <2>2. Waiters(e)
    BY <1>0, <1>9 DEF ReplayJob, AwaitCommit, Waiters
  <2> QED BY <1>9, <2>1, <2>2 DEF ReplayJob, Recorded, MuFree, muVars, histVars
<1>10. CASE \/ \E k \in Keys : SubmitDuplicate(k)
            \/ \E j \in Jobs : LeaseRefused(j) \/ LeaseExpires(j)
            \/ ReserveFails
            \/ \E g \in Grants : Heartbeat(g)
            \/ \E p \in Procs : ReclaimExpired(p)
            \/ ReclaimAborts
            \/ AppendFails
            \/ UNCHANGED vars
  <2>1. NoAnswer
    BY <1>10
       DEF NoAnswer, SubmitDuplicate, LeaseRefused, LeaseExpires, ReserveFails, Heartbeat,
           ReclaimExpired, ReclaimAborts, AppendFails, vars, histVars
  <2> QED BY <1>0, <1>10, <2>1
          DEF Quiet, SubmitDuplicate, LeaseRefused, LeaseExpires, ReserveFails, Heartbeat,
              ReclaimExpired, ReclaimAborts, AppendFails, vars, memVars, muVars, diskVars,
              histVars
<1>11. CASE ReclaimCommit
  <2>1. NoAnswer
    BY <1>0, <1>11 DEF ReclaimCommit, NoAnswer, histVars
  <2> QED BY <1>0, <1>11, <2>1 DEF ReclaimCommit, Quiet, memVars, muVars, diskVars, histVars
<1>12. ASSUME NEW n \in 1..MaxLog, Sync(n) PROVE Quiet
  <2>1. NoAnswer
    BY <1>12 DEF Sync, NoAnswer, histVars
  <2>2. stable' \in stable..Len(log)
    BY <1>0, <1>12 DEF Sync
  <2> QED BY <1>12, <2>1, <2>2 DEF Sync, Quiet, memVars, muVars, histVars
<1>13. ASSUME NEW batch \in SUBSET Procs, SyncFails(batch) PROVE Quiet
  <2>1. NoAnswer
    BY <1>13, SyncFailsCalls DEF SyncFails, NoAnswer, histVars
  <2> QED BY <1>0, <1>13, <2>1 DEF SyncFails, Quiet, memVars, muVars, histVars
<1>14. ASSUME NEW p \in Procs, Return(p) PROVE Quiet
  <2>1. UNCHANGED <<mem, nextEpoch, log, image, stable, issued, crashes, reserving>>
    BY <1>14 DEF Return, memVars, muVars, diskVars
  <2> QED BY <1>0, <1>14, <2>1 DEF Quiet
<1>15. ASSUME NEW p \in Procs, Poison(p) PROVE Quiet
  <2>1. NoAnswer
    BY <1>0, <1>15 DEF Poison, NoAnswer, Idle, histVars
  <2> QED BY <1>0, <1>15, <2>1 DEF Poison, Quiet, muVars, diskVars, histVars
<1> QED BY <1>1, <1>2, <1>3, <1>5, <1>7, <1>8, <1>9, <1>10, <1>11, <1>12, <1>13, <1>14, <1>15
        DEF Next, Live, ReadOnly

-----------------------------------------------------------------------------
(* Replay and the running store *)

\* Releasing a lease changes the state of a job and nothing else.
LEMMA ReleasedFields ==
    ASSUME NEW r \in JobRec
    PROVE  /\ Released(r) \in JobRec
           /\ Released(r).attempt = r.attempt
           /\ Released(r).epoch = r.epoch
           /\ Released(r).key = r.key
           /\ Released(r).maxRetries = r.maxRetries
           /\ Released(Released(r)) = Released(r)
BY DEF Released, JobRec, States

\* The same job in the running store and in the replayed log has the same
\* attempts, token, key and budget, and the same state if it is not on lease.
LEMMA SameJobFields ==
    ASSUME NEW r \in JobRec, NEW s \in JobRec, SameJob(r, s)
    PROVE  /\ r.attempt = s.attempt
           /\ r.epoch = s.epoch
           /\ r.key = s.key
           /\ r.maxRetries = s.maxRetries
           /\ s.state # "Leased" => r = s
           /\ r.state = "Leased" => r = s
           /\ r.state # s.state => r.state = "RetryWait"
BY DEF SameJob, Released, JobRec

\* Whatever the state of a job, an event about it leads to the same record.
LEMMA ApplySame ==
    ASSUME NEW m \in Mem, NEW w \in Mem, NEW e \in Events, e.type # "reserve",
           SameJob(m.jobs[e.job], w.jobs[e.job])
    PROVE  Apply(m, e).jobs[e.job] = Apply(w, e).jobs[e.job]
<1>0. e.job \in Jobs
  BY ApplyState
<1>1. m.jobs[e.job] \in JobRec /\ w.jobs[e.job] \in JobRec
  BY <1>0 DEF Mem
<1> DEFINE r == m.jobs[e.job]
           s == w.jobs[e.job]
<1>2. /\ r = [state |-> r.state, attempt |-> r.attempt, epoch |-> r.epoch,
              key |-> r.key, maxRetries |-> r.maxRetries]
      /\ s = [state |-> s.state, attempt |-> s.attempt, epoch |-> s.epoch,
              key |-> s.key, maxRetries |-> s.maxRetries]
  BY <1>1 DEF JobRec
<1>3. r.attempt = s.attempt /\ r.epoch = s.epoch /\ r.key = s.key /\ r.maxRetries = s.maxRetries
  BY <1>1, SameJobFields
<1>4. CASE e \in SubmitEvents
  BY <1>0, <1>4 DEF SubmitEvents, Apply, ApplySubmit, Put, Mem
<1>5. CASE e \in LeaseEvents
  <2>1. [r EXCEPT !.state = "Leased", !.epoch = e.epoch, !.attempt = e.attempt]
         = [s EXCEPT !.state = "Leased", !.epoch = e.epoch, !.attempt = e.attempt]
    BY <1>2, <1>3
  <2> QED BY <1>0, <1>5, <2>1 DEF LeaseEvents, Apply, ApplyLease, Put, Mem
<1>6. CASE e \in AckEvents
  <2>1. [r EXCEPT !.state = "Done"] = [s EXCEPT !.state = "Done"]
    BY <1>2, <1>3
  <2> QED BY <1>0, <1>6, <2>1 DEF AckEvents, Apply, ApplyAck, Put, Mem
<1>7. CASE e \in FailEvents
  <2>1. [r EXCEPT !.state = e.next, !.attempt = e.attempt]
         = [s EXCEPT !.state = e.next, !.attempt = e.attempt]
    BY <1>2, <1>3
  <2> QED BY <1>0, <1>7, <2>1 DEF FailEvents, Apply, ApplyFail, Put, Mem
<1>8. CASE e \in ReplayEvents
  <2>1. [r EXCEPT !.state = "Pending", !.attempt = 0]
         = [s EXCEPT !.state = "Pending", !.attempt = 0]
    BY <1>2, <1>3
  <2> QED BY <1>0, <1>8, <2>1 DEF ReplayEvents, Apply, ApplyReplay, Put, Mem
<1>9. CASE e \in ReserveEvents
  BY <1>9 DEF ReserveEvents
<1> QED BY <1>4, <1>5, <1>6, <1>7, <1>8, <1>9 DEF Events

\* Only a submission with a key touches the idempotency map.
LEMMA ApplyIdem ==
    ASSUME NEW m \in Mem, NEW e \in Events
    PROVE  Apply(m, e).idem = IF e.type = "submit" /\ e.key # None
                              THEN [m.idem EXCEPT ![e.key] = e.job]
                              ELSE m.idem
BY DEF Mem, Events, SubmitEvents, LeaseEvents, AckEvents, FailEvents, ReplayEvents,
       ReserveEvents, Apply, ApplySubmit, ApplyLease, ApplyAck, ApplyFail, ApplyReplay,
       ApplyReserve, Put

\* An append extends the replay of the log by one record.
LEMMA AppendReplays ==
    ASSUME TypeOK, LogReplays, NEW e \in Events, AppendRecord(e)
    PROVE  LogReplays'
<1>1. /\ Len(log) \in Nat /\ Len(log') = Len(log) + 1
      /\ \A n \in 0..Len(log) : image'[n] = image[n]
      /\ image'[Len(log) + 1] = Apply(image[Len(log)], e)
  BY AppendImage
<1>2. log \in Seq(Events) /\ log' = Append(log, e)
  BY DEF TypeOK, AppendRecord
<1>3. log'[Len(log) + 1] = e /\ \A n \in 1..Len(log) : log'[n] = log[n]
  BY <1>2
<1>4. ASSUME NEW n \in 1..Len(log') PROVE image'[n] = Apply(image'[n - 1], log'[n])
  <2>1. n \in 1..Len(log) \/ n = Len(log) + 1
    BY <1>1
  <2>2. CASE n \in 1..Len(log)
    <3>1. n \in 0..Len(log) /\ n - 1 \in 0..Len(log)
      BY <1>1, <2>2
    <3> QED BY <1>1, <1>3, <2>2, <3>1 DEF LogReplays
  <2>3. CASE n = Len(log) + 1
    <3>1. n - 1 = Len(log) /\ Len(log) \in 0..Len(log)
      BY <1>1, <2>3
    <3> QED BY <1>1, <1>3, <2>3, <3>1
  <2> QED BY <2>1, <2>2, <2>3
<1>5. image'[0] = EmptyMem
  BY <1>1 DEF LogReplays
<1> QED BY <1>4, <1>5 DEF LogReplays

\* What the log holds after a crash is a prefix of what it held.
LEMMA CrashReplays ==
    ASSUME TypeOK, LogReplays, NEW n, Crash(n)
    PROVE  LogReplays'
<1>1. /\ n \in 0..Len(log) /\ Len(log) \in Nat /\ Len(log') = n
      /\ \A i \in 0..n : image'[i] = image[i]
  BY CrashImage
<1>2. log \in Seq(Events) /\ log' = SubSeq(log, 1, n)
  BY DEF TypeOK, Crash, LogCut
<1>3. \A i \in 1..n : log'[i] = log[i]
  BY <1>1, <1>2
<1>4. \A i \in 1..n : i \in 1..Len(log) /\ i \in 0..n /\ i - 1 \in 0..n
  BY <1>1
<1>5. image'[0] = EmptyMem
  BY <1>1 DEF LogReplays
<1> QED BY <1>1, <1>3, <1>4, <1>5 DEF LogReplays

\* Every step keeps the running store and the replayed log in step.
LEMMA RebuildStep ==
    ASSUME TypeOK, LockInv, RebuildInv, [Next]_vars
    PROVE  RebuildInv'
<1> Len(log) \in Nat /\ Len(log) \in 0..Len(log)
  BY DEF TypeOK
<1>0. /\ mem \in Mem /\ image[Len(log)] \in Mem
      /\ mem.reserved \in Nat /\ image[Len(log)].reserved \in Nat
      /\ nextEpoch \in Nat /\ nextEpoch + EpochBlockSize - 1 \in Nat
      /\ nextEpoch + EpochBlockSize - 1 >= nextEpoch
  <2>1. mem \in Mem /\ image[Len(log)] \in Mem /\ nextEpoch \in Nat
    BY DEF TypeOK
  <2>2. mem.reserved \in Nat /\ image[Len(log)].reserved \in Nat
    BY <2>1 DEF Mem
  <2> QED BY <2>1, <2>2, EpochBlockSizeAssumption
<1>1. ASSUME NEW e, Recorded(e) PROVE RebuildInv'
  <2>1. e \in Events /\ e.type # "reserve" /\ e.job \in Jobs
    BY <1>1, LegalType DEF Recorded
  <2>2. AppendRecord(e) /\ mem' = Apply(mem, e) /\ reserving' = None
    BY <1>1 DEF Recorded, RecordLocked
  <2>3. image'[Len(log')] = Apply(image[Len(log)], e)
    BY <2>1, <2>2, AppendImage
  <2>4. ASSUME NEW j \in Jobs PROVE SameJob(mem'.jobs[j], image'[Len(log')].jobs[j])
    <3>1. CASE j = e.job
      BY <1>0, <2>1, <2>2, <2>3, <3>1, ApplySame DEF RebuildInv, SameJob
    <3>2. CASE j # e.job
      BY <1>0, <2>1, <2>2, <2>3, <3>2, ApplyOther DEF RebuildInv
    <3> QED BY <3>1, <3>2
  <2>5. image'[Len(log')].idem = mem'.idem
    <3>1. image[Len(log)].idem = mem.idem
      BY DEF RebuildInv
    <3>2. Apply(mem, e).idem = IF e.type = "submit" /\ e.key # None
                               THEN [mem.idem EXCEPT ![e.key] = e.job] ELSE mem.idem
      BY <1>0, <2>1, ApplyIdem
    <3>3. Apply(image[Len(log)], e).idem = IF e.type = "submit" /\ e.key # None
                               THEN [image[Len(log)].idem EXCEPT ![e.key] = e.job]
                               ELSE image[Len(log)].idem
      BY <1>0, <2>1, ApplyIdem
    <3> QED BY <2>2, <2>3, <3>1, <3>2, <3>3
  <2>6. image'[Len(log')].reserved >= mem'.reserved
    BY <1>0, <2>1, <2>2, <2>3, ApplyReserved DEF RebuildInv
  <2>7. LogReplays'
    BY <2>1, <2>2, AppendReplays DEF RebuildInv
  <2>8. ReservationInv'
    BY <2>2 DEF ReservationInv
  <2> QED BY <2>4, <2>5, <2>6, <2>7, <2>8 DEF RebuildInv
<1>2. CASE ReservationWritten
  <2>1. ReserveEvent \in Events /\ ReserveEvent.type = "reserve"
        /\ ReserveEvent.upTo = nextEpoch + EpochBlockSize - 1
    BY ReserveEventType DEF ReserveEvent
  <2>2. AppendRecord(ReserveEvent) /\ nextEpoch > mem.reserved /\ UNCHANGED <<mem, nextEpoch>>
    BY <1>2 DEF ReservationWritten
  <2>3. image'[Len(log')] = Apply(image[Len(log)], ReserveEvent)
    BY <2>1, <2>2, AppendImage
  <2>4. \A j \in Jobs : image'[Len(log')].jobs[j] = image[Len(log)].jobs[j]
    BY <1>0, <2>1, <2>3, ApplyOther
  <2>5. image'[Len(log')].idem = image[Len(log)].idem
    BY <1>0, <2>1, <2>3, ApplyIdem
  <2>6. image'[Len(log')].reserved = nextEpoch + EpochBlockSize - 1
    BY <1>0, <2>1, <2>3, ApplyReserved
  <2>7. LogReplays'
    BY <2>1, <2>2, AppendReplays DEF RebuildInv
  <2> QED BY <1>0, <2>2, <2>4, <2>5, <2>6, <2>7 DEF RebuildInv, ReservationInv
<1>3. CASE EpochsReserved
  <2>1. ReserveEvent \in Events /\ ReserveEvent.type = "reserve"
        /\ ReserveEvent.upTo = nextEpoch + EpochBlockSize - 1
    BY ReserveEventType DEF ReserveEvent
  <2>2. /\ mem' = Apply(mem, ReserveEvent) /\ UNCHANGED <<log, image, nextEpoch, reserving>>
        /\ reserving # None /\ nextEpoch > mem.reserved
    BY <1>3 DEF EpochsReserved, diskVars, muVars
  <2>3. mem'.reserved = nextEpoch + EpochBlockSize - 1 /\ mem'.idem = mem.idem
    BY <1>0, <2>1, <2>2, ApplyReserved, ApplyIdem
  <2>4. \A j \in Jobs : mem'.jobs[j] = mem.jobs[j]
    BY <1>0, <2>1, <2>2, ApplyOther
  <2>5. image[Len(log)].reserved = nextEpoch + EpochBlockSize - 1
    BY <2>2 DEF RebuildInv, ReservationInv
  <2> QED BY <1>0, <2>2, <2>3, <2>4, <2>5 DEF RebuildInv, ReservationInv, LogReplays
<1>4. CASE Quiet
  BY <1>4 DEF Quiet, RebuildInv, ReservationInv, LogReplays
<1>5. ASSUME NEW n \in 0..MaxLog, Crash(n) PROVE RebuildInv'
  <2>1. Len(log') = n /\ n \in 0..Len(log) /\ image'[n] = image[n] /\ image[n] \in Mem
    <3>1. n \in 0..n
      OBVIOUS
    <3> QED BY <1>5, <3>1, CrashImage
  <2>2. \A j \in Jobs : mem'.jobs[j] = Released(image[n].jobs[j])
    BY <1>5, CrashImage
  <2>3. mem' = RecoverLeased(image[n]) /\ reserving' = None
    BY <1>5 DEF Crash, Open
  <2>4. mem'.idem = image[n].idem /\ mem'.reserved = image[n].reserved /\ image[n].reserved \in Nat
    BY <2>1, <2>3 DEF RecoverLeased, Mem
  <2>5. LogReplays'
    BY <1>5, CrashReplays DEF RebuildInv
  <2> QED BY <2>1, <2>2, <2>3, <2>4, <2>5 DEF RebuildInv, ReservationInv, SameJob
<1> QED BY <1>1, <1>2, <1>3, <1>4, <1>5, StepKinds

\* In step means that replaying and releasing leases gives the same store.
LEMMA RebuildAgrees ==
    ASSUME TypeOK, RebuildInv
    PROVE  RecoveryAgrees
<1>1. Len(log) \in 0..Len(log)
  BY DEF TypeOK
<1>2. \A j \in Jobs : mem.jobs[j] \in JobRec /\ image[Len(log)].jobs[j] \in JobRec
  BY <1>1 DEF TypeOK, Mem
<1>3. \A j \in Jobs : Released(image[Len(log)].jobs[j]) = Released(mem.jobs[j])
  BY <1>2, ReleasedFields DEF RebuildInv, SameJob
<1> QED BY <1>3 DEF RecoveryAgrees, ReplayAgrees, RebuildInv

-----------------------------------------------------------------------------
(* Idempotency keys *)

\* A submission under a key nobody has, or an event about a job that is there,
\* keeps the map exact.
LEMMA ApplyKeys ==
    ASSUME NEW m \in Mem, NEW e \in Events, KeysFiled(m),
           e.type = "submit" /\ e.key # None => m.idem[e.key] = None
    PROVE  KeysFiled(Apply(m, e))
<1>1. CASE e.type = "reserve"
  <2>1. \A j \in Jobs : Apply(m, e).jobs[j] = m.jobs[j]
    BY <1>1, ApplyOther
  <2>2. Apply(m, e).idem = m.idem
    BY <1>1, ApplyIdem
  <2> QED BY <2>1, <2>2 DEF KeysFiled
<1>2. CASE e.type = "submit"
  <2>1. e \in SubmitEvents
    BY <1>2 DEF Events, LeaseEvents, AckEvents, FailEvents, ReplayEvents, ReserveEvents
  <2>2. e.job \in Jobs /\ e.key \in Keys \cup {None}
    BY <2>1 DEF SubmitEvents
  <2>3. Apply(m, e).jobs[e.job].key = e.key
    BY <1>2, <2>2 DEF Apply, ApplySubmit, Put, SubmittedJob, Mem
  <2>4. \A j \in Jobs : j # e.job => Apply(m, e).jobs[j] = m.jobs[j]
    BY ApplyOther
  <2>5. Apply(m, e).idem = IF e.key # None THEN [m.idem EXCEPT ![e.key] = e.job] ELSE m.idem
    BY <1>2, ApplyIdem
  <2>6. m.idem \in [Keys -> Jobs \cup {None}] /\ \A j \in Jobs : m.jobs[j].key \in Keys \cup {None}
    BY DEF Mem, JobRec
  <2>7. ASSUME NEW j \in Jobs, Apply(m, e).jobs[j].key # None
        PROVE  Apply(m, e).idem[Apply(m, e).jobs[j].key] = j
    <3>1. CASE j = e.job
      BY <2>2, <2>3, <2>5, <2>6, <2>7, <3>1
    <3>2. CASE j # e.job
      <4>1. m.idem[m.jobs[j].key] = j /\ m.jobs[j].key # None
        BY <2>4, <2>7, <3>2 DEF KeysFiled
      <4>2. e.key # None => m.jobs[j].key # e.key
        BY <1>2, <4>1, NoneAssumption
      <4> QED BY <2>2, <2>4, <2>5, <2>6, <3>2, <4>1, <4>2
    <3> QED BY <3>1, <3>2
  <2> QED BY <2>7 DEF KeysFiled
<1>3. CASE e.type # "reserve" /\ e.type # "submit"
  <2>1. e.job \in Jobs
    BY <1>3, ApplyState
  <2>2. Apply(m, e).idem = m.idem
    BY <1>3, ApplyIdem
  <2>3. m.jobs \in [Jobs -> JobRec] /\ m.jobs[e.job] \in JobRec
    BY <2>1 DEF Mem
  <2>4. Apply(m, e).jobs[e.job].key = m.jobs[e.job].key
    BY <1>3, <2>1, <2>3
       DEF Events, SubmitEvents, LeaseEvents, AckEvents, FailEvents, ReplayEvents,
           ReserveEvents, Apply, ApplyLease, ApplyAck, ApplyFail, ApplyReplay, Put, Mem, JobRec
  <2>5. \A j \in Jobs : j # e.job => Apply(m, e).jobs[j] = m.jobs[j]
    BY ApplyOther
  <2> QED BY <2>2, <2>4, <2>5 DEF KeysFiled
<1> QED BY <1>1, <1>2, <1>3

\* Releasing leases touches no key.
LEMMA RecoverKeys ==
    ASSUME NEW m \in Mem, KeysFiled(m)
    PROVE  KeysFiled(RecoverLeased(m))
<1>1. \A j \in Jobs : m.jobs[j] \in JobRec
  BY DEF Mem
<1>2. \A j \in Jobs : Released(m.jobs[j]).key = m.jobs[j].key
  BY <1>1, ReleasedFields
<1>3. /\ RecoverLeased(m).jobs = [j \in Jobs |-> Released(m.jobs[j])]
      /\ RecoverLeased(m).idem = m.idem
  BY DEF RecoverLeased, Mem
<1> QED BY <1>2, <1>3 DEF KeysFiled

\* Every step keeps the map exact, in memory and in what a crash may bring back.
LEMMA KeysStep ==
    ASSUME TypeOK, LockInv, RebuildInv, KeysInv, [Next]_vars
    PROVE  KeysInv'
<1> Len(log) \in Nat /\ Len(log) \in 0..Len(log)
  BY DEF TypeOK
<1>0. mem \in Mem /\ image[Len(log)] \in Mem /\ image[Len(log)].idem = mem.idem
  BY DEF TypeOK, RebuildInv
<1>1. ASSUME NEW e \in Events, AppendRecord(e),
             e.type = "submit" /\ e.key # None => mem.idem[e.key] = None
      PROVE  \A n \in 0..Len(log') : KeysFiled(image'[n])
  <2>1. \A n \in 0..Len(log') : n \in 0..Len(log) \/ n = Len(log) + 1
    BY <1>1, AppendImage
  <2>2. \A n \in 0..Len(log) : image'[n] = image[n]
    BY <1>1, AppendImage
  <2>3. KeysFiled(Apply(image[Len(log)], e))
    BY <1>0, <1>1, ApplyKeys DEF KeysInv
  <2>4. image'[Len(log) + 1] = Apply(image[Len(log)], e)
    BY <1>1, AppendImage
  <2> QED BY <2>1, <2>2, <2>3, <2>4 DEF KeysInv
<1>2. ASSUME NEW e, Recorded(e) PROVE KeysInv'
  <2>1. e \in Events /\ AppendRecord(e) /\ mem' = Apply(mem, e)
    BY <1>2, LegalType DEF Recorded, RecordLocked
  <2>2. e.type = "submit" /\ e.key # None => mem.idem[e.key] = None
    BY <1>2 DEF Recorded, Legal, LeaseEvents, AckEvents, FailEvents, ReplayEvents
  <2>3. KeysFiled(mem')
    BY <1>0, <2>1, <2>2, ApplyKeys DEF KeysInv
  <2> QED BY <1>1, <2>1, <2>2, <2>3 DEF KeysInv
<1>3. CASE ReservationWritten
  BY <1>1, <1>3, ReserveEventType DEF ReservationWritten, KeysInv
<1>4. CASE EpochsReserved
  <2>1. KeysFiled(mem')
    BY <1>0, <1>4, ReserveEventType, ApplyKeys DEF EpochsReserved, KeysInv
  <2> QED BY <1>4, <2>1 DEF EpochsReserved, diskVars, KeysInv
<1>5. CASE Quiet
  BY <1>5 DEF Quiet, KeysInv
<1>6. ASSUME NEW n \in 0..MaxLog, Crash(n) PROVE KeysInv'
  <2>1. /\ n \in 0..Len(log) /\ Len(log') = n /\ image[n] \in Mem
        /\ \A i \in 0..n : image'[i] = image[i]
    BY <1>6, CrashImage
  <2>2. mem' = RecoverLeased(image[n])
    BY <1>6 DEF Crash, Open
  <2>3. KeysFiled(mem')
    BY <2>1, <2>2, RecoverKeys DEF KeysInv
  <2>4. \A i \in 0..n : i \in 0..Len(log)
    BY <2>1
  <2> QED BY <2>1, <2>3, <2>4 DEF KeysInv
<1> QED BY <1>2, <1>3, <1>4, <1>5, <1>6, StepKinds


-----------------------------------------------------------------------------
(* The retry budget *)

\* The counters and the token of a job that an event is about.
LEMMA ApplyFields ==
    ASSUME NEW m \in Mem, NEW e \in Events, e.type # "reserve"
    PROVE  /\ Apply(m, e).jobs[e.job].attempt =
                IF e.type \in {"submit", "replay"} THEN 0
                ELSE IF e.type = "ack" THEN m.jobs[e.job].attempt ELSE e.attempt
           /\ Apply(m, e).jobs[e.job].maxRetries =
                IF e.type = "submit" THEN e.maxRetries ELSE m.jobs[e.job].maxRetries
           /\ Apply(m, e).jobs[e.job].epoch =
                IF e.type = "submit" THEN 0
                ELSE IF e.type = "lease" THEN e.epoch ELSE m.jobs[e.job].epoch
<1>1. m.jobs \in [Jobs -> JobRec] /\ m = [jobs |-> m.jobs, idem |-> m.idem,
                                          leased |-> m.leased, reserved |-> m.reserved]
  BY DEF Mem
<1>2. \A j \in Jobs : m.jobs[j] \in JobRec
  BY <1>1
<1>3. CASE e \in SubmitEvents
  BY <1>1, <1>3 DEF SubmitEvents, Apply, ApplySubmit, Put, SubmittedJob
<1>4. CASE e \in LeaseEvents
  BY <1>1, <1>2, <1>4 DEF LeaseEvents, Apply, ApplyLease, Put, JobRec
<1>5. CASE e \in AckEvents
  BY <1>1, <1>2, <1>5 DEF AckEvents, Apply, ApplyAck, Put, JobRec
<1>6. CASE e \in FailEvents
  BY <1>1, <1>2, <1>6 DEF FailEvents, Apply, ApplyFail, Put, JobRec
<1>7. CASE e \in ReplayEvents
  BY <1>1, <1>2, <1>7 DEF ReplayEvents, Apply, ApplyReplay, Put, JobRec
<1>8. CASE e \in ReserveEvents
  BY <1>8 DEF ReserveEvents
<1> QED BY <1>3, <1>4, <1>5, <1>6, <1>7, <1>8 DEF Events

\* A legal record spends an attempt only on a job that had one to spare, and
\* files a job for a retry only within its budget.
LEMMA RecordBudget ==
    ASSUME TypeOK, Budgeted(mem), NEW e, Legal(e)
    PROVE  Budgeted(Apply(mem, e))
<1>0. mem \in Mem /\ crashes \in Nat /\ e \in Events /\ e.type # "reserve" /\ e.job \in Jobs
  BY LegalType DEF TypeOK
<1> DEFINE r == mem.jobs[e.job]
           s == Apply(mem, e).jobs[e.job]
<1>1. r.attempt \in Nat /\ r.maxRetries \in Nat
  BY <1>0 DEF Mem, JobRec
<1>2. /\ r.attempt <= r.maxRetries + 1 + crashes
      /\ Leasable(r) => r.attempt <= r.maxRetries + crashes
  BY <1>0 DEF Budgeted
<1>3. /\ s.attempt = IF e.type \in {"submit", "replay"} THEN 0
                     ELSE IF e.type = "ack" THEN r.attempt ELSE e.attempt
      /\ s.maxRetries = IF e.type = "submit" THEN e.maxRetries ELSE r.maxRetries
  BY <1>0, ApplyFields
<1>4. s.state = CASE e.type = "submit" -> "Pending"
                  [] e.type = "lease"  -> "Leased"
                  [] e.type = "ack"    -> "Done"
                  [] e.type = "fail"   -> e.next
                  [] e.type = "replay" -> "Pending"
  BY <1>0, ApplyState
<1> HIDE DEF s
<1>5. /\ s.attempt <= s.maxRetries + 1 + crashes
      /\ Leasable(s) => s.attempt <= s.maxRetries + crashes
  <2>1. CASE e \in SubmitEvents
    <3>1. e.type = "submit" /\ e.maxRetries \in Nat
      BY <2>1 DEF SubmitEvents
    <3> QED BY <1>0, <1>3, <3>1
  <2>2. CASE e \in LeaseEvents
    <3>1. e.type = "lease" /\ Leasable(r) /\ e.attempt = r.attempt + 1
      BY <2>2 DEF Legal, SubmitEvents, LeaseEvents, AckEvents, FailEvents, ReplayEvents
    <3>2. s.state = "Leased" /\ s.attempt = r.attempt + 1 /\ s.maxRetries = r.maxRetries
      BY <1>3, <1>4, <3>1
    <3> QED BY <1>0, <1>1, <1>2, <3>1, <3>2 DEF Leasable
  <2>3. CASE e \in AckEvents
    <3>1. e.type = "ack"
      BY <2>3 DEF AckEvents
    <3>2. s.state = "Done" /\ s.attempt = r.attempt /\ s.maxRetries = r.maxRetries
      BY <1>3, <1>4, <3>1
    <3> QED BY <1>2, <3>2 DEF Leasable
  <2>4. CASE e \in FailEvents
    <3>1. e.type = "fail" /\ e.attempt = r.attempt /\ e.next = Verdict(e.job)
      BY <2>4 DEF Legal, SubmitEvents, LeaseEvents, AckEvents, FailEvents, ReplayEvents
    <3>2. s.state = Verdict(e.job) /\ s.attempt = r.attempt /\ s.maxRetries = r.maxRetries
      BY <1>3, <1>4, <3>1
    <3> QED BY <1>0, <1>1, <1>2, <3>2 DEF Leasable, Verdict
  <2>5. CASE e \in ReplayEvents
    <3>1. e.type = "replay"
      BY <2>5 DEF ReplayEvents
    <3> QED BY <1>0, <1>1, <1>3, <3>1
  <2> QED BY <2>1, <2>2, <2>3, <2>4, <2>5 DEF Legal
<1>6. \A j \in Jobs : j # e.job => Apply(mem, e).jobs[j] = mem.jobs[j]
  BY <1>0, ApplyOther
<1> QED BY <1>5, <1>6 DEF Budgeted, s

\* Budgets carry over from the running store to the replayed log.
LEMMA SameBudget ==
    ASSUME NEW m \in Mem, NEW w \in Mem, Budgeted(m), crashes \in Nat,
           \A j \in Jobs : SameJob(m.jobs[j], w.jobs[j])
    PROVE  Budgeted(w)
<1> SUFFICES ASSUME NEW j \in Jobs
             PROVE  /\ w.jobs[j].attempt <= w.jobs[j].maxRetries + 1 + crashes
                    /\ Leasable(w.jobs[j]) => w.jobs[j].attempt <= w.jobs[j].maxRetries + crashes
  BY DEF Budgeted
<1>1. m.jobs[j] \in JobRec /\ w.jobs[j] \in JobRec
  BY DEF Mem
<1>2. /\ m.jobs[j].attempt = w.jobs[j].attempt
      /\ m.jobs[j].maxRetries = w.jobs[j].maxRetries
      /\ w.jobs[j].state # "Leased" => m.jobs[j] = w.jobs[j]
  BY <1>1, SameJobFields
<1> QED BY <1>2 DEF Budgeted, Leasable

\* A restart leaves every job with one delivery more than before.
LEMMA RecoverBudget ==
    ASSUME NEW m \in Mem, Budgeted(m), crashes \in Nat, crashes' = crashes + 1, NEW j \in Jobs
    PROVE  /\ m.jobs[j].attempt <= m.jobs[j].maxRetries + 1 + crashes'
           /\ m.jobs[j].attempt <= m.jobs[j].maxRetries + crashes'
<1>1. m.jobs[j].attempt \in Nat /\ m.jobs[j].maxRetries \in Nat
  BY DEF Mem, JobRec
<1> QED BY <1>1 DEF Budgeted

\* Every step keeps the attempts of every job within the budget and the restarts
\* so far, in memory and in what a crash may bring back.
LEMMA BudgetStep ==
    ASSUME TypeOK, LockInv, RebuildInv, BudgetInv, [Next]_vars
    PROVE  BudgetInv'
<1> Len(log) \in Nat /\ Len(log) \in 0..Len(log) /\ crashes \in Nat
  BY DEF TypeOK
<1>0. TypeOK' /\ RebuildInv'
  BY TypeStep, RebuildStep
<1>1. ASSUME NEW e \in Events, AppendRecord(e), Budgeted(mem'), crashes' = crashes
      PROVE  BudgetInv'
  <2>1. Len(log') \in 0..Len(log') /\ mem' \in Mem /\ image'[Len(log')] \in Mem
    <3>1. Len(log') = Len(log) + 1
      BY <1>1, AppendImage
    <3>2. Len(log') \in 0..Len(log')
      BY <3>1
    <3> QED BY <1>0, <3>2 DEF TypeOK
  <2>2. Budgeted(image'[Len(log')])
    BY <1>0, <1>1, <2>1, SameBudget DEF RebuildInv
  <2>3. \A n \in 0..Len(log') : n \in 0..Len(log) \/ n = Len(log')
    BY <1>1, AppendImage
  <2>4. \A n \in 0..Len(log) : image'[n] = image[n]
    BY <1>1, AppendImage
  <2>5. \A n \in 0..Len(log') : Budgeted(image'[n])
    BY <2>2, <2>3, <2>4 DEF BudgetInv
  <2> QED BY <1>1, <2>5 DEF BudgetInv, Budgeted
<1>2. ASSUME NEW e, Recorded(e) PROVE BudgetInv'
  <2>1. e \in Events /\ AppendRecord(e) /\ mem' = Apply(mem, e) /\ Legal(e) /\ crashes' = crashes
    BY <1>2, LegalType DEF Recorded, RecordLocked
  <2>2. Budgeted(mem')
    BY <2>1, RecordBudget DEF BudgetInv
  <2> QED BY <1>1, <2>1, <2>2
<1>3. CASE ReservationWritten
  BY <1>1, <1>3, ReserveEventType DEF ReservationWritten, BudgetInv
<1>4. CASE EpochsReserved
  <2>1. mem'.jobs = mem.jobs /\ UNCHANGED <<log, image, crashes>>
    BY <1>4, ReservedJobs DEF EpochsReserved, diskVars
  <2> QED BY <2>1 DEF BudgetInv, Budgeted
<1>5. CASE Quiet
  BY <1>5 DEF Quiet, BudgetInv, Budgeted
<1>6. ASSUME NEW n \in 0..MaxLog, Crash(n) PROVE BudgetInv'
  <2>1. /\ n \in 0..Len(log) /\ Len(log') = n /\ image[n] \in Mem
        /\ \A i \in 0..n : image'[i] = image[i]
    BY <1>6, CrashImage
  <2>2. crashes' = crashes + 1
    BY <1>6 DEF Crash
  <2>3. ASSUME NEW j \in Jobs
        PROVE  /\ mem'.jobs[j].attempt = image[n].jobs[j].attempt
               /\ mem'.jobs[j].maxRetries = image[n].jobs[j].maxRetries
    <3>1. image[n].jobs[j] \in JobRec /\ mem'.jobs[j] = Released(image[n].jobs[j])
      BY <1>6, CrashImage DEF Mem
    <3> QED BY <3>1, ReleasedFields
  <2>4. ASSUME NEW i \in 0..n, NEW j \in Jobs
        PROVE  /\ image[i].jobs[j].attempt <= image[i].jobs[j].maxRetries + 1 + crashes'
               /\ image[i].jobs[j].attempt <= image[i].jobs[j].maxRetries + crashes'
    <3>1. i \in 0..Len(log)
      BY <2>1
    <3>2. image[i] \in Mem /\ Budgeted(image[i])
      BY <3>1 DEF TypeOK, BudgetInv
    <3> QED BY <2>2, <3>2, RecoverBudget
  <2>5. n \in 0..n
    OBVIOUS
  <2>6. Budgeted(mem)'
    BY <2>3, <2>4, <2>5 DEF Budgeted
  <2>7. \A i \in 0..Len(log') : Budgeted(image[i])'
    BY <2>1, <2>4 DEF Budgeted
  <2> QED BY <2>6, <2>7 DEF BudgetInv
<1> QED BY <1>2, <1>3, <1>4, <1>5, <1>6, StepKinds

-----------------------------------------------------------------------------
(* The schedule index *)

\* The jobs that may be leased after an event.
LEMMA ApplyLeasable ==
    ASSUME NEW m \in Mem, NEW e \in Events, e.type # "reserve"
    PROVE  {j \in Jobs : Leasable(Apply(m, e).jobs[j])}
             = IF e.type \in {"submit", "replay"} \/ (e.type = "fail" /\ e.next = "RetryWait")
               THEN {j \in Jobs : Leasable(m.jobs[j])} \cup {e.job}
               ELSE {j \in Jobs : Leasable(m.jobs[j])} \ {e.job}
<1>1. e.job \in Jobs
  BY ApplyState
<1>2. \A j \in Jobs : j # e.job => Apply(m, e).jobs[j] = m.jobs[j]
  BY ApplyOther
<1>3. Leasable(Apply(m, e).jobs[e.job])
        <=> e.type \in {"submit", "replay"} \/ (e.type = "fail" /\ e.next = "RetryWait")
  BY ApplyState DEF Leasable, Events, SubmitEvents, LeaseEvents, AckEvents, FailEvents,
                    ReplayEvents, ReserveEvents
<1> QED BY <1>1, <1>2, <1>3

\* Every step keeps the leasable jobs filed: what Lease pops it either leases,
\* holds or files again.
LEMMA StrandedStep ==
    ASSUME TypeOK, LockInv, NoneStranded, [Next]_vars
    PROVE  NoneStranded'
<1> DEFINE Waits(m) == {j \in Jobs : Leasable(m.jobs[j])}
           Held == IF reserving = None THEN {} ELSE {reserving}
<1>0. mem \in Mem /\ Waits(mem) = index \cup Held
  BY DEF TypeOK, NoneStranded
<1>1. ASSUME UNCHANGED <<mem, index, reserving>> PROVE NoneStranded'
  BY <1>1 DEF NoneStranded
<1>2. ASSUME NEW p \in Procs, NEW j \in Jobs, NEW r \in Requests, Submit(p, j, r)
      PROVE  NoneStranded'
  <2>1. [type |-> "submit", job |-> j, key |-> r.key, maxRetries |-> r.maxRetries] \in Events
    BY RequestsAssumption DEF Events, SubmitEvents
  <2>2. Waits(mem') = Waits(mem) \cup {j}
    BY <1>0, <1>2, <2>1, ApplyLeasable DEF Submit, RecordLocked
  <2>3. reserving = None /\ reserving' = None /\ index' = index \cup {j}
    BY <1>2 DEF Submit, MuFree, muVars
  <2> QED BY <1>0, <2>2, <2>3 DEF NoneStranded
<1>3. ASSUME NEW j \in Jobs, ReserveEpochs(j) PROVE NoneStranded'
  BY <1>0, <1>3, NoneAssumption DEF ReserveEpochs, MuFree, NoneStranded
<1>4. ASSUME NEW j \in Jobs, Candidate(j)
      PROVE  Waits(mem) \ {j} = index \ {j} /\ Waits(mem) = index \cup {j}
  BY <1>0, <1>4, NoneAssumption DEF Candidate, MuFree
<1>5. ASSUME NEW j \in Jobs, Lease(j) PROVE NoneStranded'
  <2>1. [type |-> "lease", job |-> j, epoch |-> nextEpoch,
         attempt |-> mem.jobs[j].attempt + 1] \in Events
    BY JobType DEF Events, LeaseEvents, TypeOK
  <2>2. Waits(mem') = Waits(mem) \ {j}
    BY <1>0, <1>5, <2>1, ApplyLeasable DEF Lease, RecordLocked
  <2>3. reserving' = None /\ index' = index \ {j} /\ Candidate(j)
    BY <1>5 DEF Lease
  <2> QED BY <1>4, <2>2, <2>3 DEF NoneStranded
<1>6. ASSUME NEW j \in Jobs, LeaseRefused(j) PROVE NoneStranded'
  BY <1>4, <1>6 DEF LeaseRefused, NoneStranded
<1>7. CASE EpochsReserved
  BY <1>7, ReservedJobs DEF EpochsReserved, muVars, NoneStranded
<1>8. CASE ReserveFails
  BY <1>0, <1>8 DEF ReserveFails, NoneStranded
<1>9. ASSUME NEW p \in Procs, NEW g \in Grants, Ack(p, g) PROVE NoneStranded'
  <2>1. [type |-> "ack", job |-> g.job] \in Events
    BY GrantType DEF Events, AckEvents
  <2>2. Waits(mem') = Waits(mem) \ {g.job}
    BY <1>0, <1>9, <2>1, ApplyLeasable DEF Ack, RecordLocked
  <2>3. g.job \notin Waits(mem)
    BY <1>9 DEF Ack, HoldsLease, Leasable
  <2>4. UNCHANGED <<index, reserving>>
    BY <1>9 DEF Ack, muVars
  <2> QED BY <1>0, <2>2, <2>3, <2>4 DEF NoneStranded
<1>10. ASSUME NEW j \in Jobs, FailLocked(j), mem.jobs[j].state = "Leased",
              reserving = None, reserving' = None
       PROVE  NoneStranded'
  <2>1. Waits(mem') = IF Verdict(j) = "RetryWait" THEN Waits(mem) \cup {j} ELSE Waits(mem) \ {j}
    BY <1>0, <1>10, FailEventType, ApplyLeasable DEF FailLocked, RecordLocked
  <2>2. j \notin Waits(mem)
    BY <1>10 DEF Leasable
  <2>3. index' = IF Verdict(j) = "RetryWait" THEN index \cup {j} ELSE index
    BY <1>10 DEF FailLocked
  <2> QED BY <1>0, <1>10, <2>1, <2>2, <2>3 DEF NoneStranded
<1>11. ASSUME NEW p \in Procs, NEW g \in Grants, Nack(p, g) PROVE NoneStranded'
  BY <1>10, <1>11, GrantType DEF Nack, HoldsLease, MuFree, muVars
<1>12. ASSUME NEW j \in Jobs, ReclaimOne(j) PROVE NoneStranded'
  BY <1>10, <1>12 DEF ReclaimOne, LockInv
<1>13. ASSUME NEW p \in Procs, NEW j \in Jobs, ReplayJob(p, j) PROVE NoneStranded'
  <2>1. [type |-> "replay", job |-> j] \in Events
    BY DEF Events, ReplayEvents
  <2>2. Waits(mem') = Waits(mem) \cup {j}
    BY <1>0, <1>13, <2>1, ApplyLeasable DEF ReplayJob, RecordLocked
  <2>3. reserving' = reserving /\ index' = index \cup {j}
    BY <1>13 DEF ReplayJob, muVars
  <2> QED BY <1>0, <2>2, <2>3 DEF NoneStranded
<1>14. ASSUME NEW n \in 0..MaxLog, Crash(n) PROVE NoneStranded'
  <2>1. \A j \in Jobs : mem'.jobs[j] = Released(image[n].jobs[j])
    BY <1>14, CrashImage
  <2>2. reserving' = None /\ index' = {j \in Jobs : Leasable(Released(image[n].jobs[j]))}
    BY <1>14 DEF Crash, Open
  <2> QED BY <2>1, <2>2 DEF NoneStranded
<1>15. CASE \/ \E k \in Keys : SubmitDuplicate(k)
            \/ \E g \in Grants : Heartbeat(g)
            \/ \E j \in Jobs : LeaseExpires(j)
            \/ \E p \in Procs : ReclaimExpired(p) \/ Return(p) \/ Poison(p)
            \/ ReclaimCommit
            \/ ReclaimAborts
            \/ AppendFails
            \/ UNCHANGED vars
            \/ \E n \in 1..MaxLog : Sync(n)
            \/ \E batch \in SUBSET Procs : SyncFails(batch)
  BY <1>1, <1>15
     DEF SubmitDuplicate, Heartbeat, LeaseExpires, ReclaimExpired, Return, Poison,
         ReclaimCommit, ReclaimAborts, AppendFails, Sync, SyncFails, vars, memVars, muVars
<1> QED BY <1>2, <1>3, <1>5, <1>6, <1>7, <1>8, <1>9, <1>11, <1>12, <1>13, <1>14, <1>15
        DEF Next, Live, ReadOnly

-----------------------------------------------------------------------------
(* The theorems *)

\* The empty store is in step with the empty log.
LEMMA AnyDiskInit == Init => OnAnyDisk
<1> SUFFICES ASSUME Init PROVE OnAnyDisk
  OBVIOUS
<1>1. /\ Len(log) = 0 /\ image[0] = EmptyMem /\ mem = EmptyMem /\ crashes = 0
      /\ reserving = None /\ index = {}
      /\ \A n \in 0..Len(log) : image[n] = EmptyMem
  BY DEF Init
<1>2. EmptyMem.reserved = 0 /\ \A j \in Jobs : EmptyMem.jobs[j] = NoJob
  BY DEF EmptyMem
<1>3. RebuildInv
  BY <1>1, <1>2 DEF RebuildInv, LogReplays, ReservationInv, SameJob
<1>4. KeysInv
  BY <1>1, <1>2 DEF KeysInv, KeysFiled, NoJob
<1>5. BudgetInv
  BY <1>1, <1>2 DEF BudgetInv, Budgeted, NoJob
<1>6. NoneStranded
  BY <1>1, <1>2 DEF NoneStranded, NoJob, Leasable
<1> QED BY <1>3, <1>4, <1>5, <1>6 DEF OnAnyDisk

\* On any disk the running store and every state a crash may bring back keep
\* keys, budgets and the schedule index in order.
LEMMA AnyDiskHolds ==
    Spec => [](TypeOK /\ LockInv /\ UsedInv /\ LeasedSetExact /\ OnAnyDisk)
<1> DEFINE I == TypeOK /\ LockInv /\ UsedInv /\ LeasedSetExact /\ OnAnyDisk
<1>1. Init => I
  BY TypeInit, DurableInit, AnyDiskInit DEF Durable
<1>2. I /\ [Next]_vars => I'
  BY TypeStep, LockStep, UsedStep, LeasedStep, RebuildStep, KeysStep, BudgetStep, StrandedStep
     DEF OnAnyDisk
<1> QED BY <1>1, <1>2, PTL DEF Spec

\* Recovery rebuilds the store: the image a crash brings back is the replay of
\* the records it left, and replaying all of them gives the jobs and the keys
\* that the running store has, once leases are released.
THEOREM RecoveryRebuilds == Spec => []RecoveryAgrees
<1>1. TypeOK /\ OnAnyDisk => RecoveryAgrees
  BY RebuildAgrees DEF OnAnyDisk
<1> QED BY <1>1, AnyDiskHolds, PTL

\* Two jobs accepted as new never share an idempotency key, whatever restarts
\* come between.
THEOREM KeysAreUnique == Spec => []OneJobPerKey
<1>1. TypeOK /\ OnAnyDisk => OneJobPerKey
  BY DEF OnAnyDisk, KeysInv, KeysFiled, OneJobPerKey, TypeOK
<1> QED BY <1>1, AnyDiskHolds, PTL

\* What a step of a running broker does to the attempts of a job.
LEMMA StepCharges ==
    ASSUME TypeOK, LockInv, UsedInv, BudgetInv, [Next]_vars, NEW j \in Jobs
    PROVE  LET old == mem.jobs[j]
               new == mem'.jobs[j]
           IN /\ Delivers(j) => /\ old.attempt <= old.maxRetries + crashes
                                /\ new.attempt = old.attempt + 1
              /\ crashes' = crashes /\ old.state \notin {"Absent", "DeadLetter"} =>
                   new.attempt >= old.attempt /\ new.maxRetries = old.maxRetries
<1> DEFINE old == mem.jobs[j]
           new == mem'.jobs[j]
           Charged == /\ Delivers(j) => /\ old.attempt <= old.maxRetries + crashes
                                        /\ new.attempt = old.attempt + 1
                      /\ crashes' = crashes /\ old.state \notin {"Absent", "DeadLetter"} =>
                           new.attempt >= old.attempt /\ new.maxRetries = old.maxRetries
<1> SUFFICES Charged
  OBVIOUS
<1>1. old.attempt \in Nat /\ crashes \in Nat
  BY DEF TypeOK, Mem, JobRec
<1>2. ASSUME mem'.jobs = mem.jobs, issued' = issued PROVE Charged
  BY <1>1, <1>2 DEF Delivers
<1>3. ASSUME NEW e, Recorded(e) PROVE Charged
  <2>1. e \in Events /\ e.type # "reserve" /\ e.job \in Jobs /\ mem' = Apply(mem, e) /\ mem \in Mem
    BY <1>3, LegalType DEF Recorded, RecordLocked, TypeOK
  <2>2. Delivers(j) => e.type = "lease" /\ e.job = j
    <3>1. CASE e.type = "lease"
      <4>1. issued \in Seq(Leases) /\ issued' = Append(issued, [job |-> e.job, epoch |-> nextEpoch])
        BY <1>3, <3>1 DEF Recorded, TypeOK
      <4>2. issued'[Len(issued')].job = e.job
        BY <4>1
      <4> QED BY <3>1, <4>2 DEF Delivers
    <3>2. CASE e.type # "lease"
      BY <1>3, <3>2 DEF Recorded, Delivers
    <3> QED BY <3>1, <3>2
  <2>3. CASE e.job # j
    <3>1. mem'.jobs[j] = mem.jobs[j]
      BY <2>1, <2>3, ApplyOther
    <3> QED BY <1>1, <2>2, <2>3, <3>1
  <2>4. CASE e.job = j
    <3>1. /\ new.attempt = IF e.type \in {"submit", "replay"} THEN 0
                           ELSE IF e.type = "ack" THEN old.attempt ELSE e.attempt
          /\ new.maxRetries = IF e.type = "submit" THEN e.maxRetries ELSE old.maxRetries
      BY <2>1, <2>4, ApplyFields
    <3> HIDE DEF new
    <3>2. CASE e \in SubmitEvents
      <4>1. e.type = "submit" /\ j \notin used
        BY <1>3, <2>4, <3>2
           DEF Recorded, Legal, SubmitEvents, LeaseEvents, AckEvents, FailEvents, ReplayEvents
      <4>2. old.state = "Absent"
        BY <4>1 DEF UsedInv, Has
      <4> QED BY <2>2, <4>1, <4>2
    <3>3. CASE e \in LeaseEvents
      <4>1. e.type = "lease" /\ Leasable(old) /\ e.attempt = old.attempt + 1
        BY <1>3, <2>4, <3>3
           DEF Recorded, Legal, SubmitEvents, LeaseEvents, AckEvents, FailEvents, ReplayEvents
      <4>2. old.attempt <= old.maxRetries + crashes
        BY <4>1 DEF BudgetInv, Budgeted
      <4> QED BY <1>1, <3>1, <4>1, <4>2
    <3>4. CASE e \in AckEvents
      <4>1. e.type = "ack"
        BY <3>4 DEF AckEvents
      <4> QED BY <1>1, <2>2, <3>1, <4>1
    <3>5. CASE e \in FailEvents
      <4>1. e.type = "fail" /\ e.attempt = old.attempt
        BY <1>3, <2>4, <3>5
           DEF Recorded, Legal, SubmitEvents, LeaseEvents, AckEvents, FailEvents, ReplayEvents
      <4> QED BY <1>1, <2>2, <3>1, <4>1
    <3>6. CASE e \in ReplayEvents
      <4>1. e.type = "replay" /\ old.state = "DeadLetter"
        BY <1>3, <2>4, <3>6
           DEF Recorded, Legal, SubmitEvents, LeaseEvents, AckEvents, FailEvents, ReplayEvents
      <4> QED BY <2>2, <4>1
    <3> QED BY <1>3, <3>2, <3>3, <3>4, <3>5, <3>6 DEF Recorded, Legal
  <2> QED BY <2>3, <2>4
<1>4. CASE ReservationWritten
  BY <1>2, <1>4 DEF ReservationWritten
<1>5. CASE EpochsReserved
  <2>1. mem'.jobs = mem.jobs
    BY <1>5, ReservedJobs DEF EpochsReserved
  <2> QED BY <1>2, <1>5, <2>1 DEF EpochsReserved, histVars
<1>6. CASE Quiet
  BY <1>2, <1>6 DEF Quiet
<1>7. CASE \E n \in 0..MaxLog : Crash(n)
  <2>1. issued' = issued /\ crashes' = crashes + 1
    BY <1>7 DEF Crash, histVars
  <2> QED BY <1>1, <2>1 DEF Delivers
<1> HIDE DEF Charged
<1> QED BY <1>3, <1>4, <1>5, <1>6, <1>7, StepKinds

\* Every delivery is charged to the job's budget, none comes after the budget and
\* one attempt per restart are used up, and no attempt is taken back while the
\* broker runs, except of a dead letter (BudgetCharged).
THEOREM DeliveriesAreCharged == Spec => BudgetCharged
<1>1. TypeOK /\ LockInv /\ UsedInv /\ OnAnyDisk /\ [Next]_vars =>
        [\A j \in Jobs :
           LET old == mem.jobs[j]
               new == mem'.jobs[j]
           IN /\ Delivers(j) => /\ old.attempt <= old.maxRetries + crashes
                                /\ new.attempt = old.attempt + 1
              /\ crashes' = crashes /\ old.state \notin {"Absent", "DeadLetter"} =>
                   new.attempt >= old.attempt /\ new.maxRetries = old.maxRetries]_vars
  BY StepCharges DEF OnAnyDisk
<1> QED BY <1>1, AnyDiskHolds, PTL DEF Spec, BudgetCharged

\* A leasable job is always filed in the schedule index or in the hands of the
\* Lease that popped it, through failed reservations, refused records and
\* restarts.
THEOREM NoJobIsStranded == Spec => []NoneStranded
<1>1. OnAnyDisk => NoneStranded
  BY DEF OnAnyDisk
<1> QED BY <1>1, AnyDiskHolds, PTL


=============================================================================
