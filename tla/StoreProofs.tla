---------------------------- MODULE StoreProofs ----------------------------
(***************************************************************************)
(* Theorems about Store, for every value of its constants: the state keeps *)
(* its shape and, on a disk whose failed fsync leaves the pages in memory, *)
(* fencing tokens increase, accepted jobs survive and completed jobs stay  *)
(* done.  Each part of the inductive invariant of StoreInv has its own     *)
(* lemma, one step per action.                                             *)
(***************************************************************************)
EXTENDS StoreInv, TLAPS

-----------------------------------------------------------------------------
(* apply *)

\* Storing a job record keeps the memory well formed.
LEMMA PutType ==
    ASSUME NEW m \in Mem, NEW id \in Jobs, NEW r \in JobRec, NEW L \in SUBSET Jobs
    PROVE  Put(m, id, r, L) \in Mem
BY DEF Mem, Put

\* Assigning a state and an attempt keeps a job record well formed.
LEMMA Reassigned ==
    ASSUME NEW r \in JobRec, NEW s \in States, NEW a \in Nat
    PROVE  [r EXCEPT !.state = s, !.attempt = a] \in JobRec
<1>1. [r EXCEPT !.state = s] \in JobRec
  BY DEF JobRec
<1>2. \A t \in JobRec : [t EXCEPT !.attempt = a] \in JobRec
  BY DEF JobRec
<1> QED BY <1>1, <1>2, Zenon

\* Applying an event to a well-formed memory gives a well-formed memory.
LEMMA ApplyType ==
    ASSUME NEW m \in Mem, NEW e \in Events
    PROVE  Apply(m, e) \in Mem
<1>0. /\ \A id \in Jobs : m.jobs[id] \in JobRec
      /\ m.leased \in SUBSET Jobs
  BY DEF Mem
<1>1. CASE e \in SubmitEvents
  <2>1. SubmittedJob(e) \in JobRec
    BY <1>1 DEF SubmitEvents, JobRec, States, SubmittedJob
  <2>2. Put(m, e.job, SubmittedJob(e), m.leased) \in Mem
    BY <1>0, <1>1, <2>1, PutType DEF SubmitEvents
  <2>3. (IF e.key = None THEN m.idem ELSE [m.idem EXCEPT ![e.key] = e.job])
            \in [Keys -> Jobs \cup {None}]
    BY <1>1 DEF SubmitEvents, Mem
  <2>4. ApplySubmit(m, e) \in Mem
    BY <2>2, <2>3 DEF Mem, ApplySubmit
  <2> QED BY <1>1, <2>4 DEF SubmitEvents, Apply
<1>2. CASE e \in LeaseEvents
  <2>1. [m.jobs[e.job] EXCEPT !.state = "Leased", !.epoch = e.epoch,
                              !.attempt = e.attempt] \in JobRec
    <3>1. [m.jobs[e.job] EXCEPT !.state = "Leased"] \in JobRec
      BY <1>0, <1>2 DEF LeaseEvents, JobRec, States
    <3>2. /\ \A t \in JobRec : [t EXCEPT !.epoch = e.epoch] \in JobRec
          /\ \A t \in JobRec : [t EXCEPT !.attempt = e.attempt] \in JobRec
      BY <1>2 DEF LeaseEvents, JobRec
    <3> QED BY <3>1, <3>2, Zenon
  <2>2. ApplyLease(m, e) \in Mem
    BY <1>0, <1>2, <2>1, PutType DEF LeaseEvents, ApplyLease
  <2> QED BY <1>2, <2>2 DEF LeaseEvents, Apply
<1>3. CASE e \in AckEvents
  <2>1. [m.jobs[e.job] EXCEPT !.state = "Done"] \in JobRec
    BY <1>0, <1>3 DEF AckEvents, JobRec, States
  <2>2. ApplyAck(m, e) \in Mem
    BY <1>0, <1>3, <2>1, PutType DEF AckEvents, ApplyAck
  <2> QED BY <1>3, <2>2 DEF AckEvents, Apply
<1>4. CASE e \in FailEvents
  <2>1. [m.jobs[e.job] EXCEPT !.state = e.next, !.attempt = e.attempt] \in JobRec
    <3>1. m.jobs[e.job] \in JobRec /\ e.next \in States /\ e.attempt \in Nat
      BY <1>0, <1>4 DEF FailEvents, States
    <3> QED BY <3>1, Reassigned, Zenon
  <2>2. ApplyFail(m, e) \in Mem
    BY <1>0, <1>4, <2>1, PutType DEF FailEvents, ApplyFail
  <2> QED BY <1>4, <2>2 DEF FailEvents, Apply
<1>5. CASE e \in ReplayEvents
  <2>1. [m.jobs[e.job] EXCEPT !.state = "Pending", !.attempt = 0] \in JobRec
    <3>1. m.jobs[e.job] \in JobRec /\ "Pending" \in States /\ 0 \in Nat
      BY <1>0, <1>5 DEF ReplayEvents, States
    <3> QED BY <3>1, Reassigned, Zenon
  <2>2. ApplyReplay(m, e) \in Mem
    BY <1>0, <1>5, <2>1, PutType DEF ReplayEvents, ApplyReplay
  <2> QED BY <1>5, <2>2 DEF ReplayEvents, Apply
<1>6. CASE e \in ReserveEvents
  <2>1. ApplyReserve(m, e) \in Mem
    BY <1>6 DEF ReserveEvents, Mem, ApplyReserve
  <2> QED BY <1>6, <2>1 DEF ReserveEvents, Apply
<1> QED BY <1>1, <1>2, <1>3, <1>4, <1>5, <1>6 DEF Events

\* The log part of the type invariant survives the append of any event.
LEMMA AppendType ==
    ASSUME TypeOK, NEW e \in Events, AppendRecord(e)
    PROVE  /\ log' \in Seq(Events)
           /\ Len(log') = Len(log) + 1
           /\ image' \in [0..Len(log') -> Mem]
           /\ stable' \in 0..Len(log')
           /\ reported' \in stable'..Len(log')
           /\ dropped' \in BOOLEAN
<1>1. log' \in Seq(Events) /\ Len(log') = Len(log) + 1 /\ Len(log) \in Nat
  BY DEF TypeOK, AppendRecord
<1>2. Apply(image[Len(log)], e) \in Mem
  <2>1. image[Len(log)] \in Mem
    BY <1>1 DEF TypeOK
  <2> QED BY <2>1, ApplyType
<1>3. image' \in [0..Len(log') -> Mem]
  BY <1>1, <1>2 DEF TypeOK, AppendRecord
<1>4. /\ stable' = stable /\ reported' = reported /\ dropped' = dropped
      /\ stable \in 0..Len(log) /\ reported \in stable..Len(log) /\ dropped \in BOOLEAN
  BY DEF TypeOK, AppendRecord
<1>5. stable' \in 0..Len(log') /\ reported' \in stable'..Len(log')
  BY <1>1, <1>4
<1> QED BY <1>1, <1>3, <1>4, <1>5

\* Recovery keeps the memory well formed.
LEMMA RecoverType ==
    ASSUME NEW m \in Mem
    PROVE  /\ RecoverLeased(m) \in Mem
           /\ m.reserved \in Nat
<1>1. \A j \in Jobs : m.jobs[j] \in JobRec
  BY DEF Mem
<1>2. \A j \in Jobs : Released(m.jobs[j]) \in JobRec
  BY <1>1 DEF Released, JobRec, States
<1> QED BY <1>2 DEF Mem, RecoverLeased

\* What recordLocked does keeps the memory and the log well formed.
LEMMA RecordType ==
    ASSUME TypeOK, NEW e \in Events, RecordLocked(e)
    PROVE  /\ mem' \in Mem
           /\ lastLSN' \in Nat
           /\ log' \in Seq(Events)
           /\ Len(log') = Len(log) + 1
           /\ image' \in [0..Len(log') -> Mem]
           /\ stable' \in 0..Len(log')
           /\ reported' \in stable'..Len(log')
           /\ dropped' \in BOOLEAN
<1>1. AppendRecord(e) /\ mem' = Apply(mem, e) /\ lastLSN' = Len(log) + 1
  BY DEF RecordLocked
<1>2. mem' \in Mem
  BY <1>1, ApplyType DEF TypeOK
<1>3. lastLSN' \in Nat
  BY <1>1 DEF TypeOK
<1> QED BY <1>1, <1>2, <1>3, AppendType

\* A caller that starts to wait for its record has a well-formed entry.
LEMMA AwaitType ==
    ASSUME TypeOK, NEW p \in Procs, NEW o \in {"submit", "ack", "nack", "replay"},
           NEW j \in Jobs, NEW ep \in Nat, Len(log') \in Nat, AwaitCommit(p, o, j, ep)
    PROVE  calls' \in [Procs -> Calls]
<1>1. [op |-> o, job |-> j, epoch |-> ep, lsn |-> Len(log'), err |-> FALSE] \in Calls
  BY DEF Calls
<1> QED BY <1>1 DEF AwaitCommit, TypeOK

\* Idle is a well-formed entry.
LEMMA IdleType == Idle \in Calls
BY DEF Idle, Calls

\* A lease in the history names a job and a token.
LEMMA IssuedType ==
    ASSUME TypeOK, NEW i \in DOMAIN issued
    PROVE  issued[i] \in Leases /\ issued[i].job \in Jobs /\ issued[i].epoch \in Nat
<1>1. issued \in Seq(Leases)
  BY DEF TypeOK
<1>2. issued[i] \in Leases
  BY <1>1
<1> QED BY <1>2 DEF Leases

\* So does a lease a worker presents.
LEMMA GrantType ==
    ASSUME TypeOK, NEW g \in Grants
    PROVE  g \in Leases /\ g.job \in Jobs /\ g.epoch \in Nat
BY IssuedType DEF Grants

\* The job record behind a job is well formed.
LEMMA JobType ==
    ASSUME TypeOK, NEW j \in Jobs
    PROVE  /\ mem.jobs[j] \in JobRec
           /\ mem.jobs[j].attempt \in Nat
           /\ mem.reserved \in Nat
BY DEF TypeOK, Mem, JobRec

-----------------------------------------------------------------------------
(* Type correctness *)

\* The initial state is well formed.
LEMMA TypeInit == Init => TypeOK
<1> SUFFICES ASSUME Init PROVE TypeOK
  OBVIOUS
<1>1. EmptyMem \in Mem
  <2>1. NoJob \in JobRec
    BY DEF NoJob, JobRec, States
  <2> QED BY <2>1 DEF EmptyMem, Mem
<1>2. calls \in [Procs -> Calls]
  BY IdleType DEF Init
<1>3. log \in Seq(Events) /\ Len(log) = 0 /\ issued \in Seq(Leases)
  BY DEF Init
<1>4. image \in [0..Len(log) -> Mem]
  BY <1>1, <1>3 DEF Init
<1>5. stable \in 0..Len(log) /\ reported \in stable..Len(log)
  BY <1>3 DEF Init
<1> QED BY <1>1, <1>2, <1>3, <1>4, <1>5 DEF Init, TypeOK

\* Every step of Submit, Lease, Ack, Nack, Heartbeat, ReclaimExpired, ReplayJob,
\* of the commit path and of recovery keeps the state well formed.
LEMMA TypeStep == TypeOK /\ [Next]_vars => TypeOK'
<1> SUFFICES ASSUME TypeOK, [Next]_vars PROVE TypeOK'
  OBVIOUS
<1> Len(log) \in Nat
  BY DEF TypeOK
<1>1. ASSUME NEW p \in Procs, NEW j \in Jobs, NEW r \in Requests, Submit(p, j, r)
      PROVE  TypeOK'
  <2>1. [type |-> "submit", job |-> j, key |-> r.key, maxRetries |-> r.maxRetries] \in Events
    BY RequestsAssumption DEF Events, SubmitEvents
  <2>2. calls' \in [Procs -> Calls]
    BY <1>1, <2>1, RecordType, AwaitType DEF Submit
  <2> QED BY <1>1, <2>1, <2>2, RecordType DEF TypeOK, Submit, memVars, muVars, diskVars, histVars
<1>2. ASSUME NEW k \in Keys, SubmitDuplicate(k) PROVE TypeOK'
  <2>1. mem.idem[k] \in Jobs
    BY <1>2 DEF TypeOK, Mem, SubmitDuplicate
  <2> QED BY <1>2, <2>1 DEF TypeOK, SubmitDuplicate, memVars, muVars, diskVars, histVars
<1>3. ASSUME NEW j \in Jobs, ReserveEpochs(j) PROVE TypeOK'
  <2>1. ReserveEvent \in Events
    <3>1. nextEpoch + EpochBlockSize - 1 \in Nat
      BY EpochBlockSizeAssumption DEF TypeOK
    <3> QED BY <3>1 DEF ReserveEvent, Events, ReserveEvents
  <2>2. AppendRecord(ReserveEvent)
    BY <1>3 DEF ReserveEpochs
  <2> QED BY <1>3, <2>1, <2>2, AppendType DEF TypeOK, ReserveEpochs, memVars, muVars, diskVars, histVars
<1>4. ASSUME NEW j \in Jobs, Lease(j) PROVE TypeOK'
  <2>1. [type |-> "lease", job |-> j, epoch |-> nextEpoch,
         attempt |-> mem.jobs[j].attempt + 1] \in Events
    BY JobType DEF Events, LeaseEvents, TypeOK
  <2>2. issued' \in Seq(Leases)
    BY <1>4 DEF Lease, TypeOK, Leases
  <2> QED BY <1>4, <2>1, <2>2, RecordType DEF TypeOK, Lease, memVars, muVars, diskVars, histVars
<1>5. ASSUME NEW j \in Jobs, LeaseRefused(j) PROVE TypeOK'
  BY <1>5, DropsPagesAssumption DEF TypeOK, LeaseRefused, Fault, FsyncFails, memVars, muVars, diskVars, histVars
<1>6. ASSUME EpochsReserved PROVE TypeOK'
  <2>1. nextEpoch + EpochBlockSize - 1 \in Nat
    BY EpochBlockSizeAssumption DEF TypeOK
  <2>2. ReserveEvent \in Events
    BY <2>1 DEF ReserveEvent, Events, ReserveEvents
  <2>3. mem' \in Mem
    BY <1>6, <2>2, ApplyType DEF TypeOK, EpochsReserved
  <2> QED BY <1>6, <2>3 DEF TypeOK, EpochsReserved, memVars, muVars, diskVars, histVars
<1>7. ASSUME ReserveFails PROVE TypeOK'
  BY <1>7, DropsPagesAssumption DEF TypeOK, ReserveFails, Fault, FsyncFails, memVars, muVars, diskVars, histVars
<1>8. ASSUME NEW p \in Procs, NEW g \in Grants, Ack(p, g) PROVE TypeOK'
  <2>1. [type |-> "ack", job |-> g.job] \in Events
    BY GrantType DEF Events, AckEvents
  <2>2. calls' \in [Procs -> Calls]
    BY <1>8, <2>1, GrantType, RecordType, AwaitType DEF Ack
  <2> QED BY <1>8, <2>1, <2>2, RecordType DEF TypeOK, Ack, memVars, muVars, diskVars, histVars
<1>9. ASSUME NEW j \in Jobs
      PROVE  [type |-> "fail", job |-> j, attempt |-> mem.jobs[j].attempt,
              next |-> Verdict(j)] \in Events
  BY JobType DEF Events, FailEvents, Verdict
<1>10. ASSUME NEW p \in Procs, NEW g \in Grants, Nack(p, g) PROVE TypeOK'
  <2>1. calls' \in [Procs -> Calls]
    BY <1>9, <1>10, GrantType, RecordType, AwaitType DEF Nack, FailLocked
  <2> QED BY <1>9, <1>10, <2>1, GrantType, RecordType
          DEF TypeOK, Nack, FailLocked, memVars, muVars, diskVars, histVars
<1>11. ASSUME NEW g \in Grants, Heartbeat(g) PROVE TypeOK'
  BY <1>11 DEF TypeOK, Heartbeat, memVars, muVars, diskVars, histVars
<1>12. ASSUME NEW j \in Jobs, LeaseExpires(j) PROVE TypeOK'
  BY <1>12 DEF TypeOK, LeaseExpires, memVars, muVars, diskVars, histVars
<1>13. ASSUME NEW j \in Jobs, ReclaimOne(j) PROVE TypeOK'
  BY <1>9, <1>13, RecordType DEF TypeOK, ReclaimOne, FailLocked, memVars, muVars, diskVars, histVars
<1>14. ASSUME NEW p \in Procs, ReclaimExpired(p) PROVE TypeOK'
  BY <1>14 DEF TypeOK, ReclaimExpired, memVars, muVars, diskVars, histVars
<1>15. ASSUME ReclaimCommit PROVE TypeOK'
  <2>1. [op |-> "reclaim", job |-> None, epoch |-> 0, lsn |-> Len(log), err |-> FALSE] \in Calls
    BY DEF Calls
  <2> QED BY <1>15, <2>1 DEF TypeOK, ReclaimCommit, memVars, muVars, diskVars, histVars
<1>16. ASSUME ReclaimAborts PROVE TypeOK'
  BY <1>16, DropsPagesAssumption DEF TypeOK, ReclaimAborts, Fault, FsyncFails, memVars, muVars, diskVars, histVars
<1>17. ASSUME NEW p \in Procs, NEW j \in Jobs, ReplayJob(p, j) PROVE TypeOK'
  <2>1. [type |-> "replay", job |-> j] \in Events
    BY DEF Events, ReplayEvents
  <2>2. calls' \in [Procs -> Calls]
    BY <1>17, <2>1, RecordType, AwaitType DEF ReplayJob
  <2> QED BY <1>17, <2>1, <2>2, RecordType DEF TypeOK, ReplayJob, memVars, muVars, diskVars, histVars
<1>18. ASSUME AppendFails PROVE TypeOK'
  BY <1>18, DropsPagesAssumption DEF TypeOK, AppendFails, Fault, FsyncFails, memVars, muVars, diskVars, histVars
<1>19. CASE UNCHANGED vars
  BY <1>19 DEF TypeOK, vars, memVars, muVars, diskVars, histVars
<1>20. ASSUME NEW n \in 1..MaxLog, Sync(n) PROVE TypeOK'
  <2>1. stable' \in 0..Len(log) /\ reported' \in stable'..Len(log)
    BY <1>20 DEF TypeOK, Sync
  <2> QED BY <1>20, <2>1 DEF TypeOK, Sync, memVars, muVars, diskVars, histVars
<1>21. ASSUME NEW batch \in SUBSET Procs, SyncFails(batch) PROVE TypeOK'
  <2>1. ASSUME NEW p \in Procs PROVE [calls[p] EXCEPT !.err = TRUE] \in Calls
    <3>1. calls[p] \in Calls
      BY DEF TypeOK
    <3> QED BY <3>1 DEF Calls
  <2>2. calls' \in [Procs -> Calls]
    BY <1>21, <2>1 DEF TypeOK, SyncFails
  <2> QED BY <1>21, <2>2, DropsPagesAssumption
          DEF TypeOK, SyncFails, Fault, FsyncFails, memVars, muVars, diskVars, histVars
<1>22. ASSUME NEW p \in Procs, Return(p) PROVE TypeOK'
  <2>1. /\ calls[p].op \in {"submit", "ack", "nack"} => calls[p].job \in Jobs
        /\ calls[p].epoch \in Nat
    BY DEF TypeOK, Calls
  <2>2. accepted' \in SUBSET Jobs
    BY <1>22, <2>1 DEF TypeOK, Return
  <2>3. acks' \in SUBSET Leases
    BY <1>22, <2>1 DEF TypeOK, Return, Leases
  <2>4. nacks' \in SUBSET Leases
    BY <1>22, <2>1 DEF TypeOK, Return, Leases
  <2>5. calls' \in [Procs -> Calls]
    BY <1>22, IdleType DEF TypeOK, Return
  <2> QED BY <1>22, <2>2, <2>3, <2>4, <2>5 DEF TypeOK, Return, memVars, muVars, diskVars, histVars
<1>23. ASSUME NEW p \in Procs, Poison(p) PROVE TypeOK'
  BY <1>23, IdleType DEF TypeOK, Poison, memVars, muVars, diskVars, histVars
<1>24. ASSUME NEW n \in 0..MaxLog, Crash(n) PROVE TypeOK'
  <2>1. n \in stable..Len(log) /\ n \in 0..Len(log) /\ stable \in 0..n
    BY <1>24 DEF TypeOK, Crash, LogCut
  <2>2. log' \in Seq(Events) /\ Len(log') = n
    BY <1>24, <2>1 DEF TypeOK, Crash, LogCut
  <2>3. image[n] \in Mem
    BY <2>1 DEF TypeOK
  <2>4. mem' \in Mem /\ nextEpoch' \in Nat
    BY <1>24, <2>3, RecoverType DEF Crash, Open
  <2>5. image' \in [0..Len(log') -> Mem]
    BY <1>24, <2>1, <2>2 DEF TypeOK, Crash, LogCut
  <2>6. calls' \in [Procs -> Calls] /\ index' \in SUBSET Jobs
    BY <1>24, IdleType DEF Crash, Open
  <2>7. stable' = stable /\ reported' = stable /\ dropped' \in BOOLEAN
    BY <1>24 DEF TypeOK, Crash, LogCut
  <2>8. stable' \in 0..Len(log') /\ reported' \in stable'..Len(log')
    BY <2>1, <2>2, <2>7
  <2>9. /\ failed' \in BOOLEAN /\ expired' \in SUBSET Jobs
        /\ reserving' \in Jobs \cup {None} /\ sweeper' \in Procs \cup {None}
        /\ sweep' \in SUBSET Jobs
    BY <1>24 DEF Crash, Open
  <2>10. lastLSN' \in Nat /\ crashes' \in Nat
    BY <1>24, <2>1 DEF TypeOK, Crash
  <2> QED BY <1>24, <2>2, <2>4, <2>5, <2>6, <2>7, <2>8, <2>9, <2>10
          DEF TypeOK, Crash, histVars
<1> QED BY <1>1, <1>2, <1>3, <1>4, <1>5, <1>6, <1>7, <1>8, <1>10, <1>11, <1>12, <1>13,
           <1>14, <1>15, <1>16, <1>17, <1>18, <1>19, <1>20, <1>21, <1>22, <1>23, <1>24
        DEF Next, Live, ReadOnly

\* The state of the store keeps its shape, whatever callers, failures and
\* restarts do.
THEOREM TypeCorrect == Spec => []TypeOK
<1> QED BY TypeInit, TypeStep, PTL DEF Spec

-----------------------------------------------------------------------------
(* What an event does to the memory *)

\* Only a reservation moves the token ceiling.
LEMMA ApplyReserved ==
    ASSUME NEW m \in Mem, NEW e \in Events
    PROVE  Apply(m, e).reserved = IF e.type = "reserve" THEN e.upTo ELSE m.reserved
BY DEF Mem, Events, SubmitEvents, LeaseEvents, AckEvents, FailEvents, ReplayEvents,
       ReserveEvents, Apply, ApplySubmit, ApplyLease, ApplyAck, ApplyFail, ApplyReplay,
       ApplyReserve, Put

\* An event leaves the jobs it is not about as they are.
LEMMA ApplyOther ==
    ASSUME NEW m \in Mem, NEW e \in Events, NEW j \in Jobs,
           e.type = "reserve" \/ e.job # j
    PROVE  Apply(m, e).jobs[j] = m.jobs[j]
BY DEF Mem, Events, SubmitEvents, LeaseEvents, AckEvents, FailEvents, ReplayEvents,
       ReserveEvents, Apply, ApplySubmit, ApplyLease, ApplyAck, ApplyFail, ApplyReplay,
       ApplyReserve, Put

\* The state an event puts its job into.
LEMMA ApplyState ==
    ASSUME NEW m \in Mem, NEW e \in Events, e.type # "reserve"
    PROVE  /\ e.job \in Jobs
           /\ Apply(m, e).jobs[e.job].state =
                 CASE e.type = "submit" -> "Pending"
                   [] e.type = "lease"  -> "Leased"
                   [] e.type = "ack"    -> "Done"
                   [] e.type = "fail"   -> e.next
                   [] e.type = "replay" -> "Pending"
           /\ Apply(m, e).jobs[e.job].state # "Absent"
<1>1. m.jobs \in [Jobs -> JobRec] /\ m = [jobs |-> m.jobs, idem |-> m.idem,
                                          leased |-> m.leased, reserved |-> m.reserved]
  BY DEF Mem
<1>2. \A j \in Jobs : m.jobs[j] \in JobRec
  BY <1>1
<1>3. CASE e \in SubmitEvents
  BY <1>1, <1>3 DEF SubmitEvents, Apply, ApplySubmit, Put, SubmittedJob
<1>4. CASE e \in LeaseEvents
  BY <1>1, <1>2, <1>4 DEF LeaseEvents, Apply, ApplyLease, Put, JobRec
<1>5. CASE e \in AckEvents
  BY <1>1, <1>2, <1>5 DEF AckEvents, Apply, ApplyAck, Put, JobRec
<1>6. CASE e \in FailEvents
  BY <1>1, <1>2, <1>6 DEF FailEvents, Apply, ApplyFail, Put, JobRec
<1>7. CASE e \in ReplayEvents
  BY <1>1, <1>2, <1>7 DEF ReplayEvents, Apply, ApplyReplay, Put, JobRec
<1>8. CASE e \in ReserveEvents
  BY <1>8 DEF ReserveEvents
<1> QED BY <1>3, <1>4, <1>5, <1>6, <1>7, <1>8 DEF Events

\* No event makes a job disappear.
LEMMA ApplyHas ==
    ASSUME NEW m \in Mem, NEW e \in Events, NEW j \in Jobs, Has(m, j)
    PROVE  Has(Apply(m, e), j)
BY ApplyOther, ApplyState DEF Has

\* What an append does to the images: the old ones stay, and the new one is the
\* event applied to the last.
LEMMA AppendImage ==
    ASSUME TypeOK, NEW e \in Events, AppendRecord(e)
    PROVE  /\ Len(log) \in Nat
           /\ Len(log') = Len(log) + 1
           /\ \A n \in 0..Len(log) : image'[n] = image[n] /\ image[n] \in Mem
           /\ image'[Len(log) + 1] = Apply(image[Len(log)], e)
           /\ stable' = stable
           /\ stable \in 0..Len(log)
<1>1. Len(log) \in Nat /\ Len(log') = Len(log) + 1 /\ stable' = stable /\ stable \in 0..Len(log)
  BY DEF TypeOK, AppendRecord
<1>2. image' = [n \in 0..(Len(log) + 1) |->
                    IF n <= Len(log) THEN image[n] ELSE Apply(image[Len(log)], e)]
  BY DEF AppendRecord
<1>3. \A n \in 0..Len(log) : image'[n] = image[n]
  BY <1>1, <1>2
<1>4. image'[Len(log) + 1] = Apply(image[Len(log)], e)
  BY <1>1, <1>2
<1>5. \A n \in 0..Len(log) : image[n] \in Mem
  BY DEF TypeOK
<1> QED BY <1>1, <1>3, <1>4, <1>5

-----------------------------------------------------------------------------
(* Flushes and s.mu *)

\* Without dropped pages, what was reported durable is durable.
LEMMA HealthyStep ==
    ASSUME DropsPages = FALSE, TypeOK, Healthy, [Next]_vars
    PROVE  Healthy'
<1> USE DEF Healthy
<1>1. ASSUME NEW e, AppendRecord(e) PROVE Healthy'
  BY <1>1 DEF AppendRecord
<1>2. ASSUME FsyncFails, UNCHANGED <<stable, reported>> PROVE Healthy'
  BY <1>2 DEF FsyncFails
<1>3. ASSUME UNCHANGED <<stable, reported, dropped>> PROVE Healthy'
  BY <1>3
<1>4. CASE \E p \in Procs, j \in Jobs, r \in Requests : Submit(p, j, r)
  BY <1>1, <1>4 DEF Submit, RecordLocked
<1>5. CASE \E k \in Keys : SubmitDuplicate(k)
  BY <1>3, <1>5 DEF SubmitDuplicate, diskVars
<1>6. CASE \E j \in Jobs : ReserveEpochs(j)
  BY <1>1, <1>6 DEF ReserveEpochs
<1>7. CASE \E j \in Jobs : Lease(j)
  BY <1>1, <1>7 DEF Lease, RecordLocked
<1>8. CASE \E j \in Jobs : LeaseRefused(j)
  BY <1>2, <1>3, <1>8 DEF LeaseRefused
<1>9. CASE EpochsReserved
  BY <1>3, <1>9 DEF EpochsReserved, diskVars
<1>10. CASE ReserveFails
  BY <1>2, <1>10 DEF ReserveFails
<1>11. CASE \E p \in Procs, g \in Grants : Ack(p, g) \/ Nack(p, g)
  BY <1>1, <1>11 DEF Ack, Nack, FailLocked, RecordLocked
<1>12. CASE \E g \in Grants : Heartbeat(g)
  BY <1>3, <1>12 DEF Heartbeat, diskVars
<1>13. CASE \E j \in Jobs : LeaseExpires(j)
  BY <1>3, <1>13 DEF LeaseExpires, diskVars
<1>14. CASE \E j \in Jobs : ReclaimOne(j)
  BY <1>1, <1>14 DEF ReclaimOne, FailLocked, RecordLocked
<1>15. CASE \E p \in Procs : ReclaimExpired(p)
  BY <1>3, <1>15 DEF ReclaimExpired, diskVars
<1>16. CASE ReclaimCommit
  BY <1>3, <1>16 DEF ReclaimCommit, diskVars
<1>17. CASE ReclaimAborts
  BY <1>2, <1>3, <1>17 DEF ReclaimAborts
<1>18. CASE \E p \in Procs, j \in Jobs : ReplayJob(p, j)
  BY <1>1, <1>18 DEF ReplayJob, RecordLocked
<1>19. CASE AppendFails
  BY <1>2, <1>19 DEF AppendFails
<1>20. CASE UNCHANGED vars
  BY <1>3, <1>20 DEF vars, diskVars
<1>21. CASE \E n \in 1..MaxLog : Sync(n)
  BY <1>21 DEF Sync
<1>22. CASE \E batch \in SUBSET Procs : SyncFails(batch)
  BY <1>2, <1>22 DEF SyncFails
<1>23. CASE \E p \in Procs : Return(p) \/ Poison(p)
  BY <1>3, <1>23 DEF Return, Poison, diskVars
<1>24. CASE \E n \in 0..MaxLog : Crash(n)
  BY <1>24 DEF Crash, LogCut, TypeOK
<1> QED BY <1>4, <1>5, <1>6, <1>7, <1>8, <1>9, <1>10, <1>11, <1>12, <1>13, <1>14, <1>15,
           <1>16, <1>17, <1>18, <1>19, <1>20, <1>21, <1>22, <1>23, <1>24
        DEF Next, Live, ReadOnly

\* The reservation that nextEpochLocked writes.
LEMMA ReserveEventType ==
    ASSUME TypeOK
    PROVE  /\ ReserveEvent \in Events
           /\ ReserveEvent.type = "reserve"
<1>1. nextEpoch + EpochBlockSize - 1 \in Nat
  BY EpochBlockSizeAssumption DEF TypeOK
<1> QED BY <1>1 DEF ReserveEvent, Events, ReserveEvents

\* Applying it changes no job.
LEMMA ReservedJobs ==
    ASSUME TypeOK, EpochsReserved
    PROVE  mem'.jobs = mem.jobs /\ mem'.leased = mem.leased
<1>1. mem' = [mem EXCEPT !.reserved = ReserveEvent.upTo]
  BY DEF EpochsReserved, Apply, ApplyReserve, ReserveEvent
<1> QED BY <1>1 DEF TypeOK, Mem

\* s.mu has one holder at a time, the job Lease holds stays leasable and the
\* jobs a sweep has still to visit stay leased.
LEMMA LockStep ==
    ASSUME TypeOK, LeasedSetExact, LockInv, [Next]_vars
    PROVE  LockInv'
<1>1. ASSUME MuFree, UNCHANGED muVars PROVE LockInv'
  BY <1>1 DEF LockInv, MuFree, muVars
<1>2. ASSUME UNCHANGED <<mem, muVars>> PROVE LockInv'
  BY <1>2 DEF LockInv, muVars
<1>3. ASSUME reserving' = None, sweep' = {} PROVE LockInv'
  BY <1>3 DEF LockInv
<1>4. CASE \E p \in Procs, j \in Jobs, r \in Requests : Submit(p, j, r)
  BY <1>1, <1>4 DEF Submit
<1>5. CASE \E k \in Keys : SubmitDuplicate(k)
  BY <1>1, <1>5 DEF SubmitDuplicate
<1>6. CASE \E j \in Jobs : ReserveEpochs(j)
  BY <1>6 DEF ReserveEpochs, MuFree, LockInv
<1>7. CASE \E j \in Jobs : Lease(j)
  <2>1. sweep' = {}
    BY <1>7, NoneAssumption DEF Lease, Candidate, MuFree, LockInv
  <2> QED BY <1>3, <1>7, <2>1 DEF Lease
<1>8. CASE \E j \in Jobs : LeaseRefused(j)
  <2>1. sweep' = {}
    BY <1>8, NoneAssumption DEF LeaseRefused, Candidate, MuFree, LockInv
  <2> QED BY <1>3, <1>8, <2>1 DEF LeaseRefused
<1>9. CASE EpochsReserved
  BY <1>9, ReservedJobs DEF EpochsReserved, muVars, LockInv
<1>10. CASE ReserveFails
  BY <1>10 DEF ReserveFails, LockInv
<1>11. CASE \E p \in Procs, g \in Grants : Ack(p, g) \/ Nack(p, g)
  BY <1>1, <1>11 DEF Ack, Nack
<1>12. CASE \E g \in Grants : Heartbeat(g)
  BY <1>2, <1>12 DEF Heartbeat
<1>13. CASE \E j \in Jobs : LeaseExpires(j)
  BY <1>2, <1>13 DEF LeaseExpires
<1>14. ASSUME NEW j \in Jobs, ReclaimOne(j) PROVE LockInv'
  <2>1. PICK e \in FailEvents : e.job = j /\ mem' = Apply(mem, e)
    <3>1. [type |-> "fail", job |-> j, attempt |-> mem.jobs[j].attempt,
           next |-> Verdict(j)] \in FailEvents
      BY JobType DEF FailEvents, Verdict
    <3> QED BY <1>14, <3>1 DEF ReclaimOne, FailLocked, RecordLocked
  <2>2. \A i \in Jobs : i # j => mem'.jobs[i] = mem.jobs[i]
    BY <2>1, ApplyOther DEF Events, TypeOK
  <2>3. reserving = None /\ reserving' = None /\ sweeper' = sweeper /\ sweep' = sweep \ {j}
    BY <1>14 DEF ReclaimOne, LockInv
  <2>4. \A i \in sweep' : mem'.jobs[i].state = "Leased"
    BY <2>2, <2>3 DEF LockInv, TypeOK
  <2> QED BY <1>14, <2>3, <2>4 DEF LockInv, ReclaimOne
<1>15. ASSUME NEW p \in Procs, ReclaimExpired(p) PROVE LockInv'
  <2>1. reserving' = None /\ mem' = mem /\ sweeper' = p /\ sweep' = expired \cap mem.leased
    BY <1>15 DEF ReclaimExpired, MuFree, memVars
  <2>2. \A j \in mem.leased : mem.jobs[j].state = "Leased"
    BY DEF LeasedSetExact
  <2> QED BY <2>1, <2>2, NoneAssumption DEF LockInv
<1>16. CASE ReclaimCommit
  BY <1>16 DEF ReclaimCommit, LockInv, memVars
<1>17. CASE ReclaimAborts
  BY <1>17 DEF ReclaimAborts, LockInv, memVars
<1>18. CASE \E p \in Procs, j \in Jobs : ReplayJob(p, j)
  BY <1>1, <1>18 DEF ReplayJob
<1>19. CASE AppendFails
  BY <1>1, <1>19 DEF AppendFails
<1>20. CASE UNCHANGED vars
  BY <1>2, <1>20 DEF vars, memVars
<1>21. CASE \E n \in 1..MaxLog : Sync(n)
  BY <1>2, <1>21 DEF Sync, memVars
<1>22. CASE \E batch \in SUBSET Procs : SyncFails(batch)
  BY <1>2, <1>22 DEF SyncFails, memVars
<1>23. CASE \E p \in Procs : Return(p) \/ Poison(p)
  BY <1>2, <1>23 DEF Return, Poison, memVars
<1>24. CASE \E n \in 0..MaxLog : Crash(n)
  BY <1>3, <1>24 DEF Crash, Open
<1> QED BY <1>4, <1>5, <1>6, <1>7, <1>8, <1>9, <1>10, <1>11, <1>12, <1>13, <1>14, <1>15,
           <1>16, <1>17, <1>18, <1>19, <1>20, <1>21, <1>22, <1>23, <1>24
        DEF Next, Live, ReadOnly

-----------------------------------------------------------------------------
(* Fencing tokens *)

\* A record that is not a reservation, with nothing issued.
LEMMA RecordTokens ==
    ASSUME TypeOK, TokenInv, NEW e \in Events, e.type # "reserve", RecordLocked(e),
           reserving' = None, UNCHANGED <<nextEpoch, issued>>
    PROVE  TokenInv'
<1>1. AppendRecord(e) /\ mem' = Apply(mem, e) /\ mem \in Mem
  BY DEF RecordLocked, TypeOK
<1>2. mem'.reserved = mem.reserved
  BY <1>1, ApplyReserved
<1>3. image'[Len(log) + 1].reserved = image[Len(log)].reserved
  BY <1>1, AppendImage, ApplyReserved
<1>4. \A n \in Cuts' : \E k \in Cuts : image'[n].reserved = image[k].reserved
  BY <1>1, <1>3, AppendImage DEF Cuts
<1> QED BY <1>2, <1>4 DEF TokenInv, ReservationInv

\* A step that leaves the tokens, the ceiling and the log alone.
LEMMA SameTokens ==
    ASSUME TypeOK, TokenInv, UNCHANGED <<mem, nextEpoch, issued, log, image>>,
           stable' \in stable..Len(log), reserving' \in {reserving, None}
    PROVE  TokenInv'
<1>1. Cuts' \subseteq Cuts
  BY DEF Cuts, TypeOK
<1> QED BY <1>1 DEF TokenInv, ReservationInv

\* Every step keeps the tokens handed out below nextEpoch and below each ceiling
\* a crash could leave.
LEMMA TokenStep ==
    ASSUME TypeOK, Healthy, LockInv, TokenInv, [Next]_vars
    PROVE  TokenInv'
<1> Len(log) \in Nat /\ stable \in 0..Len(log) /\ stable \in stable..Len(log)
  BY DEF TypeOK
<1>1. ASSUME NEW p \in Procs, NEW j \in Jobs, NEW r \in Requests, Submit(p, j, r)
      PROVE  TokenInv'
  <2>1. [type |-> "submit", job |-> j, key |-> r.key, maxRetries |-> r.maxRetries] \in Events
    BY RequestsAssumption DEF Events, SubmitEvents
  <2> QED BY <1>1, <2>1, RecordTokens DEF Submit, MuFree, muVars
<1>2. CASE \E k \in Keys : SubmitDuplicate(k)
  BY <1>2, SameTokens DEF SubmitDuplicate, memVars, muVars, diskVars
<1>3. ASSUME NEW j \in Jobs, ReserveEpochs(j) PROVE TokenInv'
  <2>1. nextEpoch \in Nat /\ nextEpoch + EpochBlockSize - 1 \in Nat
        /\ nextEpoch + EpochBlockSize - 1 >= nextEpoch
    BY EpochBlockSizeAssumption DEF TypeOK
  <2>2. ReserveEvent \in Events /\ ReserveEvent.type = "reserve"
        /\ ReserveEvent.upTo = nextEpoch + EpochBlockSize - 1
    BY <2>1 DEF ReserveEvent, Events, ReserveEvents
  <2>3. AppendRecord(ReserveEvent) /\ UNCHANGED <<mem, nextEpoch, issued>>
        /\ nextEpoch > mem.reserved
    BY <1>3 DEF ReserveEpochs, histVars
  <2>4. image'[Len(log')].reserved = nextEpoch + EpochBlockSize - 1
    BY <2>2, <2>3, AppendImage, ApplyReserved
  <2>5. \A n \in Cuts' : \/ n \in Cuts /\ image'[n] = image[n]
                         \/ n = Len(log')
    BY <2>2, <2>3, AppendImage DEF Cuts
  <2>6. \A i \in DOMAIN issued : issued[i].epoch \in Nat /\ issued[i].epoch < nextEpoch
    BY IssuedType DEF TokenInv, ReservationInv
  <2>7. \A n \in Cuts', i \in DOMAIN issued' : issued'[i].epoch <= image'[n].reserved
    BY <2>1, <2>3, <2>4, <2>5, <2>6 DEF TokenInv, ReservationInv
  <2>8. mem.reserved \in Nat
    BY DEF TypeOK, Mem
  <2> QED BY <2>1, <2>3, <2>4, <2>6, <2>7, <2>8 DEF TokenInv, ReservationInv
<1>4. ASSUME NEW j \in Jobs, Lease(j) PROVE TokenInv'
  <2> DEFINE e == [type |-> "lease", job |-> j, epoch |-> nextEpoch,
                   attempt |-> mem.jobs[j].attempt + 1]
  <2>1. e \in Events /\ e.type # "reserve"
    BY JobType DEF Events, LeaseEvents, TypeOK
  <2>2. AppendRecord(e) /\ mem' = Apply(mem, e) /\ mem \in Mem /\ reserving' = None
        /\ nextEpoch <= mem.reserved /\ nextEpoch' = nextEpoch + 1 /\ nextEpoch \in Nat
    BY <1>4 DEF Lease, RecordLocked, TypeOK
  <2> HIDE DEF e
  <2>3. mem'.reserved = mem.reserved /\ mem.reserved \in Nat
    BY <2>1, <2>2, ApplyReserved DEF Mem
  <2>4. image'[Len(log) + 1].reserved = image[Len(log)].reserved
    BY <2>1, <2>2, AppendImage, ApplyReserved
  <2>5. \A n \in Cuts' : \E k \in Cuts : image'[n].reserved = image[k].reserved
                                        /\ image[k].reserved \in Nat
    <3>1. \A n \in Cuts : image[n].reserved \in Nat
      BY DEF Cuts, TypeOK, Mem
    <3> QED BY <2>1, <2>2, <2>4, <3>1, AppendImage DEF Cuts
  <2>6. issued \in Seq(Leases) /\ issued' = Append(issued, [job |-> j, epoch |-> nextEpoch])
    BY <1>4 DEF Lease, TypeOK
  <2>7. \A i \in DOMAIN issued' : \/ i \in DOMAIN issued /\ issued'[i] = issued[i]
                                  \/ issued'[i].epoch = nextEpoch
    BY <2>6
  <2>8. \A i \in DOMAIN issued : issued[i].epoch \in Nat
    BY IssuedType
  <2>9. \A i \in DOMAIN issued' : issued'[i].epoch < nextEpoch'
    BY <2>2, <2>7, <2>8 DEF TokenInv, ReservationInv
  <2>10. \A n \in Cuts' : mem.reserved <= image'[n].reserved
    BY <2>2, <2>5 DEF TokenInv, ReservationInv
  <2>11. \A n \in Cuts', i \in DOMAIN issued' : issued'[i].epoch <= image'[n].reserved
    BY <2>2, <2>3, <2>5, <2>7, <2>8, <2>10 DEF TokenInv, ReservationInv
  <2> QED BY <2>2, <2>3, <2>9, <2>10, <2>11 DEF TokenInv, ReservationInv
<1>5. ASSUME NEW j \in Jobs, LeaseRefused(j) PROVE TokenInv'
  <2>1. /\ UNCHANGED <<mem, issued, log, image, stable>> /\ reserving' = None
        /\ nextEpoch' = nextEpoch + 1 /\ nextEpoch <= mem.reserved
    BY <1>5 DEF LeaseRefused, histVars
  <2>2. Cuts' = Cuts
    BY <2>1 DEF Cuts
  <2>3. nextEpoch \in Nat /\ \A i \in DOMAIN issued : issued[i].epoch \in Nat
    BY IssuedType DEF TypeOK
  <2> QED BY <2>1, <2>2, <2>3 DEF TokenInv, ReservationInv
<1>6. ASSUME EpochsReserved PROVE TokenInv'
  <2>1. nextEpoch \in Nat /\ nextEpoch + EpochBlockSize - 1 \in Nat
        /\ nextEpoch + EpochBlockSize - 1 >= nextEpoch
    BY EpochBlockSizeAssumption DEF TypeOK
  <2>2. ReserveEvent \in Events /\ ReserveEvent.type = "reserve"
        /\ ReserveEvent.upTo = nextEpoch + EpochBlockSize - 1
    BY <2>1 DEF ReserveEvent, Events, ReserveEvents
  <2>3. mem'.reserved = nextEpoch + EpochBlockSize - 1
    BY <1>6, <2>2, ApplyReserved DEF EpochsReserved, TypeOK
  <2>4. /\ UNCHANGED <<nextEpoch, issued, log, image, stable, reserving>>
        /\ reserving # None /\ nextEpoch > mem.reserved /\ stable = Len(log)
    BY <1>6 DEF EpochsReserved, Healthy, histVars, diskVars, muVars
  <2>5. \A n \in Cuts : n = Len(log)
    BY <2>4 DEF Cuts
  <2>6. Cuts' = Cuts /\ image[Len(log)].reserved = nextEpoch + EpochBlockSize - 1
    BY <2>4 DEF Cuts, TokenInv, ReservationInv
  <2> QED BY <2>1, <2>3, <2>4, <2>5, <2>6 DEF TokenInv, ReservationInv
<1>7. CASE ReserveFails
  BY <1>7, SameTokens DEF ReserveFails, histVars
<1>8. ASSUME NEW p \in Procs, NEW g \in Grants, Ack(p, g) PROVE TokenInv'
  <2>1. [type |-> "ack", job |-> g.job] \in Events
    BY GrantType DEF Events, AckEvents
  <2> QED BY <1>8, <2>1, RecordTokens DEF Ack, MuFree, muVars, histVars
<1>9. ASSUME NEW j \in Jobs
      PROVE  [type |-> "fail", job |-> j, attempt |-> mem.jobs[j].attempt,
              next |-> Verdict(j)] \in Events
  BY JobType DEF Events, FailEvents, Verdict
<1>10. ASSUME NEW p \in Procs, NEW g \in Grants, Nack(p, g) PROVE TokenInv'
  BY <1>9, <1>10, GrantType, RecordTokens DEF Nack, FailLocked, MuFree, muVars, histVars
<1>11. CASE \E g \in Grants : Heartbeat(g)
  BY <1>11, SameTokens DEF Heartbeat, muVars, diskVars, histVars
<1>12. CASE \E j \in Jobs : LeaseExpires(j)
  BY <1>12, SameTokens DEF LeaseExpires, muVars, diskVars, histVars
<1>13. ASSUME NEW j \in Jobs, ReclaimOne(j) PROVE TokenInv'
  BY <1>9, <1>13, RecordTokens DEF ReclaimOne, FailLocked, LockInv, histVars
<1>14. CASE \E p \in Procs : ReclaimExpired(p)
  BY <1>14, SameTokens DEF ReclaimExpired, memVars, diskVars, histVars
<1>15. CASE ReclaimCommit
  BY <1>15, SameTokens DEF ReclaimCommit, memVars, diskVars, histVars
<1>16. CASE ReclaimAborts
  BY <1>16, SameTokens DEF ReclaimAborts, memVars, histVars
<1>17. ASSUME NEW p \in Procs, NEW j \in Jobs, ReplayJob(p, j) PROVE TokenInv'
  <2>1. [type |-> "replay", job |-> j] \in Events
    BY DEF Events, ReplayEvents
  <2> QED BY <1>17, <2>1, RecordTokens DEF ReplayJob, MuFree, muVars, histVars
<1>18. CASE AppendFails
  BY <1>18, SameTokens DEF AppendFails, memVars, muVars, histVars
<1>19. CASE UNCHANGED vars
  BY <1>19, SameTokens DEF vars, memVars, muVars, diskVars, histVars
<1>20. ASSUME NEW n \in 1..MaxLog, Sync(n) PROVE TokenInv'
  <2>1. stable' \in stable..Len(log)
    BY <1>20 DEF Sync, Healthy
  <2> QED BY <1>20, <2>1, SameTokens DEF Sync, memVars, muVars, histVars
<1>21. CASE \E batch \in SUBSET Procs : SyncFails(batch)
  BY <1>21, SameTokens DEF SyncFails, memVars, muVars, histVars
<1>22. CASE \E p \in Procs : Return(p) \/ Poison(p)
  BY <1>22, SameTokens DEF Return, Poison, memVars, muVars, diskVars, histVars
<1>23. ASSUME NEW n \in 0..MaxLog, Crash(n) PROVE TokenInv'
  <2>1. n \in Cuts /\ n \in Nat /\ stable' = stable /\ issued' = issued /\ reserving' = None
    BY <1>23 DEF Crash, LogCut, Open, Cuts, histVars
  <2>2. Len(log') = n
    BY <1>23, <2>1 DEF Crash, LogCut, TypeOK, Cuts
  <2>3. Cuts' \subseteq Cuts
    BY <2>1, <2>2 DEF Cuts
  <2>4. \A i \in Cuts' : image'[i] = image[i]
    BY <1>23, <2>1, <2>2 DEF Crash, LogCut, Cuts
  <2>5. image[n] \in Mem
    BY <2>1 DEF Cuts, TypeOK
  <2>6. nextEpoch' = image[n].reserved + 1 /\ mem'.reserved = image[n].reserved
        /\ image[n].reserved \in Nat
    BY <1>23, <2>5 DEF Crash, Open, RecoverLeased, Mem
  <2>7. \A i \in DOMAIN issued : issued[i].epoch \in Nat
    BY IssuedType
  <2>8. \A i \in DOMAIN issued' : issued'[i].epoch < nextEpoch'
    BY <2>1, <2>6, <2>7 DEF TokenInv, ReservationInv
  <2>9. \A k \in Cuts', i \in DOMAIN issued' : issued'[i].epoch <= image'[k].reserved
    BY <2>1, <2>3, <2>4 DEF TokenInv, ReservationInv
  <2>10. ~(nextEpoch' <= mem'.reserved)
    BY <2>6
  <2> QED BY <2>1, <2>8, <2>9, <2>10 DEF TokenInv, ReservationInv
<1> QED BY <1>1, <1>2, <1>3, <1>4, <1>5, <1>6, <1>7, <1>8, <1>10, <1>11, <1>12, <1>13,
           <1>14, <1>15, <1>16, <1>17, <1>18, <1>19, <1>20, <1>21, <1>22, <1>23
        DEF Next, Live, ReadOnly

\* Lease hands out a token above all earlier ones; no other step issues one.
LEMMA IncreaseStep ==
    ASSUME TypeOK, TokenInv, TokensIncrease, [Next]_vars
    PROVE  TokensIncrease'
<1>1. ASSUME NEW j \in Jobs, Lease(j) PROVE TokensIncrease'
  <2>1. issued \in Seq(Leases) /\ issued' = Append(issued, [job |-> j, epoch |-> nextEpoch])
    BY <1>1 DEF Lease, TypeOK
  <2>2. DOMAIN issued' = 1..(Len(issued) + 1) /\ DOMAIN issued = 1..Len(issued)
        /\ Len(issued) \in Nat
    BY <2>1
  <2>3. \A i \in DOMAIN issued : issued'[i] = issued[i] /\ issued[i].epoch < nextEpoch
    BY <2>1 DEF TokenInv, ReservationInv
  <2>4. issued'[Len(issued) + 1].epoch = nextEpoch
    BY <2>1
  <2> QED BY <2>2, <2>3, <2>4 DEF TokensIncrease
<1>2. CASE issued' = issued
  BY <1>2 DEF TokensIncrease
<1>3. ASSUME ~(\E j \in Jobs : Lease(j)) PROVE issued' = issued
  BY <1>3 DEF Next, Live, vars, histVars, Submit, SubmitDuplicate, ReserveEpochs, LeaseRefused,
              EpochsReserved, ReserveFails, Ack, Nack, Heartbeat, LeaseExpires, ReclaimOne,
              ReclaimExpired, ReclaimCommit, ReclaimAborts, ReplayJob, AppendFails, ReadOnly,
              Sync, SyncFails, Return, Poison, Crash
<1> QED BY <1>1, <1>2, <1>3

-----------------------------------------------------------------------------
(* Jobs in memory and in the log *)

\* The fail event that failLocked writes.
LEMMA FailEventType ==
    ASSUME TypeOK, NEW j \in Jobs
    PROVE  [type |-> "fail", job |-> j, attempt |-> mem.jobs[j].attempt,
            next |-> Verdict(j)] \in Events
BY JobType DEF Events, FailEvents, Verdict

\* What a crash leaves: a cut of the log, and its image in memory up to the
\* release of leases.
LEMMA CrashImage ==
    ASSUME TypeOK, NEW n, Crash(n)
    PROVE  /\ n \in Cuts /\ n \in 0..Len(log) /\ Len(log) \in Nat
           /\ stable' = stable /\ Len(log') = n
           /\ \A i \in 0..n : image'[i] = image[i]
           /\ image[n] \in Mem
           /\ mem'.leased = {}
           /\ mem'.jobs = [j \in Jobs |-> Released(image[n].jobs[j])]
<1>1. n \in Cuts /\ stable' = stable
  BY DEF Crash, LogCut, Cuts
<1>2. n \in 0..Len(log)
  BY <1>1 DEF Cuts, TypeOK
<1>3. Len(log') = n
  BY <1>2 DEF Crash, LogCut, TypeOK
<1>4. \A i \in 0..n : image'[i] = image[i]
  BY DEF Crash, LogCut
<1>5. image[n] \in Mem
  BY <1>2 DEF TypeOK
<1>6. Len(log) \in Nat
  BY DEF TypeOK
<1>7. mem'.leased = {} /\ mem'.jobs = [j \in Jobs |-> Released(image[n].jobs[j])]
  BY <1>5 DEF Crash, Open, RecoverLeased, Mem
<1> QED BY <1>1, <1>2, <1>3, <1>4, <1>5, <1>6, <1>7

\* Releasing a lease leaves a job that is present present, and one that is done
\* done; no job is leased any more.
LEMMA ReleasedState ==
    ASSUME NEW r \in JobRec
    PROVE  /\ (Released(r).state = "Absent") <=> (r.state = "Absent")
           /\ (Released(r).state = "Done") <=> (r.state = "Done")
           /\ Released(r).state # "Leased"
BY DEF Released, JobRec

\* A record about a drawn ID.
LEMMA RecordUsed ==
    ASSUME TypeOK, UsedInv, NEW e \in Events, e.type # "reserve", RecordLocked(e),
           used \subseteq used', e.job \in used'
    PROVE  UsedInv'
<1>1. AppendRecord(e) /\ mem' = Apply(mem, e) /\ mem \in Mem
  BY DEF RecordLocked, TypeOK
<1>2. \A j \in Jobs : Has(mem', j) => j \in used'
  BY <1>1, ApplyOther DEF UsedInv, Has
<1>3. \A j \in Jobs : Has(image'[Len(log) + 1], j) => j \in used'
  <2>1. image[Len(log)] \in Mem /\ Len(log) \in 0..Len(log)
    BY <1>1, AppendImage
  <2>2. ASSUME NEW j \in Jobs, j # e.job, Has(image'[Len(log) + 1], j) PROVE j \in used'
    <3>1. Apply(image[Len(log)], e).jobs[j] = image[Len(log)].jobs[j]
      BY <2>1, <2>2, ApplyOther
    <3>2. Has(image[Len(log)], j)
      BY <1>1, <2>2, <3>1, AppendImage DEF Has
    <3> QED BY <2>1, <3>2 DEF UsedInv
  <2> QED BY <2>2
<1>4. \A n \in 0..Len(log') : n \in 0..Len(log) \/ n = Len(log) + 1
  BY <1>1, AppendImage
<1>5. \A n \in 0..Len(log) : image'[n] = image[n]
  BY <1>1, AppendImage
<1> QED BY <1>2, <1>3, <1>4, <1>5 DEF UsedInv, Has

\* A step that leaves the jobs and the log alone.
LEMMA SameUsed ==
    ASSUME UsedInv, mem'.jobs = mem.jobs, UNCHANGED <<log, image, used>>
    PROVE  UsedInv'
BY DEF UsedInv, Has

\* Every job in memory, or in a state some crash would bring back, has an ID
\* that was drawn, so a fresh ID never collides.
LEMMA UsedStep ==
    ASSUME TypeOK, LockInv, UsedInv, [Next]_vars
    PROVE  UsedInv'
<1>1. ASSUME NEW p \in Procs, NEW j \in Jobs, NEW r \in Requests, Submit(p, j, r)
      PROVE  UsedInv'
  <2>1. [type |-> "submit", job |-> j, key |-> r.key, maxRetries |-> r.maxRetries] \in Events
    BY RequestsAssumption DEF Events, SubmitEvents
  <2> QED BY <1>1, <2>1, RecordUsed DEF Submit
<1>2. CASE \E k \in Keys : SubmitDuplicate(k)
  BY <1>2, SameUsed DEF SubmitDuplicate, memVars, diskVars
<1>3. ASSUME NEW j \in Jobs, ReserveEpochs(j) PROVE UsedInv'
  <2>1. ReserveEvent \in Events /\ ReserveEvent.type = "reserve"
    BY ReserveEventType
  <2>2. AppendRecord(ReserveEvent) /\ mem' = mem /\ used' = used
    BY <1>3 DEF ReserveEpochs, histVars
  <2>3. \A i \in Jobs : image'[Len(log) + 1].jobs[i] = image[Len(log)].jobs[i]
    BY <2>1, <2>2, AppendImage, ApplyOther
  <2>4. \A n \in 0..Len(log') : n \in 0..Len(log) \/ n = Len(log) + 1
    BY <2>1, <2>2, AppendImage
  <2>5. Len(log) \in 0..Len(log) /\ \A n \in 0..Len(log) : image'[n] = image[n]
    BY <2>1, <2>2, AppendImage
  <2> QED BY <2>2, <2>3, <2>4, <2>5 DEF UsedInv, Has
<1>4. ASSUME NEW j \in Jobs, Lease(j) PROVE UsedInv'
  <2>1. [type |-> "lease", job |-> j, epoch |-> nextEpoch,
         attempt |-> mem.jobs[j].attempt + 1] \in Events
    BY JobType DEF Events, LeaseEvents, TypeOK
  <2>2. Leasable(mem.jobs[j])
    BY <1>4, NoneAssumption DEF Lease, Candidate, LockInv
  <2>3. j \in used
    BY <2>2 DEF Leasable, UsedInv, Has
  <2> QED BY <1>4, <2>1, <2>3, RecordUsed DEF Lease
<1>5. CASE \E j \in Jobs : LeaseRefused(j)
  BY <1>5, SameUsed DEF LeaseRefused, histVars
<1>6. CASE EpochsReserved
  BY <1>6, ReservedJobs, SameUsed DEF EpochsReserved, diskVars, histVars
<1>7. CASE ReserveFails
  BY <1>7, SameUsed DEF ReserveFails, histVars
<1>8. ASSUME NEW p \in Procs, NEW g \in Grants, Ack(p, g) PROVE UsedInv'
  <2>1. [type |-> "ack", job |-> g.job] \in Events
    BY GrantType DEF Events, AckEvents
  <2>2. g.job \in used
    BY <1>8, GrantType DEF Ack, HoldsLease, UsedInv, Has
  <2> QED BY <1>8, <2>1, <2>2, RecordUsed DEF Ack, histVars
<1>9. ASSUME NEW p \in Procs, NEW g \in Grants, Nack(p, g) PROVE UsedInv'
  <2>1. g.job \in used /\ g.job \in Jobs
    BY <1>9, GrantType DEF Nack, HoldsLease, UsedInv, Has
  <2> QED BY <1>9, <2>1, FailEventType, RecordUsed DEF Nack, FailLocked, histVars
<1>10. CASE \E g \in Grants : Heartbeat(g)
  BY <1>10, SameUsed DEF Heartbeat, diskVars, histVars
<1>11. CASE \E j \in Jobs : LeaseExpires(j)
  BY <1>11, SameUsed DEF LeaseExpires, diskVars, histVars
<1>12. ASSUME NEW j \in Jobs, ReclaimOne(j) PROVE UsedInv'
  <2>1. j \in used
    BY <1>12 DEF ReclaimOne, LockInv, UsedInv, Has
  <2> QED BY <1>12, <2>1, FailEventType, RecordUsed DEF ReclaimOne, FailLocked, histVars
<1>13. CASE \E p \in Procs : ReclaimExpired(p)
  BY <1>13, SameUsed DEF ReclaimExpired, memVars, diskVars, histVars
<1>14. CASE ReclaimCommit
  BY <1>14, SameUsed DEF ReclaimCommit, memVars, diskVars, histVars
<1>15. CASE ReclaimAborts
  BY <1>15, SameUsed DEF ReclaimAborts, memVars, histVars
<1>16. ASSUME NEW p \in Procs, NEW j \in Jobs, ReplayJob(p, j) PROVE UsedInv'
  <2>1. [type |-> "replay", job |-> j] \in Events
    BY DEF Events, ReplayEvents
  <2>2. j \in used
    BY <1>16 DEF ReplayJob, UsedInv, Has
  <2> QED BY <1>16, <2>1, <2>2, RecordUsed DEF ReplayJob, histVars
<1>17. CASE AppendFails
  BY <1>17, SameUsed DEF AppendFails, memVars, histVars
<1>18. CASE UNCHANGED vars
  BY <1>18, SameUsed DEF vars, memVars, diskVars, histVars
<1>19. CASE \E n \in 1..MaxLog : Sync(n)
  BY <1>19, SameUsed DEF Sync, memVars, histVars
<1>20. CASE \E batch \in SUBSET Procs : SyncFails(batch)
  BY <1>20, SameUsed DEF SyncFails, memVars, histVars
<1>21. CASE \E p \in Procs : Return(p) \/ Poison(p)
  BY <1>21, SameUsed DEF Return, Poison, memVars, diskVars, histVars
<1>22. ASSUME NEW n \in 0..MaxLog, Crash(n) PROVE UsedInv'
  <2>1. used' = used
    BY <1>22 DEF Crash, histVars
  <2>2. ASSUME NEW j \in Jobs, Has(mem', j) PROVE Has(image[n], j)
    <3>1. image[n].jobs[j] \in JobRec /\ mem'.jobs[j] = Released(image[n].jobs[j])
      BY <1>22, CrashImage DEF Mem
    <3> QED BY <2>2, <3>1, ReleasedState DEF Has
  <2>3. n \in 0..Len(log) /\ Len(log') = n /\ Len(log) \in Nat
    BY <1>22, CrashImage
  <2>4. \A i \in 0..n : image'[i] = image[i]
    BY <1>22, CrashImage
  <2>5. \A i \in 0..Len(log') : i \in 0..Len(log) /\ image'[i] = image[i]
    BY <2>3, <2>4
  <2> QED BY <2>1, <2>2, <2>3, <2>5 DEF UsedInv, Has
<1> QED BY <1>1, <1>2, <1>3, <1>4, <1>5, <1>6, <1>7, <1>8, <1>9, <1>10, <1>11, <1>12, <1>13,
           <1>14, <1>15, <1>16, <1>17, <1>18, <1>19, <1>20, <1>21, <1>22
        DEF Next, Live, ReadOnly

-----------------------------------------------------------------------------
(* The leased set *)

\* An event other than a submission of a leased job keeps the leased set exact.
LEMMA ApplyLeased ==
    ASSUME NEW m \in Mem, NEW e \in Events,
           m.leased = {j \in Jobs : m.jobs[j].state = "Leased"},
           e.type = "submit" => m.jobs[e.job].state # "Leased"
    PROVE  Apply(m, e).leased = {j \in Jobs : Apply(m, e).jobs[j].state = "Leased"}
<1>1. CASE e.type = "reserve"
  BY <1>1 DEF Apply, ApplyReserve, Mem
<1>2. CASE e.type # "reserve"
  <2>1. e.job \in Jobs
    BY <1>2, ApplyState
  <2>2. \A j \in Jobs : j # e.job => Apply(m, e).jobs[j] = m.jobs[j]
    BY ApplyOther
  <2>3. Apply(m, e).leased = IF e.type = "lease" THEN m.leased \cup {e.job}
                             ELSE m.leased \ {e.job}
    <3>1. e.type = "submit" => m.leased \ {e.job} = m.leased
      BY <2>1
    <3> QED BY <1>2, <3>1
            DEF Mem, Events, SubmitEvents, LeaseEvents, AckEvents, FailEvents, ReplayEvents,
                ReserveEvents, Apply, ApplySubmit, ApplyLease, ApplyAck, ApplyFail,
                ApplyReplay, Put
  <2>4. (Apply(m, e).jobs[e.job].state = "Leased") <=> (e.type = "lease")
    BY <1>2, ApplyState DEF Events, SubmitEvents, LeaseEvents, AckEvents, FailEvents,
                            ReplayEvents, ReserveEvents
  <2> QED BY <2>1, <2>2, <2>3, <2>4
<1> QED BY <1>1, <1>2

\* Every step keeps the set ReclaimExpired scans equal to the jobs on lease.
LEMMA LeasedStep ==
    ASSUME TypeOK, UsedInv, LeasedSetExact, [Next]_vars
    PROVE  LeasedSetExact'
<1>1. ASSUME NEW e \in Events, RecordLocked(e),
             e.type = "submit" => mem.jobs[e.job].state # "Leased"
      PROVE  LeasedSetExact'
  BY <1>1, ApplyLeased DEF RecordLocked, LeasedSetExact, TypeOK
<1>2. ASSUME mem'.jobs = mem.jobs, mem'.leased = mem.leased PROVE LeasedSetExact'
  BY <1>2 DEF LeasedSetExact
<1>3. ASSUME NEW p \in Procs, NEW j \in Jobs, NEW r \in Requests, Submit(p, j, r)
      PROVE  LeasedSetExact'
  <2>1. [type |-> "submit", job |-> j, key |-> r.key, maxRetries |-> r.maxRetries] \in Events
    BY RequestsAssumption DEF Events, SubmitEvents
  <2>2. mem.jobs[j].state # "Leased"
    BY <1>3 DEF Submit, UsedInv, Has
  <2> QED BY <1>1, <1>3, <2>1, <2>2 DEF Submit
<1>4. ASSUME NEW j \in Jobs, Lease(j) PROVE LeasedSetExact'
  <2>1. [type |-> "lease", job |-> j, epoch |-> nextEpoch,
         attempt |-> mem.jobs[j].attempt + 1] \in Events
    BY JobType DEF Events, LeaseEvents, TypeOK
  <2> QED BY <1>1, <1>4, <2>1 DEF Lease
<1>5. ASSUME NEW p \in Procs, NEW g \in Grants, Ack(p, g) PROVE LeasedSetExact'
  <2>1. [type |-> "ack", job |-> g.job] \in Events
    BY GrantType DEF Events, AckEvents
  <2> QED BY <1>1, <1>5, <2>1 DEF Ack
<1>6. ASSUME NEW p \in Procs, NEW g \in Grants, Nack(p, g) PROVE LeasedSetExact'
  BY <1>1, <1>6, GrantType, FailEventType DEF Nack, FailLocked
<1>7. ASSUME NEW j \in Jobs, ReclaimOne(j) PROVE LeasedSetExact'
  BY <1>1, <1>7, FailEventType DEF ReclaimOne, FailLocked
<1>8. ASSUME NEW p \in Procs, NEW j \in Jobs, ReplayJob(p, j) PROVE LeasedSetExact'
  <2>1. [type |-> "replay", job |-> j] \in Events
    BY DEF Events, ReplayEvents
  <2> QED BY <1>1, <1>8, <2>1 DEF ReplayJob
<1>9. CASE EpochsReserved
  BY <1>2, <1>9, ReservedJobs
<1>10. ASSUME NEW n \in 0..MaxLog, Crash(n) PROVE LeasedSetExact'
  <2>1. \A j \in Jobs : image[n].jobs[j] \in JobRec
    BY <1>10, CrashImage DEF Mem
  <2>2. \A j \in Jobs : mem'.jobs[j].state # "Leased"
    <3>1. \A j \in Jobs : mem'.jobs[j] = Released(image[n].jobs[j])
      BY <1>10, CrashImage
    <3> QED BY <2>1, <3>1, ReleasedState
  <2>3. mem'.leased = {}
    BY <1>10, CrashImage
  <2> QED BY <2>2, <2>3 DEF LeasedSetExact
<1>11. CASE mem' = mem
  BY <1>2, <1>11
<1>12. CASE \/ \E k \in Keys : SubmitDuplicate(k)
            \/ \E j \in Jobs : ReserveEpochs(j) \/ LeaseRefused(j) \/ LeaseExpires(j)
            \/ ReserveFails
            \/ \E g \in Grants : Heartbeat(g)
            \/ \E p \in Procs : ReclaimExpired(p) \/ Return(p) \/ Poison(p)
            \/ ReclaimCommit
            \/ ReclaimAborts
            \/ AppendFails
            \/ UNCHANGED vars
            \/ \E n \in 1..MaxLog : Sync(n)
            \/ \E batch \in SUBSET Procs : SyncFails(batch)
  BY <1>11, <1>12
     DEF SubmitDuplicate, ReserveEpochs, LeaseRefused, LeaseExpires, ReserveFails, Heartbeat,
         ReclaimExpired, Return, Poison, ReclaimCommit, ReclaimAborts, AppendFails, Sync,
         SyncFails, vars, memVars
<1> QED BY <1>3, <1>4, <1>5, <1>6, <1>7, <1>8, <1>9, <1>10, <1>12 DEF Next, Live, ReadOnly

-----------------------------------------------------------------------------
(* Accepted jobs *)

\* A call that waits has an LSN, and a job if its answer is about one.
LEMMA CallType ==
    ASSUME TypeOK, NEW p \in Procs
    PROVE  /\ calls[p].lsn \in Nat
           /\ calls[p].epoch \in Nat
           /\ calls[p].op \in {"submit", "ack", "nack"} => calls[p].job \in Jobs
BY DEF TypeOK, Calls

\* Being told of a failed flush changes nothing of what a caller waits for.
LEMMA SyncFailsCalls ==
    ASSUME TypeOK, NEW batch \in SUBSET Procs, SyncFails(batch), NEW q \in Procs
    PROVE  /\ calls'[q].op = calls[q].op
           /\ calls'[q].job = calls[q].job
           /\ calls'[q].epoch = calls[q].epoch
           /\ calls'[q].lsn = calls[q].lsn
<1>1. calls'[q] = IF q \in batch THEN [calls[q] EXCEPT !.err = TRUE] ELSE calls[q]
  BY DEF SyncFails
<1>2. calls[q] \in [op : {"idle", "submit", "ack", "nack", "reclaim", "replay"},
                    job : Jobs \cup {None}, epoch : Nat, lsn : Nat, err : BOOLEAN]
  BY DEF TypeOK, Calls
<1> QED BY <1>1, <1>2

\* A record keeps what was promised, and its own job if it is a submission that
\* starts to wait.
LEMMA RecordAccepted ==
    ASSUME TypeOK, AcceptedInv, NEW e \in Events, AppendRecord(e),
           mem' = mem \/ mem' = Apply(mem, e), accepted' = accepted,
           \A p \in Procs : \/ calls'[p] = calls[p]
                            \/ calls'[p].op # "submit"
                            \/ /\ e.type = "submit" /\ mem' = Apply(mem, e)
                               /\ calls'[p].job = e.job /\ calls'[p].lsn = Len(log) + 1
    PROVE  AcceptedInv'
<1>1. mem \in Mem /\ image[Len(log)] \in Mem /\ accepted \subseteq Jobs
      /\ Len(log) \in Nat /\ Len(log') = Len(log) + 1 /\ Len(log) \in 0..Len(log)
  BY AppendImage DEF TypeOK
<1>2. \A j \in Jobs : Has(mem, j) => Has(mem', j)
  BY <1>1, ApplyHas
<1>3. \A j \in Jobs : Has(image[Len(log)], j) => Has(image'[Len(log) + 1], j)
  BY <1>1, ApplyHas, AppendImage
<1>4. ASSUME NEW j \in Jobs, NEW k \in 0..Len(log), \A n \in k..Len(log) : Has(image[n], j)
      PROVE  \A n \in k..Len(log') : Has(image'[n], j)
  <2>1. Len(log) \in k..Len(log) /\ \A n \in k..Len(log') : n \in k..Len(log) \/ n = Len(log) + 1
    BY <1>1
  <2>2. \A n \in k..Len(log) : n \in 0..Len(log)
    BY <1>1
  <2>3. \A n \in k..Len(log) : image'[n] = image[n]
    BY <2>2, AppendImage
  <2> QED BY <1>3, <1>4, <2>1, <2>3
<1>5. \A j \in accepted' : Has(mem', j) /\ \A n \in Cuts' : Has(image'[n], j)
  BY <1>1, <1>2, <1>4, AppendImage DEF AcceptedInv, Cuts
<1>6. ASSUME NEW p \in Procs, calls'[p].op = "submit"
      PROVE  /\ calls'[p].lsn <= Len(log')
             /\ Has(mem', calls'[p].job)
             /\ \A n \in calls'[p].lsn..Len(log') : Has(image'[n], calls'[p].job)
  <2>1. CASE calls'[p] = calls[p]
    <3>1. /\ calls[p].lsn \in 0..Len(log) /\ calls[p].job \in Jobs
          /\ Has(mem, calls[p].job)
          /\ \A n \in calls[p].lsn..Len(log) : Has(image[n], calls[p].job)
      BY <1>1, <1>6, <2>1, CallType DEF AcceptedInv, Pending
    <3> QED BY <1>1, <1>2, <1>4, <2>1, <3>1
  <2>2. CASE calls'[p] # calls[p]
    <3>1. /\ e.type = "submit" /\ mem' = Apply(mem, e)
          /\ calls'[p].job = e.job /\ calls'[p].lsn = Len(log) + 1
      BY <1>6, <2>2
    <3>2. Has(mem', e.job) /\ Has(image'[Len(log) + 1], e.job)
      BY <1>1, <3>1, ApplyState, AppendImage DEF Has
    <3> QED BY <1>1, <3>1, <3>2
  <2> QED BY <2>1, <2>2
<1> QED BY <1>5, <1>6 DEF AcceptedInv, Pending

\* A step that leaves the jobs and the log alone and starts no wait.
LEMMA SameAccepted ==
    ASSUME TypeOK, AcceptedInv, mem'.jobs = mem.jobs, UNCHANGED <<log, image, accepted>>,
           stable' \in stable..Len(log),
           \A p \in Procs : \/ calls'[p].op # "submit"
                            \/ /\ calls'[p].op = calls[p].op
                               /\ calls'[p].job = calls[p].job
                               /\ calls'[p].lsn = calls[p].lsn
    PROVE  AcceptedInv'
<1>1. Cuts' \subseteq Cuts
  BY DEF Cuts, TypeOK
<1> QED BY <1>1 DEF AcceptedInv, Pending, Has

\* An accepted job, and a submitted one from its own record on, is never lost.
LEMMA AcceptedStep ==
    ASSUME TypeOK, Healthy, AcceptedInv, [Next]_vars
    PROVE  AcceptedInv'
<1> Len(log) \in Nat /\ stable \in 0..Len(log) /\ stable \in stable..Len(log)
  BY DEF TypeOK
<1>0. calls \in [Procs -> Calls]
  BY DEF TypeOK
<1>1. ASSUME NEW p \in Procs, NEW j \in Jobs, NEW r \in Requests, Submit(p, j, r)
      PROVE  AcceptedInv'
  <2> DEFINE e == [type |-> "submit", job |-> j, key |-> r.key, maxRetries |-> r.maxRetries]
  <2>1. e \in Events /\ e.type = "submit" /\ e.job = j
    BY RequestsAssumption DEF Events, SubmitEvents
  <2>2. AppendRecord(e) /\ mem' = Apply(mem, e) /\ accepted' = accepted
    BY <1>1 DEF Submit, RecordLocked
  <2>3. AwaitCommit(p, "submit", j, 0)
    BY <1>1 DEF Submit
  <2> HIDE DEF e
  <2>4. Len(log') = Len(log) + 1
    BY <2>1, <2>2, AppendImage
  <2>5. \A q \in Procs : \/ calls'[q] = calls[q]
                         \/ calls'[q].job = e.job /\ calls'[q].lsn = Len(log) + 1
    BY <1>0, <2>1, <2>3, <2>4 DEF AwaitCommit
  <2> QED BY <2>1, <2>2, <2>5, RecordAccepted
<1>2. CASE \E k \in Keys : SubmitDuplicate(k)
  BY <1>2, SameAccepted DEF SubmitDuplicate, memVars, diskVars
<1>3. ASSUME NEW j \in Jobs, ReserveEpochs(j) PROVE AcceptedInv'
  <2>1. AppendRecord(ReserveEvent) /\ mem' = mem /\ accepted' = accepted /\ calls' = calls
    BY <1>3 DEF ReserveEpochs, histVars
  <2> QED BY <2>1, ReserveEventType, RecordAccepted
<1>4. ASSUME NEW j \in Jobs, Lease(j) PROVE AcceptedInv'
  <2>1. [type |-> "lease", job |-> j, epoch |-> nextEpoch,
         attempt |-> mem.jobs[j].attempt + 1] \in Events
    BY JobType DEF Events, LeaseEvents, TypeOK
  <2> QED BY <1>4, <2>1, RecordAccepted DEF Lease, RecordLocked
<1>5. CASE \E j \in Jobs : LeaseRefused(j)
  BY <1>5, SameAccepted DEF LeaseRefused, histVars
<1>6. CASE EpochsReserved
  BY <1>6, ReservedJobs, SameAccepted DEF EpochsReserved, diskVars, histVars
<1>7. CASE ReserveFails
  BY <1>7, SameAccepted DEF ReserveFails, histVars
<1>8. ASSUME NEW p \in Procs, NEW g \in Grants, Ack(p, g) PROVE AcceptedInv'
  <2>1. [type |-> "ack", job |-> g.job] \in Events
    BY GrantType DEF Events, AckEvents
  <2>2. \A q \in Procs : calls'[q] = calls[q] \/ calls'[q].op # "submit"
    BY <1>0, <1>8 DEF Ack, AwaitCommit
  <2> QED BY <1>8, <2>1, <2>2, RecordAccepted DEF Ack, RecordLocked, histVars
<1>9. ASSUME NEW p \in Procs, NEW g \in Grants, Nack(p, g) PROVE AcceptedInv'
  <2>1. \A q \in Procs : calls'[q] = calls[q] \/ calls'[q].op # "submit"
    BY <1>0, <1>9 DEF Nack, AwaitCommit
  <2> QED BY <1>9, <2>1, GrantType, FailEventType, RecordAccepted
          DEF Nack, FailLocked, RecordLocked, histVars
<1>10. CASE \E g \in Grants : Heartbeat(g)
  BY <1>10, SameAccepted DEF Heartbeat, diskVars, histVars
<1>11. CASE \E j \in Jobs : LeaseExpires(j)
  BY <1>11, SameAccepted DEF LeaseExpires, diskVars, histVars
<1>12. ASSUME NEW j \in Jobs, ReclaimOne(j) PROVE AcceptedInv'
  BY <1>12, FailEventType, RecordAccepted DEF ReclaimOne, FailLocked, RecordLocked, histVars
<1>13. CASE \E p \in Procs : ReclaimExpired(p)
  BY <1>13, SameAccepted DEF ReclaimExpired, memVars, diskVars, histVars
<1>14. CASE ReclaimCommit
  <2>1. \A q \in Procs : calls'[q] = calls[q] \/ calls'[q].op # "submit"
    BY <1>0, <1>14 DEF ReclaimCommit
  <2> QED BY <1>14, <2>1, SameAccepted DEF ReclaimCommit, memVars, diskVars, histVars
<1>15. CASE ReclaimAborts
  BY <1>15, SameAccepted DEF ReclaimAborts, memVars, histVars
<1>16. ASSUME NEW p \in Procs, NEW j \in Jobs, ReplayJob(p, j) PROVE AcceptedInv'
  <2>1. [type |-> "replay", job |-> j] \in Events
    BY DEF Events, ReplayEvents
  <2>2. \A q \in Procs : calls'[q] = calls[q] \/ calls'[q].op # "submit"
    BY <1>0, <1>16 DEF ReplayJob, AwaitCommit
  <2> QED BY <1>16, <2>1, <2>2, RecordAccepted DEF ReplayJob, RecordLocked, histVars
<1>17. CASE AppendFails
  BY <1>17, SameAccepted DEF AppendFails, memVars, histVars
<1>18. CASE UNCHANGED vars
  BY <1>18, SameAccepted DEF vars, memVars, diskVars, histVars
<1>19. ASSUME NEW n \in 1..MaxLog, Sync(n) PROVE AcceptedInv'
  <2>1. stable' \in stable..Len(log)
    BY <1>19 DEF Sync, Healthy
  <2> QED BY <1>19, <2>1, SameAccepted DEF Sync, memVars, histVars
<1>20. ASSUME NEW batch \in SUBSET Procs, SyncFails(batch) PROVE AcceptedInv'
  <2>1. \A q \in Procs : /\ calls'[q].op = calls[q].op
                         /\ calls'[q].job = calls[q].job
                         /\ calls'[q].lsn = calls[q].lsn
    BY <1>20, SyncFailsCalls
  <2> QED BY <1>20, <2>1, SameAccepted DEF SyncFails, memVars, histVars
<1>21. ASSUME NEW p \in Procs, Return(p) PROVE AcceptedInv'
  <2>1. UNCHANGED <<mem, log, image, stable>> /\ Cuts' = Cuts
    BY <1>21 DEF Return, memVars, diskVars, Cuts
  <2>2. \A q \in Procs : calls'[q] = calls[q] \/ calls'[q].op # "submit"
    BY <1>0, <1>21 DEF Return, Idle
  <2>3. \A j \in accepted : Has(mem', j) /\ \A n \in Cuts' : Has(image'[n], j)
    BY <2>1 DEF AcceptedInv
  <2>4. ASSUME calls[p].op = "submit"
        PROVE  Has(mem, calls[p].job) /\ \A n \in Cuts : Has(image[n], calls[p].job)
    <3>1. calls[p].lsn \in Nat /\ calls[p].lsn <= stable
      BY <1>21, CallType DEF Return, Healthy
    <3>2. \A n \in Cuts : n \in calls[p].lsn..Len(log)
      BY <3>1 DEF Cuts
    <3> QED BY <2>4, <3>2 DEF AcceptedInv, Pending
  <2>5. \A j \in accepted' : j \in accepted \/ (calls[p].op = "submit" /\ j = calls[p].job)
    BY <1>21 DEF Return
  <2>6. \A j \in accepted' : Has(mem', j) /\ \A n \in Cuts' : Has(image'[n], j)
    BY <2>1, <2>3, <2>4, <2>5
  <2> QED BY <2>1, <2>2, <2>6 DEF AcceptedInv, Pending
<1>22. ASSUME NEW p \in Procs, Poison(p) PROVE AcceptedInv'
  <2>1. \A q \in Procs : calls'[q] = calls[q] \/ calls'[q].op # "submit"
    BY <1>0, <1>22 DEF Poison, Idle
  <2> QED BY <1>22, <2>1, SameAccepted DEF Poison, diskVars, histVars
<1>23. ASSUME NEW n \in 0..MaxLog, Crash(n) PROVE AcceptedInv'
  <2>1. accepted' = accepted /\ accepted \subseteq Jobs
    BY <1>23 DEF Crash, histVars, TypeOK
  <2>2. \A q \in Procs : calls'[q].op # "submit"
    BY <1>23 DEF Crash, Open, Idle
  <2>3. n \in Cuts /\ n \in 0..Len(log) /\ Len(log') = n /\ stable' = stable
    BY <1>23, CrashImage
  <2>4. \A i \in 0..n : image'[i] = image[i]
    BY <1>23, CrashImage
  <2>5. \A i \in Cuts' : i \in Cuts /\ image'[i] = image[i]
    BY <2>3, <2>4 DEF Cuts
  <2>6. ASSUME NEW j \in Jobs, Has(image[n], j) PROVE Has(mem', j)
    <3>1. image[n].jobs[j] \in JobRec
      BY <1>23, CrashImage DEF Mem
    <3>2. mem'.jobs[j] = Released(image[n].jobs[j])
      BY <1>23, CrashImage
    <3> QED BY <2>6, <3>1, <3>2, ReleasedState DEF Has
  <2> QED BY <2>1, <2>2, <2>3, <2>5, <2>6 DEF AcceptedInv, Pending
<1> QED BY <1>1, <1>2, <1>3, <1>4, <1>5, <1>6, <1>7, <1>8, <1>9, <1>10, <1>11, <1>12, <1>13,
           <1>14, <1>15, <1>16, <1>17, <1>18, <1>19, <1>20, <1>21, <1>22, <1>23
        DEF Next, Live, ReadOnly

-----------------------------------------------------------------------------
(* Completed jobs *)

\* A record about a job that is not done keeps what was promised, and its own
\* job if it is an ack that starts to wait.
LEMMA RecordDone ==
    ASSUME TypeOK, DoneInv, NEW e \in Events, AppendRecord(e),
           e.type = "reserve" \/ ~IsDone(mem, e.job),
           mem' = mem \/ mem' = Apply(mem, e), acks' = acks,
           \A p \in Procs : \/ calls'[p] = calls[p]
                            \/ calls'[p].op # "ack"
                            \/ /\ e.type = "ack" /\ mem' = Apply(mem, e)
                               /\ calls'[p].job = e.job /\ calls'[p].lsn = Len(log) + 1
    PROVE  DoneInv'
<1>1. mem \in Mem /\ image[Len(log)] \in Mem /\ (\A g \in acks : g.job \in Jobs)
      /\ Len(log) \in Nat /\ Len(log') = Len(log) + 1 /\ Len(log) \in 0..Len(log)
  BY AppendImage DEF TypeOK, Leases
<1>2. \A j \in Jobs : IsDone(mem, j) => IsDone(mem', j)
  BY <1>1, ApplyOther DEF IsDone
<1>3. \A j \in Jobs : IsDone(mem, j) /\ IsDone(image[Len(log)], j)
                        => IsDone(image'[Len(log) + 1], j)
  BY <1>1, ApplyOther, AppendImage DEF IsDone
<1>4. ASSUME NEW j \in Jobs, NEW k \in 0..Len(log), IsDone(mem, j),
             \A n \in k..Len(log) : IsDone(image[n], j)
      PROVE  \A n \in k..Len(log') : IsDone(image'[n], j)
  <2>1. Len(log) \in k..Len(log) /\ \A n \in k..Len(log') : n \in k..Len(log) \/ n = Len(log) + 1
    BY <1>1
  <2>2. \A n \in k..Len(log) : n \in 0..Len(log)
    BY <1>1
  <2>3. \A n \in k..Len(log) : image'[n] = image[n]
    BY <2>2, AppendImage
  <2> QED BY <1>3, <1>4, <2>1, <2>3
<1>5. \A g \in acks' : IsDone(mem', g.job) /\ \A n \in Cuts' : IsDone(image'[n], g.job)
  BY <1>1, <1>2, <1>4, AppendImage DEF DoneInv, Cuts
<1>6. ASSUME NEW p \in Procs, calls'[p].op = "ack"
      PROVE  /\ calls'[p].lsn <= Len(log')
             /\ IsDone(mem', calls'[p].job)
             /\ \A n \in calls'[p].lsn..Len(log') : IsDone(image'[n], calls'[p].job)
  <2>1. CASE calls'[p] = calls[p]
    <3>1. /\ calls[p].lsn \in 0..Len(log) /\ calls[p].job \in Jobs
          /\ IsDone(mem, calls[p].job)
          /\ \A n \in calls[p].lsn..Len(log) : IsDone(image[n], calls[p].job)
      BY <1>1, <1>6, <2>1, CallType DEF DoneInv, Pending
    <3> QED BY <1>1, <1>2, <1>4, <2>1, <3>1
  <2>2. CASE calls'[p] # calls[p]
    <3>1. /\ e.type = "ack" /\ mem' = Apply(mem, e)
          /\ calls'[p].job = e.job /\ calls'[p].lsn = Len(log) + 1
      BY <1>6, <2>2
    <3>2. IsDone(mem', e.job) /\ IsDone(image'[Len(log) + 1], e.job)
      BY <1>1, <3>1, ApplyState, AppendImage DEF IsDone
    <3> QED BY <1>1, <3>1, <3>2
  <2> QED BY <2>1, <2>2
<1> QED BY <1>5, <1>6 DEF DoneInv, Pending

\* A step that leaves the jobs and the log alone and starts no wait.
LEMMA SameDone ==
    ASSUME TypeOK, DoneInv, mem'.jobs = mem.jobs, UNCHANGED <<log, image, acks>>,
           stable' \in stable..Len(log),
           \A p \in Procs : \/ calls'[p].op # "ack"
                            \/ /\ calls'[p].op = calls[p].op
                               /\ calls'[p].job = calls[p].job
                               /\ calls'[p].lsn = calls[p].lsn
    PROVE  DoneInv'
<1>1. Cuts' \subseteq Cuts
  BY DEF Cuts, TypeOK
<1> QED BY <1>1 DEF DoneInv, Pending, IsDone

\* An acked job, and one being acked from its own record on, stays done: no
\* operation writes a record about a job that is done.
LEMMA DoneStep ==
    ASSUME TypeOK, Healthy, LockInv, UsedInv, DoneInv, [Next]_vars
    PROVE  DoneInv'
<1> Len(log) \in Nat /\ stable \in 0..Len(log) /\ stable \in stable..Len(log)
  BY DEF TypeOK
<1>0. calls \in [Procs -> Calls]
  BY DEF TypeOK
<1>1. ASSUME NEW p \in Procs, NEW j \in Jobs, NEW r \in Requests, Submit(p, j, r)
      PROVE  DoneInv'
  <2>1. [type |-> "submit", job |-> j, key |-> r.key, maxRetries |-> r.maxRetries] \in Events
    BY RequestsAssumption DEF Events, SubmitEvents
  <2>2. ~IsDone(mem, j)
    BY <1>1 DEF Submit, UsedInv, Has, IsDone
  <2>3. \A q \in Procs : calls'[q] = calls[q] \/ calls'[q].op # "ack"
    BY <1>0, <1>1 DEF Submit, AwaitCommit
  <2> QED BY <1>1, <2>1, <2>2, <2>3, RecordDone DEF Submit, RecordLocked
<1>2. CASE \E k \in Keys : SubmitDuplicate(k)
  BY <1>2, SameDone DEF SubmitDuplicate, memVars, diskVars
<1>3. ASSUME NEW j \in Jobs, ReserveEpochs(j) PROVE DoneInv'
  <2>1. AppendRecord(ReserveEvent) /\ mem' = mem /\ acks' = acks /\ calls' = calls
    BY <1>3 DEF ReserveEpochs, histVars
  <2> QED BY <2>1, ReserveEventType, RecordDone
<1>4. ASSUME NEW j \in Jobs, Lease(j) PROVE DoneInv'
  <2>1. [type |-> "lease", job |-> j, epoch |-> nextEpoch,
         attempt |-> mem.jobs[j].attempt + 1] \in Events
    BY JobType DEF Events, LeaseEvents, TypeOK
  <2>2. Leasable(mem.jobs[j])
    BY <1>4, NoneAssumption DEF Lease, Candidate, LockInv
  <2>3. ~IsDone(mem, j)
    BY <2>2 DEF Leasable, IsDone
  <2> QED BY <1>4, <2>1, <2>3, RecordDone DEF Lease, RecordLocked
<1>5. CASE \E j \in Jobs : LeaseRefused(j)
  BY <1>5, SameDone DEF LeaseRefused, histVars
<1>6. CASE EpochsReserved
  BY <1>6, ReservedJobs, SameDone DEF EpochsReserved, diskVars, histVars
<1>7. CASE ReserveFails
  BY <1>7, SameDone DEF ReserveFails, histVars
<1>8. ASSUME NEW p \in Procs, NEW g \in Grants, Ack(p, g) PROVE DoneInv'
  <2> DEFINE e == [type |-> "ack", job |-> g.job]
  <2>1. e \in Events /\ e.type = "ack" /\ e.job = g.job
    BY GrantType DEF Events, AckEvents
  <2>2. AppendRecord(e) /\ mem' = Apply(mem, e) /\ acks' = acks /\ ~IsDone(mem, g.job)
    BY <1>8 DEF Ack, RecordLocked, HoldsLease, IsDone, histVars
  <2>3. AwaitCommit(p, "ack", g.job, g.epoch)
    BY <1>8 DEF Ack
  <2> HIDE DEF e
  <2>4. Len(log') = Len(log) + 1
    BY <2>1, <2>2, AppendImage
  <2>5. \A q \in Procs : \/ calls'[q] = calls[q]
                         \/ calls'[q].job = e.job /\ calls'[q].lsn = Len(log) + 1
    BY <1>0, <2>1, <2>3, <2>4 DEF AwaitCommit
  <2> QED BY <2>1, <2>2, <2>5, RecordDone
<1>9. ASSUME NEW p \in Procs, NEW g \in Grants, Nack(p, g) PROVE DoneInv'
  <2>1. \A q \in Procs : calls'[q] = calls[q] \/ calls'[q].op # "ack"
    BY <1>0, <1>9 DEF Nack, AwaitCommit
  <2>2. ~IsDone(mem, g.job)
    BY <1>9 DEF Nack, HoldsLease, IsDone
  <2> QED BY <1>9, <2>1, <2>2, GrantType, FailEventType, RecordDone
          DEF Nack, FailLocked, RecordLocked, histVars
<1>10. CASE \E g \in Grants : Heartbeat(g)
  BY <1>10, SameDone DEF Heartbeat, diskVars, histVars
<1>11. CASE \E j \in Jobs : LeaseExpires(j)
  BY <1>11, SameDone DEF LeaseExpires, diskVars, histVars
<1>12. ASSUME NEW j \in Jobs, ReclaimOne(j) PROVE DoneInv'
  <2>1. ~IsDone(mem, j)
    BY <1>12 DEF ReclaimOne, LockInv, IsDone
  <2> QED BY <1>12, <2>1, FailEventType, RecordDone
          DEF ReclaimOne, FailLocked, RecordLocked, histVars
<1>13. CASE \E p \in Procs : ReclaimExpired(p)
  BY <1>13, SameDone DEF ReclaimExpired, memVars, diskVars, histVars
<1>14. CASE ReclaimCommit
  <2>1. \A q \in Procs : calls'[q] = calls[q] \/ calls'[q].op # "ack"
    BY <1>0, <1>14 DEF ReclaimCommit
  <2> QED BY <1>14, <2>1, SameDone DEF ReclaimCommit, memVars, diskVars, histVars
<1>15. CASE ReclaimAborts
  BY <1>15, SameDone DEF ReclaimAborts, memVars, histVars
<1>16. ASSUME NEW p \in Procs, NEW j \in Jobs, ReplayJob(p, j) PROVE DoneInv'
  <2>1. [type |-> "replay", job |-> j] \in Events
    BY DEF Events, ReplayEvents
  <2>2. \A q \in Procs : calls'[q] = calls[q] \/ calls'[q].op # "ack"
    BY <1>0, <1>16 DEF ReplayJob, AwaitCommit
  <2>3. ~IsDone(mem, j)
    BY <1>16 DEF ReplayJob, IsDone
  <2> QED BY <1>16, <2>1, <2>2, <2>3, RecordDone DEF ReplayJob, RecordLocked, histVars
<1>17. CASE AppendFails
  BY <1>17, SameDone DEF AppendFails, memVars, histVars
<1>18. CASE UNCHANGED vars
  BY <1>18, SameDone DEF vars, memVars, diskVars, histVars
<1>19. ASSUME NEW n \in 1..MaxLog, Sync(n) PROVE DoneInv'
  <2>1. stable' \in stable..Len(log)
    BY <1>19 DEF Sync, Healthy
  <2> QED BY <1>19, <2>1, SameDone DEF Sync, memVars, histVars
<1>20. ASSUME NEW batch \in SUBSET Procs, SyncFails(batch) PROVE DoneInv'
  <2>1. \A q \in Procs : /\ calls'[q].op = calls[q].op
                         /\ calls'[q].job = calls[q].job
                         /\ calls'[q].lsn = calls[q].lsn
    BY <1>20, SyncFailsCalls
  <2> QED BY <1>20, <2>1, SameDone DEF SyncFails, memVars, histVars
<1>21. ASSUME NEW p \in Procs, Return(p) PROVE DoneInv'
  <2>1. UNCHANGED <<mem, log, image, stable>> /\ Cuts' = Cuts
    BY <1>21 DEF Return, memVars, diskVars, Cuts
  <2>2. \A q \in Procs : calls'[q] = calls[q] \/ calls'[q].op # "ack"
    BY <1>0, <1>21 DEF Return, Idle
  <2>3. \A g \in acks : IsDone(mem', g.job) /\ \A n \in Cuts' : IsDone(image'[n], g.job)
    BY <2>1 DEF DoneInv
  <2>4. ASSUME calls[p].op = "ack"
        PROVE  IsDone(mem, calls[p].job) /\ \A n \in Cuts : IsDone(image[n], calls[p].job)
    <3>1. calls[p].lsn \in Nat /\ calls[p].lsn <= stable
      BY <1>21, CallType DEF Return, Healthy
    <3>2. \A n \in Cuts : n \in calls[p].lsn..Len(log)
      BY <3>1 DEF Cuts
    <3> QED BY <2>4, <3>2 DEF DoneInv, Pending
  <2>5. \A g \in acks' : g \in acks \/ (calls[p].op = "ack" /\ g.job = calls[p].job)
    BY <1>21 DEF Return
  <2>6. \A g \in acks' : IsDone(mem', g.job) /\ \A n \in Cuts' : IsDone(image'[n], g.job)
    BY <2>1, <2>3, <2>4, <2>5
  <2> QED BY <2>1, <2>2, <2>6 DEF DoneInv, Pending
<1>22. ASSUME NEW p \in Procs, Poison(p) PROVE DoneInv'
  <2>1. \A q \in Procs : calls'[q] = calls[q] \/ calls'[q].op # "ack"
    BY <1>0, <1>22 DEF Poison, Idle
  <2> QED BY <1>22, <2>1, SameDone DEF Poison, diskVars, histVars
<1>23. ASSUME NEW n \in 0..MaxLog, Crash(n) PROVE DoneInv'
  <2>1. acks' = acks /\ \A g \in acks : g.job \in Jobs
    BY <1>23 DEF Crash, histVars, TypeOK, Leases
  <2>2. \A q \in Procs : calls'[q].op # "ack"
    BY <1>23 DEF Crash, Open, Idle
  <2>3. n \in Cuts /\ n \in 0..Len(log) /\ Len(log') = n /\ stable' = stable
    BY <1>23, CrashImage
  <2>4. \A i \in 0..n : image'[i] = image[i]
    BY <1>23, CrashImage
  <2>5. \A i \in Cuts' : i \in Cuts /\ image'[i] = image[i]
    BY <2>3, <2>4 DEF Cuts
  <2>6. ASSUME NEW j \in Jobs, IsDone(image[n], j) PROVE IsDone(mem', j)
    <3>1. image[n].jobs[j] \in JobRec
      BY <1>23, CrashImage DEF Mem
    <3>2. mem'.jobs[j] = Released(image[n].jobs[j])
      BY <1>23, CrashImage
    <3> QED BY <2>6, <3>1, <3>2, ReleasedState DEF IsDone
  <2> QED BY <2>1, <2>2, <2>3, <2>5, <2>6 DEF DoneInv, Pending
<1> QED BY <1>1, <1>2, <1>3, <1>4, <1>5, <1>6, <1>7, <1>8, <1>9, <1>10, <1>11, <1>12, <1>13,
           <1>14, <1>15, <1>16, <1>17, <1>18, <1>19, <1>20, <1>21, <1>22, <1>23
        DEF Next, Live, ReadOnly

-----------------------------------------------------------------------------
(* The theorems *)

\* The inductive invariant holds initially.
LEMMA DurableInit == Init => Durable
<1> SUFFICES ASSUME Init PROVE Durable
  OBVIOUS
<1>1. /\ Len(log) = 0 /\ stable = 0 /\ reported = 0 /\ image[0] = EmptyMem /\ mem = EmptyMem
      /\ dropped = FALSE /\ reserving = None /\ sweeper = None /\ sweep = {}
      /\ accepted = {} /\ acks = {} /\ nextEpoch = 1
      /\ \A p \in Procs : calls[p].op = "idle"
  BY DEF Init, Idle
<1>2. DOMAIN issued = {}
  BY DEF Init
<1>3. EmptyMem.leased = {} /\ EmptyMem.reserved = 0
      /\ \A j \in Jobs : EmptyMem.jobs[j].state = "Absent"
  BY DEF EmptyMem, NoJob
<1>4. Healthy
  BY <1>1 DEF Healthy
<1>5. LeasedSetExact
  BY <1>1, <1>3 DEF LeasedSetExact
<1>6. LockInv
  BY <1>1 DEF LockInv
<1>7. TokenInv
  BY <1>1, <1>2, <1>3 DEF TokenInv, ReservationInv
<1>8. TokensIncrease
  BY <1>2 DEF TokensIncrease
<1>9. UsedInv
  <2>1. \A n \in 0..Len(log) : image[n] = EmptyMem
    BY <1>1
  <2> QED BY <1>1, <1>3, <2>1 DEF UsedInv, Has
<1>10. AcceptedInv
  BY <1>1 DEF AcceptedInv, Pending
<1>11. DoneInv
  BY <1>1 DEF DoneInv, Pending
<1> QED BY <1>4, <1>5, <1>6, <1>7, <1>8, <1>9, <1>10, <1>11 DEF Durable

\* Every step preserves it.
LEMMA DurableStep ==
    ASSUME DropsPages = FALSE
    PROVE  TypeOK /\ Durable /\ [Next]_vars => Durable'
<1> SUFFICES ASSUME TypeOK, Durable, [Next]_vars PROVE Durable'
  OBVIOUS
<1>1. Healthy' /\ LockInv'
  BY HealthyStep, LockStep DEF Durable
<1>2. TokenInv' /\ TokensIncrease'
  BY TokenStep, IncreaseStep DEF Durable
<1>3. UsedInv' /\ LeasedSetExact'
  BY UsedStep, LeasedStep DEF Durable
<1>4. AcceptedInv' /\ DoneInv'
  BY AcceptedStep, DoneStep DEF Durable
<1> QED BY <1>1, <1>2, <1>3, <1>4 DEF Durable

\* The inductive invariant holds in every reachable state: whatever a crash may
\* leave of the log keeps every promise already made.
LEMMA DurableHolds ==
    ASSUME DropsPages = FALSE
    PROVE  Spec => []Durable
<1>1. Init => TypeOK /\ Durable
  BY TypeInit, DurableInit
<1>2. TypeOK /\ Durable /\ [Next]_vars => TypeOK' /\ Durable'
  BY TypeStep, DurableStep
<1> QED BY <1>1, <1>2, PTL DEF Spec

\* Fencing tokens strictly increase over the whole life of the data directory:
\* one durable reservation per block is enough, whichever lease records a crash
\* loses.
THEOREM FencingTokensIncrease ==
    ASSUME DropsPages = FALSE
    PROVE  Spec => []TokensIncrease
<1>1. Durable => TokensIncrease
  BY DEF Durable
<1> QED BY <1>1, DurableHolds, PTL

\* A job whose Submit returned success (not as a duplicate) survives every crash.
THEOREM AcceptedJobsSurvive ==
    ASSUME DropsPages = FALSE
    PROVE  Spec => []AcceptedSurvive
<1>1. Durable => AcceptedSurvive
  BY DEF Durable, AcceptedInv, AcceptedSurvive, Has
<1> QED BY <1>1, DurableHolds, PTL

\* A job whose Ack was accepted stays done across every crash and is never
\* handed out again.
THEOREM CompletedJobsStayDone ==
    ASSUME DropsPages = FALSE
    PROVE  Spec => []CompletedStayDone
<1>1. Durable => CompletedStayDone
  BY DEF Durable, DoneInv, CompletedStayDone, IsDone
<1> QED BY <1>1, DurableHolds, PTL

\* The set ReclaimExpired scans is exactly the jobs on lease, on any disk.
THEOREM LeasedSetIsExact == Spec => []LeasedSetExact
<1> DEFINE I == TypeOK /\ LockInv /\ UsedInv /\ LeasedSetExact
<1>1. Init => I
  BY TypeInit, DurableInit DEF Durable
<1>2. I /\ [Next]_vars => I'
  BY TypeStep, LockStep, UsedStep, LeasedStep
<1> QED BY <1>1, <1>2, PTL DEF Spec

\* Once a failed flush has poisoned the store no job changes until a restart:
\* recordLocked refuses, and a reservation touches no job.
THEOREM PoisonedStoreIsFrozen == Spec => PoisonFreezesJobs
<1> DEFINE Frozen == failed /\ crashes' = crashes => mem'.jobs = mem.jobs
<1>1. ASSUME TypeOK, [Next]_vars PROVE [Frozen]_vars
  <2> SUFFICES ASSUME failed, crashes' = crashes, Next PROVE mem'.jobs = mem.jobs
    BY <1>1
  <2>1. ASSUME NEW n \in 0..MaxLog, Crash(n) PROVE FALSE
    BY <1>1, <2>1 DEF Crash, TypeOK
  <2>2. CASE EpochsReserved
    BY <1>1, <2>2, ReservedJobs
  <2>3. ASSUME NEW p \in Procs, NEW j \in Jobs, NEW r \in Requests, Submit(p, j, r)
        PROVE  FALSE
    BY <2>3 DEF Submit, RecordLocked
  <2>4. ASSUME NEW p \in Procs, NEW g \in Grants, Ack(p, g) \/ Nack(p, g) PROVE FALSE
    BY <2>4 DEF Ack, Nack, FailLocked, RecordLocked
  <2>5. ASSUME NEW j \in Jobs, Lease(j) \/ ReclaimOne(j) PROVE FALSE
    BY <2>5 DEF Lease, ReclaimOne, FailLocked, RecordLocked
  <2>6. ASSUME NEW p \in Procs, NEW j \in Jobs, ReplayJob(p, j) PROVE FALSE
    BY <2>6 DEF ReplayJob, RecordLocked
  <2>7. CASE \/ \E k \in Keys : SubmitDuplicate(k)
             \/ \E j \in Jobs : ReserveEpochs(j) \/ LeaseRefused(j) \/ LeaseExpires(j)
             \/ ReserveFails
             \/ \E g \in Grants : Heartbeat(g)
             \/ \E p \in Procs : ReclaimExpired(p) \/ Return(p) \/ Poison(p)
             \/ ReclaimCommit
             \/ ReclaimAborts
             \/ AppendFails
             \/ ReadOnly
             \/ \E n \in 1..MaxLog : Sync(n)
             \/ \E batch \in SUBSET Procs : SyncFails(batch)
    BY <2>7
       DEF SubmitDuplicate, ReserveEpochs, LeaseRefused, LeaseExpires, ReserveFails,
           Heartbeat, ReclaimExpired, Return, Poison, ReclaimCommit, ReclaimAborts,
           AppendFails, ReadOnly, Sync, SyncFails, vars, memVars
  <2> QED BY <2>1, <2>2, <2>3, <2>4, <2>5, <2>6, <2>7 DEF Next, Live
<1> QED BY <1>1, TypeCorrect, PTL DEF Spec, PoisonFreezesJobs

=============================================================================
