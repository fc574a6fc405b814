------------------------- MODULE StoreServiceProofs -------------------------
(***************************************************************************)
(* What the store promises its clients: only the newest lease of a job     *)
(* holds, a job gets one verdict, and the answers are those of JobQueue.   *)
(* The disk is one whose failed fsync leaves the pages in memory.          *)
(***************************************************************************)
EXTENDS StoreRebuildProofs

-----------------------------------------------------------------------------
(* The newest lease *)

\* The history grows at its end only.
LEMMA IssuedGrows ==
    ASSUME TypeOK, NEW e, Legal(e), e.type = "lease",
           issued' = Append(issued, [job |-> e.job, epoch |-> nextEpoch])
    PROVE  /\ Len(issued) \in Nat
           /\ DOMAIN issued = 1..Len(issued)
           /\ DOMAIN issued' = 1..(Len(issued) + 1)
           /\ \A i \in DOMAIN issued : issued'[i] = issued[i]
           /\ issued'[Len(issued) + 1] = [job |-> e.job, epoch |-> nextEpoch]
<1>1. issued \in Seq(Leases)
  BY DEF TypeOK
<1> QED BY <1>1

\* A legal lease is an event of type "lease", about a leasable job and under the
\* next token; the others are told apart by their types too.
LEMMA LegalCases ==
    ASSUME NEW e, Legal(e)
    PROVE  /\ e.type \in {"submit", "lease", "ack", "fail", "replay"}
           /\ e.type = "submit" => e.job \notin used
           /\ e.type = "lease" => e.epoch = nextEpoch /\ Leasable(mem.jobs[e.job])
           /\ e.type \in {"ack", "fail"} => mem.jobs[e.job].state = "Leased"
           /\ e.type = "fail" => e.next \in {"RetryWait", "DeadLetter"}
           /\ e.type = "replay" => mem.jobs[e.job].state = "DeadLetter"
BY DEF Legal, SubmitEvents, LeaseEvents, AckEvents, FailEvents, ReplayEvents

\* Every step leaves a job on lease only under its newest lease: a new lease has
\* a token above all others, and recovery leaves no job on lease.
LEMMA NewestStep ==
    ASSUME TypeOK, LockInv, TokenInv, OnlyNewestLeaseHolds, [Next]_vars
    PROVE  OnlyNewestLeaseHolds'
<1>0. mem \in Mem /\ \A i \in DOMAIN issued : issued[i].job \in Jobs /\ issued[i].epoch \in Nat
  BY IssuedType DEF TypeOK
<1>1. ASSUME issued' = issued,
             \A j \in Jobs : mem'.jobs[j].state = "Leased" => mem'.jobs[j] = mem.jobs[j]
      PROVE  OnlyNewestLeaseHolds'
  BY <1>0, <1>1 DEF OnlyNewestLeaseHolds, HoldsLease
<1>2. ASSUME NEW e, Recorded(e) PROVE OnlyNewestLeaseHolds'
  <2>0. e \in Events /\ e.type # "reserve" /\ e.job \in Jobs /\ Legal(e) /\ mem' = Apply(mem, e)
    BY <1>2, LegalType DEF Recorded, RecordLocked
  <2>1. \A j \in Jobs : j # e.job => mem'.jobs[j] = mem.jobs[j]
    BY <1>0, <2>0, ApplyOther
  <2>2. CASE e.type # "lease"
    <3>1. mem'.jobs[e.job].state # "Leased"
      BY <1>0, <2>0, <2>2, ApplyState, LegalCases
    <3>2. issued' = issued
      BY <1>2, <2>2 DEF Recorded
    <3> QED BY <1>1, <2>1, <3>1, <3>2
  <2>3. CASE e.type = "lease"
    <3>1. issued' = Append(issued, [job |-> e.job, epoch |-> nextEpoch])
      BY <1>2, <2>3 DEF Recorded
    <3>2. mem'.jobs[e.job].epoch = nextEpoch
      BY <1>0, <2>0, <2>3, ApplyFields, LegalCases
    <3>3. /\ Len(issued) \in Nat
          /\ DOMAIN issued = 1..Len(issued)
          /\ DOMAIN issued' = 1..(Len(issued) + 1)
          /\ \A i \in DOMAIN issued : issued'[i] = issued[i]
          /\ issued'[Len(issued) + 1] = [job |-> e.job, epoch |-> nextEpoch]
      BY <2>0, <2>3, <3>1, IssuedGrows
    <3>4. ASSUME NEW i \in DOMAIN issued', NEW k \in DOMAIN issued',
                 mem'.jobs[issued'[i].job].state = "Leased",
                 mem'.jobs[issued'[i].job].epoch = issued'[i].epoch,
                 issued'[k].job = issued'[i].job
          PROVE  k <= i
      <4>1. CASE i = Len(issued) + 1
        BY <3>3, <4>1
      <4>2. CASE i \in DOMAIN issued
        <5>1. issued'[i] = issued[i] /\ issued[i].epoch < nextEpoch
          BY <3>3, <4>2 DEF TokenInv
        <5>2. issued[i].job # e.job /\ nextEpoch \in Nat
          BY <1>0, <3>2, <3>4, <4>2, <5>1 DEF TypeOK
        <5>3. HoldsLease(issued[i]) /\ issued'[k].job = issued[i].job
          BY <1>0, <2>1, <3>4, <4>2, <5>1, <5>2 DEF HoldsLease
        <5>4. k \in DOMAIN issued /\ issued[k].job = issued[i].job
          BY <3>3, <5>2, <5>3
        <5> QED BY <4>2, <5>3, <5>4 DEF OnlyNewestLeaseHolds
      <4> QED BY <3>3, <4>1, <4>2
    <3> QED BY <3>4 DEF OnlyNewestLeaseHolds, HoldsLease
  <2> QED BY <2>2, <2>3
<1>3. CASE ReservationWritten
  BY <1>1, <1>3 DEF ReservationWritten
<1>4. CASE EpochsReserved
  BY <1>1, <1>4, ReservedJobs DEF EpochsReserved, histVars
<1>5. CASE Quiet
  BY <1>1, <1>5 DEF Quiet
<1>6. ASSUME NEW n \in 0..MaxLog, Crash(n) PROVE OnlyNewestLeaseHolds'
  <2>1. \A j \in Jobs : image[n].jobs[j] \in JobRec /\ mem'.jobs[j] = Released(image[n].jobs[j])
    BY <1>6, CrashImage DEF Mem
  <2>2. \A j \in Jobs : mem'.jobs[j].state # "Leased"
    BY <2>1, ReleasedState
  <2>3. issued' = issued
    BY <1>6 DEF Crash, histVars
  <2> QED BY <1>1, <2>2, <2>3
<1> QED BY <1>2, <1>3, <1>4, <1>5, <1>6, StepKinds

-----------------------------------------------------------------------------
(* Verdicts *)

\* No operation records anything about a job that is done.
LEMMA DoneUntouched ==
    ASSUME TypeOK, UsedInv, NEW e, Legal(e), NEW j \in Jobs, IsDone(mem, j)
    PROVE  e.job # j
BY LegalCases DEF UsedInv, Has, IsDone, Leasable

\* After a legal record the running store and the log have the same job.
LEMMA RecordSame ==
    ASSUME TypeOK, RebuildInv, NEW e, Legal(e)
    PROVE  Apply(mem, e).jobs[e.job] = Apply(image[Len(log)], e).jobs[e.job]
<1>1. mem \in Mem /\ image[Len(log)] \in Mem
  BY DEF TypeOK
<1>2. e \in Events /\ e.type # "reserve" /\ e.job \in Jobs
  BY LegalType
<1>3. SameJob(mem.jobs[e.job], image[Len(log)].jobs[e.job])
  BY <1>2 DEF RebuildInv
<1> QED BY <1>1, <1>2, <1>3, ApplySame

\* A spent lease stays spent: a new lease has another token, and an ack is
\* recorded only under the token the job has.
LEMMA RecordSpent ==
    ASSUME TypeOK, TokenInv, RebuildInv, NEW e, Legal(e), NEW g \in Grants, Spent(mem, g)
    PROVE  /\ Spent(Apply(mem, e), g)
           /\ Spent(image[Len(log)], g) => Spent(Apply(image[Len(log)], e), g)
<1>0. /\ mem \in Mem /\ image[Len(log)] \in Mem
      /\ e \in Events /\ e.type # "reserve" /\ e.job \in Jobs
      /\ g.job \in Jobs /\ g.epoch \in Nat
  BY LegalType, GrantType DEF TypeOK
<1>1. g.epoch < nextEpoch /\ nextEpoch \in Nat
  BY DEF TokenInv, Grants, TypeOK
<1>2. CASE e.job # g.job
  BY <1>0, <1>2, ApplyOther DEF Spent
<1>3. CASE e.job = g.job
  <2>1. Spent(Apply(mem, e), g)
    <3>1. CASE e.type = "lease"
      BY <1>0, <1>1, <1>3, <3>1, ApplyFields, LegalCases DEF Spent
    <3>2. CASE e.type = "ack"
      BY <1>0, <1>3, <3>2, ApplyFields, LegalCases DEF Spent
    <3>3. CASE e.type \in {"submit", "fail", "replay"}
      BY <1>0, <1>3, <3>3, ApplyState, LegalCases DEF Spent
    <3> QED BY <3>1, <3>2, <3>3, LegalCases
  <2> QED BY <1>3, <2>1, RecordSame DEF Spent
<1> QED BY <1>2, <1>3

\* A record settles the job of the Ack that waits for it, and spends the lease
\* of the Nack that waits for it.
LEMMA RecordVerdict ==
    ASSUME TypeOK, RebuildInv, NEW e, Legal(e), NEW g \in Grants, HoldsLease(g), e.job = g.job
    PROVE  /\ e.type = "ack" => CompletedBy(Apply(mem, e), g)
                                  /\ CompletedBy(Apply(image[Len(log)], e), g)
           /\ e.type = "fail" => Spent(Apply(mem, e), g) /\ Spent(Apply(image[Len(log)], e), g)
<1>0. mem \in Mem /\ e \in Events /\ e.type # "reserve" /\ e.job \in Jobs
  BY LegalType DEF TypeOK
<1>1. e.type = "ack" => CompletedBy(Apply(mem, e), g)
  BY <1>0, ApplyState, ApplyFields DEF CompletedBy, IsDone, HoldsLease
<1>2. e.type = "fail" => Spent(Apply(mem, e), g)
  BY <1>0, ApplyState, LegalCases DEF Spent
<1> QED BY <1>1, <1>2, RecordSame DEF CompletedBy, IsDone, Spent

\* A lease that holds is the newest of its job.
LEMMA HeldIsNewest ==
    ASSUME OnlyNewestLeaseHolds, NEW g, HoldsLease(g)
    PROVE  Newest(g)
BY DEF Newest, OnlyNewestLeaseHolds

\* A record leaves the newest lease of any other job the newest.
LEMMA RecordNewest ==
    ASSUME TypeOK, NEW e, Recorded(e), NEW g, Newest(g), e.job # g.job
    PROVE  Newest(g)'
<1>1. CASE e.type # "lease"
  BY <1>1 DEF Recorded, Newest
<1>2. CASE e.type = "lease"
  <2>1. /\ Len(issued) \in Nat
        /\ DOMAIN issued = 1..Len(issued)
        /\ DOMAIN issued' = 1..(Len(issued) + 1)
        /\ \A i \in DOMAIN issued : issued'[i] = issued[i]
        /\ issued'[Len(issued) + 1] = [job |-> e.job, epoch |-> nextEpoch]
    BY <1>2, IssuedGrows DEF Recorded
  <2>2. \A i \in DOMAIN issued' : issued'[i].job = g.job
                                    => i \in DOMAIN issued /\ issued'[i] = issued[i]
    BY <2>1
  <2> QED BY <2>2 DEF Newest
<1> QED BY <1>1, <1>2

\* Leases once issued stay in the history.
LEMMA GrantsGrow ==
    ASSUME TypeOK, NEW e, Recorded(e)
    PROVE  Grants \subseteq Grants'
<1>1. CASE e.type # "lease"
  BY <1>1 DEF Recorded, Grants
<1>2. CASE e.type = "lease"
  <2>1. /\ DOMAIN issued = 1..Len(issued) /\ DOMAIN issued' = 1..(Len(issued) + 1)
        /\ Len(issued) \in Nat
        /\ \A i \in DOMAIN issued : issued'[i] = issued[i]
    BY <1>2, IssuedGrows DEF Recorded
  <2>2. \A i \in DOMAIN issued : i \in DOMAIN issued'
    BY <2>1
  <2> QED BY <2>1, <2>2 DEF Grants
<1> QED BY <1>1, <1>2


\* What holds of the last image and of the memory from a record on goes on to
\* hold when a legal record is appended.
LEMMA RecordRange ==
    ASSUME TypeOK, UsedInv, TokenInv, RebuildInv, NEW e, Recorded(e), NEW g \in Leases,
           NEW k \in 0..Len(log)
    PROVE  /\ CompletedBy(mem, g) => CompletedBy(mem', g)
           /\ CompletedBy(mem, g) /\ (\A n \in k..Len(log) : CompletedBy(image[n], g))
                => \A n \in k..Len(log') : CompletedBy(image'[n], g)
           /\ g \in Grants /\ Spent(mem, g) => Spent(mem', g)
           /\ g \in Grants /\ Spent(mem, g) /\ (\A n \in k..Len(log) : Spent(image[n], g))
                => \A n \in k..Len(log') : Spent(image'[n], g)
<1>0. /\ mem \in Mem /\ image[Len(log)] \in Mem /\ Len(log) \in Nat
      /\ e \in Events /\ Legal(e) /\ AppendRecord(e) /\ mem' = Apply(mem, e)
  BY LegalType DEF TypeOK, Recorded, RecordLocked
<1>1. g.job \in Jobs
  BY DEF Leases
<1>2. /\ Len(log') = Len(log) + 1
      /\ \A n \in 0..Len(log) : image'[n] = image[n]
      /\ image'[Len(log) + 1] = Apply(image[Len(log)], e)
  BY <1>0, AppendImage
<1>3. /\ Len(log) \in k..Len(log)
      /\ \A n \in k..Len(log') : (n \in k..Len(log) /\ n \in 0..Len(log)) \/ n = Len(log) + 1
  BY <1>0, <1>2
<1>4. ASSUME CompletedBy(mem, g)
      PROVE  /\ CompletedBy(mem', g)
             /\ CompletedBy(image[Len(log)], g) => CompletedBy(image'[Len(log) + 1], g)
  <2>1. e.job # g.job
    BY <1>0, <1>1, <1>4, DoneUntouched DEF CompletedBy
  <2>2. /\ mem'.jobs[g.job] = mem.jobs[g.job]
        /\ image'[Len(log) + 1].jobs[g.job] = image[Len(log)].jobs[g.job]
    BY <1>0, <1>1, <1>2, <2>1, ApplyOther
  <2> QED BY <1>4, <2>2 DEF CompletedBy, IsDone
<1>5. ASSUME g \in Grants, Spent(mem, g)
      PROVE  /\ Spent(mem', g)
             /\ Spent(image[Len(log)], g) => Spent(image'[Len(log) + 1], g)
  BY <1>0, <1>2, <1>5, RecordSpent
<1>6. ASSUME CompletedBy(mem, g), \A n \in k..Len(log) : CompletedBy(image[n], g)
      PROVE  \A n \in k..Len(log') : CompletedBy(image'[n], g)
  BY <1>2, <1>3, <1>4, <1>6
<1>7. ASSUME g \in Grants, Spent(mem, g), \A n \in k..Len(log) : Spent(image[n], g)
      PROVE  \A n \in k..Len(log') : Spent(image'[n], g)
  BY <1>2, <1>3, <1>5, <1>7
<1> QED BY <1>4, <1>5, <1>6, <1>7

\* The lease of a waiting Ack or Nack is a lease.
LEMMA LeaseOfType ==
    ASSUME TypeOK, NEW p \in Procs, calls[p].op \in {"ack", "nack"}
    PROVE  LeaseOf(p) \in Leases
BY CallType DEF LeaseOf, Leases

\* A record keeps every verdict and begins at most one.
LEMMA VerdictRecord ==
    ASSUME TypeOK, UsedInv, TokenInv, DoneInv, RebuildInv, OnlyNewestLeaseHolds, VerdictInv,
           NEW e, Recorded(e)
    PROVE  VerdictInv'
<1>0. /\ Len(log) \in Nat /\ stable \in 0..Len(log) /\ acks \subseteq Leases
      /\ nacks \subseteq Leases
  BY DEF TypeOK
<1>1. /\ e \in Events /\ Legal(e) /\ AppendRecord(e) /\ mem' = Apply(mem, e) /\ Waiters(e)
      /\ acks' = acks /\ nacks' = nacks
  BY LegalType DEF Recorded, RecordLocked
<1>2. Len(log') = Len(log) + 1 /\ stable' = stable
      /\ image'[Len(log) + 1] = Apply(image[Len(log)], e)
  BY <1>1, AppendImage
<1>3. Grants \subseteq Grants'
  BY GrantsGrow
<1>4. \A g \in acks' : CompletedBy(mem', g) /\ \A n \in Cuts' : CompletedBy(image'[n], g)
  BY <1>0, <1>1, <1>2, RecordRange DEF VerdictInv, Cuts
<1>5. \A g \in nacks' : g \in Grants' /\ Spent(mem', g) /\ \A n \in Cuts' : Spent(image'[n], g)
  BY <1>0, <1>1, <1>2, <1>3, RecordRange DEF VerdictInv, Cuts
<1>6. ASSUME NEW p \in Procs, calls'[p].op = "ack"
      PROVE  /\ LeaseOf(p)' \in Grants'
             /\ Newest(LeaseOf(p))'
             /\ CompletedBy(mem', LeaseOf(p)')
             /\ \A n \in calls'[p].lsn..Len(log') : CompletedBy(image'[n], LeaseOf(p)')
  <2>1. CASE calls'[p] = calls[p]
    <3>1. calls[p].op = "ack" /\ LeaseOf(p)' = LeaseOf(p) /\ LeaseOf(p) \in Leases
      BY <1>6, <2>1, LeaseOfType DEF LeaseOf
    <3>2. /\ LeaseOf(p) \in Grants /\ Newest(LeaseOf(p)) /\ CompletedBy(mem, LeaseOf(p))
          /\ \A n \in calls[p].lsn..Len(log) : CompletedBy(image[n], LeaseOf(p))
      BY <3>1 DEF VerdictInv, Pending
    <3>3. calls[p].lsn \in 0..Len(log)
      BY <1>0, <3>1, CallType DEF DoneInv, Pending
    <3>4. e.job # LeaseOf(p).job
      BY <1>1, <3>1, <3>2, DoneUntouched DEF CompletedBy, Leases
    <3>5. Newest(LeaseOf(p))'
      <4>1. ASSUME NEW g, g = LeaseOf(p) PROVE Newest(g)'
        BY <3>2, <3>4, <4>1, RecordNewest
      <4> QED BY <3>1, <4>1 DEF Newest
    <3> QED BY <1>3, <2>1, <3>1, <3>2, <3>3, <3>5, RecordRange
  <2>2. CASE calls'[p] # calls[p]
    <3>1. PICK g \in Grants : /\ HoldsLease(g) /\ e.job = g.job
                              /\ calls'[p].job = g.job /\ calls'[p].epoch = g.epoch
                              /\ calls'[p].lsn = Len(log) + 1 /\ e.type = "ack"
      BY <1>1, <1>6, <2>2 DEF Waiters
    <3>2. g \in Leases
      BY GrantType
    <3>3. LeaseOf(p)' = g
      BY <3>1, <3>2 DEF LeaseOf, Leases
    <3>4. CompletedBy(mem', g) /\ CompletedBy(image'[Len(log) + 1], g)
      BY <1>1, <1>2, <3>1, RecordVerdict
    <3>5. Newest(g)'
      <4>1. Newest(g) /\ issued' = issued
        BY <3>1, HeldIsNewest DEF Recorded
      <4> QED BY <4>1 DEF Newest
    <3> QED BY <1>0, <1>2, <1>3, <3>1, <3>3, <3>4, <3>5 DEF Newest
  <2> QED BY <2>1, <2>2
<1>7. ASSUME NEW p \in Procs, calls'[p].op = "nack"
      PROVE  /\ calls'[p].lsn <= Len(log')
             /\ LeaseOf(p)' \in Grants'
             /\ Spent(mem', LeaseOf(p)')
             /\ \A n \in calls'[p].lsn..Len(log') : Spent(image'[n], LeaseOf(p)')
  <2>1. CASE calls'[p] = calls[p]
    <3>1. calls[p].op = "nack" /\ LeaseOf(p)' = LeaseOf(p) /\ LeaseOf(p) \in Leases
      BY <1>7, <2>1, LeaseOfType DEF LeaseOf
    <3>2. /\ calls[p].lsn \in 0..Len(log) /\ LeaseOf(p) \in Grants /\ Spent(mem, LeaseOf(p))
          /\ \A n \in calls[p].lsn..Len(log) : Spent(image[n], LeaseOf(p))
      BY <1>0, <3>1, CallType DEF VerdictInv, Pending
    <3>3. /\ Spent(mem', LeaseOf(p))
          /\ \A n \in calls[p].lsn..Len(log') : Spent(image'[n], LeaseOf(p))
      BY <3>1, <3>2, RecordRange
    <3> QED BY <1>0, <1>2, <1>3, <2>1, <3>1, <3>2, <3>3
  <2>2. CASE calls'[p] # calls[p]
    <3>1. PICK g \in Grants : /\ HoldsLease(g) /\ e.job = g.job
                              /\ calls'[p].job = g.job /\ calls'[p].epoch = g.epoch
                              /\ calls'[p].lsn = Len(log) + 1 /\ e.type = "fail"
      BY <1>1, <1>7, <2>2 DEF Waiters
    <3>2. g \in Leases
      BY GrantType
    <3>3. LeaseOf(p)' = g
      BY <3>1, <3>2 DEF LeaseOf, Leases
    <3>4. Spent(mem', g) /\ Spent(image'[Len(log) + 1], g)
      BY <1>1, <1>2, <3>1, RecordVerdict
    <3> QED BY <1>0, <1>2, <1>3, <3>1, <3>3, <3>4
  <2> QED BY <2>1, <2>2
<1> QED BY <1>4, <1>5, <1>6, <1>7 DEF VerdictInv, Pending


\* A step that leaves the jobs, the log and the history alone and answers nobody.
LEMMA VerdictSame ==
    ASSUME TypeOK, VerdictInv, mem'.jobs = mem.jobs, UNCHANGED <<log, image, issued>>,
           stable' \in stable..Len(log), NoAnswer
    PROVE  VerdictInv'
<1>1. Cuts' \subseteq Cuts /\ Grants' = Grants
  BY DEF Cuts, TypeOK, Grants
<1>2. \A p \in Procs : calls'[p].op \in {"ack", "nack"} =>
         /\ calls'[p].op = calls[p].op
         /\ calls'[p].lsn = calls[p].lsn
         /\ LeaseOf(p)' = LeaseOf(p)
  BY DEF NoAnswer, LeaseOf
<1>3. acks' = acks /\ nacks' = nacks
  BY DEF NoAnswer
<1>4. \A g : /\ CompletedBy(mem', g) <=> CompletedBy(mem, g)
             /\ Spent(mem', g) <=> Spent(mem, g)
  BY DEF CompletedBy, Spent, IsDone
<1>5. /\ \A g \in acks' : CompletedBy(mem', g) /\ \A n \in Cuts' : CompletedBy(image'[n], g)
      /\ \A g \in nacks' : g \in Grants' /\ Spent(mem', g) /\ \A n \in Cuts' : Spent(image'[n], g)
  BY <1>1, <1>3, <1>4 DEF VerdictInv
<1>6. ASSUME NEW p \in Procs, calls'[p].op = "ack"
      PROVE  /\ LeaseOf(p)' \in Grants'
             /\ Newest(LeaseOf(p))'
             /\ CompletedBy(mem', LeaseOf(p)')
             /\ \A n \in calls'[p].lsn..Len(log') : CompletedBy(image'[n], LeaseOf(p)')
  BY <1>1, <1>2, <1>4, <1>6 DEF VerdictInv, Pending, Newest
<1>7. ASSUME NEW p \in Procs, calls'[p].op = "nack"
      PROVE  /\ calls'[p].lsn <= Len(log')
             /\ LeaseOf(p)' \in Grants'
             /\ Spent(mem', LeaseOf(p)')
             /\ \A n \in calls'[p].lsn..Len(log') : Spent(image'[n], LeaseOf(p)')
  BY <1>1, <1>2, <1>4, <1>7 DEF VerdictInv, Pending
<1> QED BY <1>5, <1>6, <1>7 DEF VerdictInv, Pending

\* A reservation in the log touches no job.
LEMMA VerdictReservation ==
    ASSUME TypeOK, DoneInv, VerdictInv, ReservationWritten
    PROVE  VerdictInv'
<1>0. Len(log) \in Nat /\ stable \in 0..Len(log) /\ image[Len(log)] \in Mem
      /\ acks \subseteq Leases /\ nacks \subseteq Leases
  BY DEF TypeOK
<1>1. ReserveEvent \in Events /\ ReserveEvent.type = "reserve" /\ AppendRecord(ReserveEvent)
      /\ UNCHANGED <<mem, calls, issued, acks, nacks>>
  BY ReserveEventType DEF ReservationWritten
<1>2. /\ Len(log') = Len(log) + 1 /\ stable' = stable
      /\ \A n \in 0..Len(log) : image'[n] = image[n]
      /\ \A j \in Jobs : image'[Len(log) + 1].jobs[j] = image[Len(log)].jobs[j]
  BY <1>0, <1>1, AppendImage, ApplyOther
<1>3. ASSUME NEW g \in Leases, NEW k \in 0..Len(log)
      PROVE  /\ (\A n \in k..Len(log) : CompletedBy(image[n], g))
                  => \A n \in k..Len(log') : CompletedBy(image'[n], g)
             /\ (\A n \in k..Len(log) : Spent(image[n], g))
                  => \A n \in k..Len(log') : Spent(image'[n], g)
  <2>1. /\ Len(log) \in k..Len(log)
        /\ \A n \in k..Len(log') : (n \in k..Len(log) /\ n \in 0..Len(log)) \/ n = Len(log) + 1
    BY <1>0, <1>2
  <2>2. g.job \in Jobs
    BY DEF Leases
  <2>3. /\ CompletedBy(image'[Len(log) + 1], g) <=> CompletedBy(image[Len(log)], g)
        /\ Spent(image'[Len(log) + 1], g) <=> Spent(image[Len(log)], g)
    BY <1>2, <2>2 DEF CompletedBy, Spent, IsDone
  <2>4. ASSUME \A n \in k..Len(log) : CompletedBy(image[n], g), NEW n \in k..Len(log')
        PROVE  CompletedBy(image'[n], g)
    BY <1>2, <2>1, <2>3, <2>4
  <2>5. ASSUME \A n \in k..Len(log) : Spent(image[n], g), NEW n \in k..Len(log')
        PROVE  Spent(image'[n], g)
    BY <1>2, <2>1, <2>3, <2>5
  <2> QED BY <2>4, <2>5
<1>4. \A g \in acks' : CompletedBy(mem', g) /\ \A n \in Cuts' : CompletedBy(image'[n], g)
  BY <1>0, <1>1, <1>2, <1>3 DEF VerdictInv, Cuts
<1>5. \A g \in nacks' : g \in Grants' /\ Spent(mem', g) /\ \A n \in Cuts' : Spent(image'[n], g)
  BY <1>0, <1>1, <1>2, <1>3 DEF VerdictInv, Cuts, Grants
<1>6. ASSUME NEW p \in Procs, calls[p].op = "ack"
      PROVE  /\ LeaseOf(p)' \in Grants'
             /\ Newest(LeaseOf(p))'
             /\ CompletedBy(mem', LeaseOf(p)')
             /\ \A n \in calls'[p].lsn..Len(log') : CompletedBy(image'[n], LeaseOf(p)')
  <2>1. LeaseOf(p)' = LeaseOf(p) /\ LeaseOf(p) \in Leases /\ calls[p].lsn \in 0..Len(log)
    BY <1>0, <1>1, <1>6, LeaseOfType, CallType DEF LeaseOf, DoneInv, Pending
  <2>2. /\ LeaseOf(p) \in Grants /\ Newest(LeaseOf(p)) /\ CompletedBy(mem, LeaseOf(p))
        /\ \A n \in calls[p].lsn..Len(log) : CompletedBy(image[n], LeaseOf(p))
    BY <1>6 DEF VerdictInv, Pending
  <2>3. Grants' = Grants /\ (Newest(LeaseOf(p))' <=> Newest(LeaseOf(p)))
    BY <1>1, <2>1 DEF Grants, Newest
  <2> QED BY <1>1, <1>3, <2>1, <2>2, <2>3
<1>7. ASSUME NEW p \in Procs, calls[p].op = "nack"
      PROVE  /\ calls'[p].lsn <= Len(log')
             /\ LeaseOf(p)' \in Grants'
             /\ Spent(mem', LeaseOf(p)')
             /\ \A n \in calls'[p].lsn..Len(log') : Spent(image'[n], LeaseOf(p)')
  <2>1. LeaseOf(p)' = LeaseOf(p) /\ LeaseOf(p) \in Leases /\ calls[p].lsn \in 0..Len(log)
    BY <1>0, <1>1, <1>7, LeaseOfType, CallType DEF LeaseOf, VerdictInv, Pending
  <2>2. /\ LeaseOf(p) \in Grants /\ Spent(mem, LeaseOf(p))
        /\ \A n \in calls[p].lsn..Len(log) : Spent(image[n], LeaseOf(p))
    BY <1>7 DEF VerdictInv, Pending
  <2>3. Grants' = Grants /\ mem' = mem /\ calls'[p] = calls[p]
    BY <1>1 DEF Grants
  <2>4. \A n \in calls[p].lsn..Len(log') : Spent(image'[n], LeaseOf(p))
    BY <1>3, <2>1, <2>2
  <2>5. calls[p].lsn <= Len(log')
    BY <1>0, <1>2, <2>1
  <2> QED BY <2>1, <2>2, <2>3, <2>4, <2>5
<1> QED BY <1>1, <1>4, <1>5, <1>6, <1>7 DEF VerdictInv, Pending

\* An answer turns a verdict that waited, and whose record is durable, into one
\* that every cut of the log keeps.
LEMMA VerdictReturn ==
    ASSUME TypeOK, Healthy, VerdictInv, NEW p \in Procs, Return(p)
    PROVE  VerdictInv'
<1>0. Len(log) \in Nat /\ stable \in 0..Len(log) /\ calls \in [Procs -> Calls]
  BY DEF TypeOK
<1>1. UNCHANGED <<mem, log, image, stable, issued>> /\ Cuts' = Cuts /\ Grants' = Grants
  BY DEF Return, memVars, diskVars, Cuts, Grants
<1>2. /\ acks' = IF calls[p].op = "ack" THEN acks \cup {LeaseOf(p)} ELSE acks
      /\ nacks' = IF calls[p].op = "nack" THEN nacks \cup {LeaseOf(p)} ELSE nacks
  BY DEF Return, LeaseOf
<1>3. \A n \in Cuts : n \in calls[p].lsn..Len(log)
  BY <1>0, CallType DEF Return, Healthy, Cuts
<1>4. \A g \in acks' : CompletedBy(mem', g) /\ \A n \in Cuts' : CompletedBy(image'[n], g)
  BY <1>1, <1>2, <1>3 DEF VerdictInv, Pending
<1>5. \A g \in nacks' : g \in Grants' /\ Spent(mem', g) /\ \A n \in Cuts' : Spent(image'[n], g)
  BY <1>1, <1>2, <1>3 DEF VerdictInv, Pending
<1>6. \A q \in Procs : calls'[q].op \in {"ack", "nack"} => calls'[q] = calls[q]
  BY <1>0 DEF Return, Idle
<1>7. ASSUME NEW q \in Procs, calls'[q].op = "ack"
      PROVE  /\ LeaseOf(q)' \in Grants'
             /\ Newest(LeaseOf(q))'
             /\ CompletedBy(mem', LeaseOf(q)')
             /\ \A n \in calls'[q].lsn..Len(log') : CompletedBy(image'[n], LeaseOf(q)')
  <2>1. calls'[q] = calls[q] /\ LeaseOf(q)' = LeaseOf(q)
    BY <1>6, <1>7 DEF LeaseOf
  <2> QED BY <1>1, <1>7, <2>1 DEF VerdictInv, Pending, Newest
<1>8. ASSUME NEW q \in Procs, calls'[q].op = "nack"
      PROVE  /\ calls'[q].lsn <= Len(log')
             /\ LeaseOf(q)' \in Grants'
             /\ Spent(mem', LeaseOf(q)')
             /\ \A n \in calls'[q].lsn..Len(log') : Spent(image'[n], LeaseOf(q)')
  <2>1. calls'[q] = calls[q] /\ LeaseOf(q)' = LeaseOf(q)
    BY <1>6, <1>8 DEF LeaseOf
  <2> QED BY <1>1, <1>8, <2>1 DEF VerdictInv, Pending
<1> QED BY <1>4, <1>5, <1>7, <1>8 DEF VerdictInv, Pending

\* A crash keeps the verdicts that were answered and forgets who waited.
LEMMA VerdictCrash ==
    ASSUME TypeOK, VerdictInv, NEW n, Crash(n)
    PROVE  VerdictInv'
<1>1. /\ n \in Cuts /\ n \in 0..Len(log) /\ Len(log') = n /\ stable' = stable
      /\ \A i \in 0..n : image'[i] = image[i]
  BY CrashImage
<1>2. /\ UNCHANGED <<issued, acks, nacks>> /\ Grants' = Grants
      /\ \A q \in Procs : calls'[q].op \notin {"ack", "nack"}
  BY DEF Crash, Open, Idle, histVars, Grants
<1>3. \A i \in Cuts' : i \in Cuts /\ image'[i] = image[i]
  <2>1. stable \in Nat /\ Len(log) \in Nat
    BY DEF TypeOK
  <2> QED BY <1>1, <2>1 DEF Cuts
<1>4. ASSUME NEW g \in Leases
      PROVE  /\ CompletedBy(image[n], g) => CompletedBy(mem', g)
             /\ Spent(image[n], g) => Spent(mem', g)
  <2>1. g.job \in Jobs
    BY DEF Leases
  <2>2. image[n].jobs[g.job] \in JobRec /\ mem'.jobs[g.job] = Released(image[n].jobs[g.job])
    <3>1. image[n] \in Mem /\ mem'.jobs = [j \in Jobs |-> Released(image[n].jobs[j])]
      BY CrashImage
    <3> QED BY <2>1, <3>1 DEF Mem
  <2>3. /\ mem'.jobs[g.job].epoch = image[n].jobs[g.job].epoch
        /\ (mem'.jobs[g.job].state = "Done") <=> (image[n].jobs[g.job].state = "Done")
        /\ mem'.jobs[g.job].state # "Leased"
    BY <2>2, ReleasedState, ReleasedFields
  <2> QED BY <2>3 DEF CompletedBy, IsDone, Spent
<1>5. acks \subseteq Leases /\ nacks \subseteq Leases
  BY DEF TypeOK
<1>6. \A g \in acks' : CompletedBy(mem', g) /\ \A i \in Cuts' : CompletedBy(image'[i], g)
  BY <1>1, <1>2, <1>3, <1>4, <1>5 DEF VerdictInv
<1>7. \A g \in nacks' : g \in Grants' /\ Spent(mem', g) /\ \A i \in Cuts' : Spent(image'[i], g)
  BY <1>1, <1>2, <1>3, <1>4, <1>5 DEF VerdictInv
<1> QED BY <1>2, <1>6, <1>7 DEF VerdictInv, Pending

\* Every step keeps the verdicts.
LEMMA VerdictStep ==
    ASSUME TypeOK, Durable, RebuildInv, OnlyNewestLeaseHolds, VerdictInv, [Next]_vars
    PROVE  VerdictInv'
<1>0. Healthy /\ LockInv /\ TokenInv /\ UsedInv /\ DoneInv
  BY DEF Durable
<1>1. ASSUME NEW e, Recorded(e) PROVE VerdictInv'
  BY <1>0, <1>1, VerdictRecord
<1>2. CASE ReservationWritten
  BY <1>0, <1>2, VerdictReservation
<1>3. CASE EpochsReserved
  <2>1. stable \in stable..Len(log)
    <3>1. Len(log) \in Nat /\ stable \in 0..Len(log)
      BY DEF TypeOK
    <3> QED BY <3>1
  <2>2. UNCHANGED <<log, image, stable, issued, calls, accepted, acks, nacks>>
    BY <1>3 DEF EpochsReserved, diskVars, histVars
  <2> QED BY <1>3, <2>1, <2>2, ReservedJobs, VerdictSame DEF NoAnswer
<1>4. CASE Quiet
  BY <1>0, <1>4, VerdictSame, VerdictReturn DEF Quiet
<1>5. ASSUME NEW n \in 0..MaxLog, Crash(n) PROVE VerdictInv'
  BY <1>5, VerdictCrash
<1> QED BY <1>0, <1>1, <1>2, <1>3, <1>4, <1>5, StepKinds


-----------------------------------------------------------------------------
(* The theorems *)

\* The whole inductive invariant holds initially.
LEMMA InductiveInit == Init => Inductive
<1> SUFFICES ASSUME Init PROVE Inductive
  OBVIOUS
<1>1. Durable /\ OnAnyDisk
  BY DurableInit, AnyDiskInit
<1>2. /\ DOMAIN issued = {} /\ acks = {} /\ nacks = {}
      /\ \A p \in Procs : calls[p].op = "idle"
  BY DEF Init, Idle
<1>3. OnlyNewestLeaseHolds
  BY <1>2 DEF OnlyNewestLeaseHolds
<1>4. VerdictInv
  BY <1>2 DEF VerdictInv, Pending
<1> QED BY <1>1, <1>3, <1>4 DEF Inductive

\* Every step preserves it.
LEMMA InductiveStep ==
    ASSUME DropsPages = FALSE
    PROVE  TypeOK /\ Inductive /\ [Next]_vars => Inductive'
<1> SUFFICES ASSUME TypeOK, Inductive, [Next]_vars PROVE Inductive'
  OBVIOUS
<1>0. Durable /\ LockInv /\ TokenInv /\ OnAnyDisk /\ OnlyNewestLeaseHolds /\ VerdictInv
  BY DEF Inductive, Durable
<1>1. Durable'
  BY <1>0, DurableStep
<1>2. OnAnyDisk'
  BY <1>0, RebuildStep, KeysStep, BudgetStep, StrandedStep DEF OnAnyDisk
<1>3. OnlyNewestLeaseHolds' /\ VerdictInv'
  BY <1>0, NewestStep, VerdictStep DEF OnAnyDisk
<1> QED BY <1>1, <1>2, <1>3 DEF Inductive

\* The inductive invariant holds in every reachable state: whatever a crash may
\* leave of the log keeps every promise already made.
THEOREM InductiveHolds ==
    ASSUME DropsPages = FALSE
    PROVE  Spec => []Inductive
<1>1. Init => TypeOK /\ Inductive
  BY TypeInit, InductiveInit
<1>2. TypeOK /\ Inductive /\ [Next]_vars => TypeOK' /\ Inductive'
  BY TypeStep, InductiveStep
<1> QED BY <1>1, <1>2, PTL DEF Spec

\* A worker whose lease was reclaimed, or voided by a restart, is fenced: only
\* the newest lease of a job can pass holdsLease.
THEOREM StaleLeasesAreFenced ==
    ASSUME DropsPages = FALSE
    PROVE  Spec => []OnlyNewestLeaseHolds
<1>1. Inductive => OnlyNewestLeaseHolds
  BY DEF Inductive
<1> QED BY <1>1, InductiveHolds, PTL

\* A job gets at most one accepted Ack, and no lease is both acked and nacked.
LEMMA VerdictsAgree == TypeOK /\ VerdictInv => OneVerdict
<1> SUFFICES ASSUME TypeOK, VerdictInv PROVE OneVerdict
  OBVIOUS
<1>1. ASSUME NEW g \in acks, NEW h \in acks, g.job = h.job PROVE g = h
  <2>1. g \in Leases /\ h \in Leases /\ g.epoch = h.epoch
    BY <1>1 DEF TypeOK, VerdictInv, CompletedBy
  <2> QED BY <1>1, <2>1 DEF Leases
<1>2. ASSUME NEW g \in acks, g \in nacks PROVE FALSE
  BY <1>2 DEF VerdictInv, CompletedBy, IsDone, Spent
<1> QED BY <1>1, <1>2 DEF OneVerdict

\* However requests are delayed, repeated or reordered around reclaims and
\* restarts, no two answers contradict each other.
THEOREM VerdictsAreUnique ==
    ASSUME DropsPages = FALSE
    PROVE  Spec => []OneVerdict
<1>1. TypeOK /\ Inductive => OneVerdict
  BY VerdictsAgree DEF Inductive
<1> QED BY <1>1, InductiveHolds, TypeCorrect, PTL

-----------------------------------------------------------------------------
(* The store implements JobQueue *)

\* An empty store is an empty queue.
LEMMA QueueInitially == Init => Service!QueueInit
BY DEF Init, Service!QueueInit

\* A lease is a grant: its job is not completed and its token is above all
\* earlier ones.
LEMMA LeaseGrants ==
    ASSUME TypeOK, TokenInv, VerdictInv, NEW e, Recorded(e), e.type = "lease"
    PROVE  Service!QueueNext
<1> DEFINE g == [job |-> e.job, epoch |-> nextEpoch]
<1>0. e.job \in Jobs /\ nextEpoch \in Nat /\ Legal(e)
  BY LegalType DEF TypeOK, Recorded
<1>1. issued' = Append(issued, g) /\ UNCHANGED <<accepted, acks, nacks>>
  BY DEF Recorded
<1>2. Leasable(mem.jobs[e.job])
  BY <1>0, LegalCases
<1>3. \A h \in acks : h.job # e.job
  BY <1>2 DEF VerdictInv, CompletedBy, IsDone, Leasable
<1>4. \A i \in DOMAIN issued : issued[i].epoch < nextEpoch
  BY DEF TokenInv
<1>5. Len(issued) + 1 \in DOMAIN issued' /\ issued'[Len(issued) + 1] = g
  <2>1. /\ Len(issued) \in Nat /\ DOMAIN issued' = 1..(Len(issued) + 1)
        /\ issued'[Len(issued) + 1] = g
    BY <1>0, <1>1, IssuedGrows
  <2> QED BY <2>1
<1>6. g \in [job : Jobs, epoch : Nat]
  BY <1>0
<1>7. Service!Grant(g)
  BY <1>1, <1>3, <1>4 DEF Service!Grant
<1> HIDE DEF g
<1> QED BY <1>5, <1>6, <1>7 DEF Service!QueueNext

\* An answer is that of the queue: the lease of an accepted Ack is the newest of
\* its job and got no verdict before, or the answer repeats itself.
LEMMA ReturnAnswers ==
    ASSUME TypeOK, VerdictInv, NEW p \in Procs, Return(p)
    PROVE  Service!QueueNext \/ UNCHANGED Service!queueVars
<1>1. /\ accepted' = IF calls[p].op = "submit" THEN accepted \cup {calls[p].job} ELSE accepted
      /\ acks' = IF calls[p].op = "ack" THEN acks \cup {LeaseOf(p)} ELSE acks
      /\ nacks' = IF calls[p].op = "nack" THEN nacks \cup {LeaseOf(p)} ELSE nacks
      /\ issued' = issued
  BY DEF Return, LeaseOf
<1>2. CASE calls[p].op = "submit"
  <2>1. calls[p].job \in Jobs
    BY <1>2, CallType
  <2> QED BY <1>1, <1>2, <2>1 DEF Service!QueueNext, Service!Accept
<1>3. CASE calls[p].op = "ack"
  <2>1. LeaseOf(p) \in Grants /\ Newest(LeaseOf(p)) /\ CompletedBy(mem, LeaseOf(p))
    BY <1>3 DEF VerdictInv, Pending
  <2>2. PICK i \in DOMAIN issued : issued[i] = LeaseOf(p)
    BY <2>1 DEF Grants
  <2>3. LeaseOf(p) \notin nacks
    BY <2>1 DEF VerdictInv, CompletedBy, IsDone, Spent
  <2>4. CASE LeaseOf(p) \in acks
    BY <1>1, <1>3, <2>4 DEF Service!queueVars
  <2>5. CASE LeaseOf(p) \notin acks
    <3>1. \A k \in DOMAIN issued : issued[k].job = issued[i].job => k <= i
      BY <2>1, <2>2 DEF Newest
    <3>2. Service!Complete(i)
      BY <1>1, <1>3, <2>2, <2>3, <2>5, <3>1 DEF Service!Complete
    <3> QED BY <3>2 DEF Service!QueueNext
  <2> QED BY <2>4, <2>5
<1>4. CASE calls[p].op = "nack"
  <2>1. LeaseOf(p) \in Grants /\ Spent(mem, LeaseOf(p))
    BY <1>4 DEF VerdictInv, Pending
  <2>2. PICK i \in DOMAIN issued : issued[i] = LeaseOf(p)
    BY <2>1 DEF Grants
  <2>3. LeaseOf(p) \notin acks
    BY <2>1 DEF VerdictInv, CompletedBy, IsDone, Spent
  <2>4. CASE LeaseOf(p) \in nacks
    BY <1>1, <1>4, <2>4 DEF Service!queueVars
  <2>5. CASE LeaseOf(p) \notin nacks
    <3>1. Service!Fail(i)
      BY <1>1, <1>4, <2>2, <2>3, <2>5 DEF Service!Fail
    <3> QED BY <3>1 DEF Service!QueueNext
  <2> QED BY <2>4, <2>5
<1>5. CASE calls[p].op \notin {"submit", "ack", "nack"}
  BY <1>1, <1>5 DEF Service!queueVars
<1> QED BY <1>2, <1>3, <1>4, <1>5

\* Every step of the store is a step of the queue or changes no answer.
LEMMA ServiceStep ==
    ASSUME TypeOK, Inductive, [Next]_vars
    PROVE  [Service!QueueNext]_(Service!queueVars)
<1>0. LockInv /\ TokenInv /\ VerdictInv
  BY DEF Inductive, Durable
<1>1. ASSUME UNCHANGED <<accepted, issued, acks, nacks>>
      PROVE  UNCHANGED Service!queueVars
  BY <1>1 DEF Service!queueVars
<1>2. ASSUME NEW e, Recorded(e) PROVE Service!QueueNext \/ UNCHANGED Service!queueVars
  <2>1. CASE e.type = "lease"
    BY <1>0, <1>2, <2>1, LeaseGrants
  <2>2. CASE e.type # "lease"
    BY <1>1, <1>2, <2>2 DEF Recorded
  <2> QED BY <2>1, <2>2
<1>3. CASE ReservationWritten
  BY <1>1, <1>3 DEF ReservationWritten
<1>4. CASE EpochsReserved
  BY <1>1, <1>4 DEF EpochsReserved, histVars
<1>5. CASE Quiet
  BY <1>0, <1>1, <1>5, ReturnAnswers DEF Quiet, NoAnswer
<1>6. CASE \E n \in 0..MaxLog : Crash(n)
  BY <1>1, <1>6 DEF Crash, histVars
<1> QED BY <1>0, <1>2, <1>3, <1>4, <1>5, <1>6, StepKinds

\* The store implements the job queue: the answers clients get, over any number
\* of restarts, are those of a queue that never stops.
THEOREM StoreImplementsJobQueue ==
    ASSUME DropsPages = FALSE
    PROVE  Spec => ImplementsJobQueue
<1>1. TypeOK /\ Inductive /\ [Next]_vars => [Service!QueueNext]_(Service!queueVars)
  BY ServiceStep
<1> QED BY <1>1, QueueInitially, InductiveHolds, TypeCorrect, PTL
        DEF Spec, ImplementsJobQueue, Service!QueueSpec


=============================================================================
