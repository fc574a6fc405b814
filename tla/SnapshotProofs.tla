--------------------------- MODULE SnapshotProofs ---------------------------
(***************************************************************************)
(* Theorems about StoreSnapshot: snapshots that are marshalled while the   *)
(* store moves on, and the deletion of the records they account for, lose  *)
(* no accepted job and no accepted Ack, never take the token ceiling back  *)
(* and never keep the broker from starting, as long as each recovery finds *)
(* its snapshot and the log meeting.                                       *)
(***************************************************************************)
EXTENDS StoreSnapshot, StoreRebuildProofs, FiniteSetTheorems, WellFoundedInduction

-----------------------------------------------------------------------------
(* The inductive invariant *)

\* Memory (or snapshot) m has every job that i has, and is done with every job
\* that i is done with.  A job may be further along in m.
Kept(m, i) == \A j \in Jobs : (Has(i, j) => Has(m, j)) /\ (IsDone(i, j) => IsDone(m, j))

\* It has no other jobs.
Known(m, i) == \A j \in Jobs : Has(m, j) => Has(i, j)

\* What recovery may start from, now or once the call in progress published
\* its file: a readable file, or nothing.
Origins == {f \in files : f.readable} \cup {snap, NoSnap}

\* There is a newest file, the one just published is there, and what was deleted
\* of the log is in a file.
FilesInv ==
    /\ \E b \in Nat : \A f \in files : f.lsn <= b
    /\ snap.stage = "truncate" => \E f \in files : f.lsn = snap.lsn
    /\ TruncatedIsCovered

\* The log, replayed record by record: jobs and their completion are never taken
\* back, and no record is about a job that is not there.
LogInv ==
    /\ LogReplays
    /\ \A n \in 0..Len(log), k \in 0..Len(log) : k <= n => Kept(image[n], image[k])
    /\ \A n \in 1..Len(log) : \/ log[n].type \in {"submit", "reserve"}
                              \/ Has(image[n - 1], log[n].job)

\* The running store is not behind the log, and has no job that the log up to
\* lastLSN does not have; a snapshot stands in the same way to the log up to its
\* LSN, although its jobs were marshalled later.
CoverInv ==
    /\ lastLSN <= Len(log)
    /\ \A n \in 0..Len(log) : Kept(mem, image[n])
    /\ \A n \in lastLSN..Len(log) : Known(mem, image[n])
    /\ \A f \in Origins : /\ f.lsn <= Len(log)
                          /\ Kept(f, image[f.lsn])
                          /\ Known(f, image[f.lsn])

\* Records lo + 1 to n reserve no tokens.
NoReservation(lo, n) == \A k \in (lo + 1)..n : log[k].type # "reserve"

\* A snapshot that no reservation follows in what a crash leaves has a ceiling
\* above every token handed out, and above those that may still be without a
\* new reservation.  While one is being written no snapshot accounts for it.
CeilingInv ==
    /\ nextEpoch <= mem.reserved + 1
    /\ reserving # None /\ nextEpoch > mem.reserved =>
         /\ Len(log) > 0
         /\ log[Len(log)].type = "reserve"
         /\ \A f \in Origins : f.lsn < Len(log)
    /\ \A f \in Origins, n \in Cuts :
         f.lsn <= n /\ NoReservation(f.lsn, n) =>
           /\ \A i \in DOMAIN issued : issued[i].epoch <= f.reserved
           /\ nextEpoch <= mem.reserved => mem.reserved <= f.reserved

\* On any disk.
SnapInv ==
    /\ SnapTypeOK
    /\ FilesInv
    /\ Intact => ~down /\ LockInv /\ LeasedSetExact /\ UsedInv /\ LogInv /\ CoverInv

\* On a disk whose failed fsync leaves the pages in memory.
SnapDurable == Intact => Durable /\ CeilingInv

-----------------------------------------------------------------------------
(* Numbers, the newest file and replay *)

\* A set of numbers that is not empty has a least element.
LEMMA LeastNumber ==
    ASSUME NEW S, S \subseteq Nat, S # {}
    PROVE  \E x \in S : \A y \in S : x <= y
<1>1. \E x \in S : \A y \in S : ~(<<y, x>> \in OpToRel(<, Nat))
  BY NatLessThanWellFounded, WFMin
<1>2. \A x, y \in Nat : ~(<<y, x>> \in OpToRel(<, Nat)) => x <= y
  BY DEF OpToRel
<1> QED BY <1>1, <1>2

\* Induction, on a set of numbers.
LEMMA AllNumbers ==
    ASSUME NEW S, 0 \in S, \A k \in Nat : k \in S => k + 1 \in S
    PROVE  \A k \in Nat : k \in S
<1>1. SUFFICES ASSUME NEW k \in Nat, k \notin S PROVE FALSE
  OBVIOUS
<1>2. PICK x \in Nat \ S : \A y \in Nat \ S : x <= y
  BY <1>1, LeastNumber
<1>3. x # 0 /\ x - 1 \in Nat /\ x = (x - 1) + 1 /\ ~(x <= x - 1)
  BY <1>2
<1>4. x - 1 \in S
  BY <1>2, <1>3
<1> QED BY <1>2, <1>3, <1>4

\* A set of files with bounded LSNs has a newest one.
LEMMA NewestFile ==
    ASSUME NEW F, F # {}, \A f \in F : f.lsn \in Nat, NEW b \in Nat,
           \A f \in F : f.lsn <= b
    PROVE  \E f \in F : \A g \in F : g.lsn <= f.lsn
<1> DEFINE D == {b - f.lsn : f \in F}
<1>1. D \subseteq Nat /\ D # {}
  OBVIOUS
<1>2. PICK x \in D : \A y \in D : x <= y
  BY <1>1, LeastNumber
<1>3. PICK f \in F : x = b - f.lsn
  BY <1>2
<1>4. \A g \in F : b - f.lsn <= b - g.lsn
  BY <1>2, <1>3
<1> QED BY <1>4

\* r[i] is what replay has made of snapshot f and records lo + 1 to i.
IsRun(r, f, lo, n) ==
    \A i \in 0..n : r[i] = IF i <= lo THEN [ok |-> TRUE, mem |-> Loaded(f)]
                          ELSE ApplyChecked(r[i - 1], log[i])

\* The replay of records lo + 1 to n is a run of apply, one record after the
\* other, from the loaded snapshot.
LEMMA ReplayRun ==
    ASSUME NEW f, NEW lo \in Nat, NEW n \in Nat
    PROVE  \E r : r[n] = Replayed(f, lo, n) /\ IsRun(r, f, lo, n)
<1> DEFINE base == [ok |-> TRUE, mem |-> Loaded(f)]
           Runs(r, k) == r = [i \in 0..k |-> IF i <= lo THEN base
                                             ELSE ApplyChecked(r[i - 1], log[i])]
           S == {k \in Nat : \E r : Runs(r, k)}
<1> HIDE DEF base
<1>1. 0 \in S
  <2>1. Runs([i \in 0..0 |-> base], 0)
    OBVIOUS
  <2> QED BY <2>1
<1>2. ASSUME NEW k \in Nat, k \in S PROVE k + 1 \in S
  <2>1. PICK r : Runs(r, k)
    BY <1>2
  <2>2. \A i \in 0..k : r[i] = IF i <= lo THEN base ELSE ApplyChecked(r[i - 1], log[i])
    BY <2>1
  <2> DEFINE h == [i \in 0..(k + 1) |-> IF i <= k THEN r[i]
                                        ELSE IF i <= lo THEN base
                                        ELSE ApplyChecked(r[i - 1], log[i])]
  <2>3. ASSUME NEW i \in 0..(k + 1)
        PROVE  h[i] = IF i <= lo THEN base ELSE ApplyChecked(h[i - 1], log[i])
    <3>1. CASE i <= lo
      BY <2>2, <3>1
    <3>2. CASE ~(i <= lo)
      <4>1. i - 1 \in 0..k /\ i - 1 \in 0..(k + 1) /\ i - 1 <= k
        BY <3>2
      <4>2. h[i - 1] = r[i - 1]
        BY <4>1
      <4> QED BY <2>2, <3>2, <4>2
    <3> QED BY <3>1, <3>2
  <2>4. Runs(h, k + 1)
    <3>1. h = [i \in 0..(k + 1) |-> h[i]]
      OBVIOUS
    <3> HIDE DEF h
    <3> QED BY <2>3, <3>1
  <2>5. \E q : Runs(q, k + 1)
    <3> HIDE DEF h, Runs
    <3> QED BY <2>4
  <2> HIDE DEF Runs
  <2> QED BY <2>5
<1>3. \E r : Runs(r, n)
  <2> HIDE DEF Runs
  <2>1. \A k \in Nat : k \in S
    <3> HIDE DEF S
    <3> QED BY <1>1, <1>2, AllNumbers
  <2> QED BY <2>1
<1> DEFINE r == CHOOSE r : Runs(r, n)
<1>4. Runs(r, n)
  <2> HIDE DEF Runs
  <2> QED BY <1>3
<1>5. r[n] = Replayed(f, lo, n)
  BY DEF Replayed, base
<1> HIDE DEF r
<1>6. \A i \in 0..n : r[i] = IF i <= lo THEN base ELSE ApplyChecked(r[i - 1], log[i])
  BY <1>4
<1>7. IsRun(r, f, lo, n)
  BY <1>6 DEF IsRun, base
<1> QED BY <1>5, <1>7

-----------------------------------------------------------------------------
(* Shape *)

\* The memory loaded from a well-formed snapshot is well formed.
LEMMA LoadedType ==
    ASSUME NEW f, f.jobs \in [Jobs -> JobRec], f.reserved \in Nat
    PROVE  Loaded(f) \in Mem
<1>1. ASSUME NEW k \in Keys
      PROVE  (IF \E j \in Jobs : f.jobs[j].key = k
              THEN CHOOSE j \in Jobs : f.jobs[j].key = k ELSE None) \in Jobs \cup {None}
  OBVIOUS
<1>2. Loaded(f).idem \in [Keys -> Jobs \cup {None}]
  BY <1>1 DEF Loaded
<1>3. /\ Loaded(f).jobs \in [Jobs -> JobRec]
      /\ Loaded(f).leased \in SUBSET Jobs
      /\ Loaded(f).reserved \in Nat
      /\ Loaded(f) = [jobs |-> Loaded(f).jobs, idem |-> Loaded(f).idem,
                      leased |-> Loaded(f).leased, reserved |-> Loaded(f).reserved]
  BY DEF Loaded
<1> QED BY <1>2, <1>3 DEF Mem

\* No snapshot at all is well formed too.
LEMMA NoSnapType ==
    /\ EmptyMem.jobs \in [Jobs -> JobRec]
    /\ NoSnap \in [stage : {"none", "marshal", "truncate", "prune"}, lsn : Nat,
                   reserved : Nat, jobs : [Jobs -> JobRec]]
    /\ NoSnap.lsn = 0 /\ NoSnap.reserved = 0 /\ NoSnap.jobs = EmptyMem.jobs
    /\ NoSnap.stage = "none"
<1>1. NoJob \in JobRec
  BY DEF NoJob, JobRec, States
<1>2. EmptyMem.jobs \in [Jobs -> JobRec]
  BY <1>1 DEF EmptyMem
<1> HIDE DEF EmptyMem
<1> QED BY <1>2 DEF NoSnap

\* Every origin of a recovery is a well-formed snapshot.
LEMMA OriginType ==
    ASSUME SnapTypeOK, NEW f \in Origins
    PROVE  f.lsn \in Nat /\ f.reserved \in Nat /\ f.jobs \in [Jobs -> JobRec]
BY NoSnapType DEF SnapTypeOK, Origins

\* Recovery starts from an origin, and from no readable file that has a newer
\* one beside it.
LEMMA LatestIsOrigin ==
    ASSUME SnapTypeOK, FilesInv
    PROVE  /\ \E o \in Origins : /\ LoadLatest.lsn = o.lsn
                                 /\ LoadLatest.reserved = o.reserved
                                 /\ LoadLatest.jobs = o.jobs
           /\ \A g \in files : g.readable => g.lsn <= LoadLatest.lsn
<1> DEFINE R == {f \in files : f.readable}
<1>1. CASE R = {}
  <2>1. LoadLatest = [lsn |-> 0, reserved |-> 0, jobs |-> EmptyMem.jobs]
    BY <1>1 DEF LoadLatest
  <2>2. LoadLatest.lsn = 0 /\ LoadLatest.reserved = 0 /\ LoadLatest.jobs = EmptyMem.jobs
    BY <2>1
  <2>3. NoSnap \in Origins
    BY DEF Origins
  <2> QED BY <1>1, <2>2, <2>3, NoSnapType
<1>2. CASE R # {}
  <2>1. \A f \in files : f.lsn \in Nat
    BY DEF SnapTypeOK
  <2>2. PICK b \in Nat : \A f \in files : f.lsn <= b
    BY DEF FilesInv
  <2>3. \E f \in R : \A g \in R : g.lsn <= f.lsn
    BY <1>2, <2>1, <2>2, NewestFile
  <2>4. LoadLatest = CHOOSE f \in R : \A g \in R : g.lsn <= f.lsn
    BY <1>2 DEF LoadLatest
  <2>5. LoadLatest \in R /\ \A g \in R : g.lsn <= LoadLatest.lsn
    BY <2>3, <2>4
  <2>6. LoadLatest \in Origins
    BY <2>5 DEF Origins
  <2> QED BY <2>5, <2>6
<1> QED BY <1>1, <1>2

\* What replay makes of a well-formed memory is well formed.
LEMMA ReplayType ==
    ASSUME TypeOK, NEW f, Loaded(f) \in Mem, NEW lo \in Nat, NEW n \in 0..Len(log)
    PROVE  Replayed(f, lo, n).mem \in Mem
<1> log \in Seq(Events)
  BY DEF TypeOK
<1>0. n \in Nat /\ Len(log) \in Nat /\ \A i \in 1..Len(log) : log[i] \in Events
  OBVIOUS
<1>1. PICK r : r[n] = Replayed(f, lo, n) /\ IsRun(r, f, lo, n)
  BY <1>0, ReplayRun
<1> USE DEF IsRun
<1> DEFINE S == {i \in Nat : i <= n => r[i].mem \in Mem}
<1>2. 0 \in S
  BY <1>0, <1>1
<1>3. ASSUME NEW i \in Nat, i \in S PROVE i + 1 \in S
  <2>1. SUFFICES ASSUME i + 1 <= n PROVE r[i + 1].mem \in Mem
    OBVIOUS
  <2>2. /\ r[i].mem \in Mem
        /\ i + 1 \in 0..n /\ i + 1 \in 1..Len(log) /\ (i + 1) - 1 = i
    BY <1>0, <1>3, <2>1
  <2>3. r[i + 1] = IF i + 1 <= lo THEN [ok |-> TRUE, mem |-> Loaded(f)]
                   ELSE ApplyChecked(r[i], log[i + 1])
    BY <1>1, <2>2
  <2>4. Apply(r[i].mem, log[i + 1]) \in Mem
    BY <1>0, <2>2, ApplyType
  <2>5. \/ r[i + 1] = [ok |-> TRUE, mem |-> Loaded(f)]
        \/ r[i + 1] = [ok |-> TRUE, mem |-> Apply(r[i].mem, log[i + 1])]
        \/ r[i + 1] = [ok |-> FALSE, mem |-> r[i].mem]
    BY <2>3 DEF ApplyChecked
  <2> QED BY <2>2, <2>4, <2>5
<1>4. \A i \in Nat : i \in S
  <2> HIDE DEF S
  <2> QED BY <1>2, <1>3, AllNumbers
<1> QED BY <1>0, <1>1, <1>4

\* What every step of a running broker leaves alone or moves in one direction.
Moves ==
    /\ crashes' = crashes
    /\ stable' = stable \/ stable' \in reported..Len(log)
    /\ lastLSN' = lastLSN \/ lastLSN' = Len(log')
    /\ \/ nextEpoch' = nextEpoch
       \/ nextEpoch <= mem.reserved /\ nextEpoch' = nextEpoch + 1
    /\ \/ issued' = issued
       \/ /\ nextEpoch <= mem.reserved
          /\ \E j \in Jobs : issued' = Append(issued, [job |-> j, epoch |-> nextEpoch])

\* Each step of a running store moves these that way.
LEMMA LiveMoves ==
    ASSUME TypeOK, Live
    PROVE  Moves
<1>0. reported \in stable..Len(log) /\ Len(log) \in Nat
  BY DEF TypeOK
<1>a. ASSUME NEW e, RecordLocked(e) PROVE stable' = stable /\ lastLSN' = Len(log')
  <2>1. log \in Seq(Events) /\ log' = Append(log, e) /\ lastLSN' = Len(log) + 1
        /\ stable' = stable
    BY <1>a DEF TypeOK, RecordLocked, AppendRecord
  <2> QED BY <2>1
<1>1. ASSUME NEW e, RecordLocked(e), UNCHANGED <<nextEpoch, issued, crashes>> PROVE Moves
  BY <1>1, <1>a DEF Moves
<1>2. ASSUME UNCHANGED <<lastLSN, nextEpoch, issued, crashes, stable>> PROVE Moves
  BY <1>2 DEF Moves
<1>3. ASSUME NEW j \in Jobs, Lease(j) PROVE Moves
  <2>1. /\ crashes' = crashes /\ stable' = stable /\ lastLSN' = Len(log')
        /\ nextEpoch <= mem.reserved /\ nextEpoch' = nextEpoch + 1
        /\ issued' = Append(issued, [job |-> j, epoch |-> nextEpoch])
    BY <1>3, <1>a DEF Lease
  <2> QED BY <2>1 DEF Moves
<1>4. ASSUME NEW j \in Jobs, LeaseRefused(j) PROVE Moves
  BY <1>4 DEF LeaseRefused, Moves, histVars
<1>5. ASSUME NEW j \in Jobs, ReserveEpochs(j) PROVE Moves
  BY <1>2, <1>5 DEF ReserveEpochs, AppendRecord, histVars
<1>6. CASE EpochsReserved
  BY <1>6 DEF EpochsReserved, Moves, histVars, diskVars
<1>7. ASSUME NEW n \in 1..MaxLog, Sync(n) PROVE Moves
  BY <1>0, <1>7 DEF Sync, Moves, histVars, memVars
<1>8. CASE \/ \E p \in Procs, j \in Jobs, r \in Requests : Submit(p, j, r)
           \/ \E p \in Procs, j \in Jobs : ReplayJob(p, j)
  BY <1>1, <1>8 DEF Submit, ReplayJob, histVars
<1>9. CASE \E p \in Procs, g \in Grants : Ack(p, g) \/ Nack(p, g)
  BY <1>1, <1>9 DEF Ack, Nack, FailLocked, histVars
<1>10. CASE \E j \in Jobs : ReclaimOne(j)
  BY <1>1, <1>10 DEF ReclaimOne, FailLocked, histVars
<1>11. CASE \/ \E k \in Keys : SubmitDuplicate(k)
            \/ ReserveFails
            \/ \E g \in Grants : Heartbeat(g)
            \/ \E j \in Jobs : LeaseExpires(j)
            \/ \E p \in Procs : ReclaimExpired(p)
  BY <1>2, <1>11 DEF SubmitDuplicate, ReserveFails, Heartbeat, LeaseExpires, ReclaimExpired,
                     memVars, diskVars, histVars
<1>12. CASE \/ ReclaimCommit
            \/ ReclaimAborts
            \/ AppendFails
            \/ ReadOnly
            \/ \E batch \in SUBSET Procs : SyncFails(batch)
            \/ \E p \in Procs : Return(p) \/ Poison(p)
  BY <1>2, <1>12 DEF ReclaimCommit, ReclaimAborts, AppendFails, ReadOnly, SyncFails, Return,
                     Poison, vars, memVars, diskVars, histVars
<1> QED BY <1>3, <1>4, <1>5, <1>6, <1>7, <1>8, <1>9, <1>10, <1>11, <1>12 DEF Live

\* What a crash leaves of the log is a prefix.
LEMMA CutFacts ==
    ASSUME TypeOK, NEW n, LogCut(n)
    PROVE  /\ n \in Nat /\ n \in 0..Len(log) /\ n \in Cuts /\ Len(log) \in Nat
           /\ log' \in Seq(Events) /\ Len(log') = n
           /\ image' \in [0..Len(log') -> Mem]
           /\ stable' = stable /\ stable \in 0..n
           /\ reported' \in stable'..Len(log')
           /\ dropped' \in BOOLEAN
           /\ \A i \in 0..n : image'[i] = image[i] /\ image[i] \in Mem
           /\ \A i \in 1..n : log'[i] = log[i]
<1>1. /\ Len(log) \in Nat /\ n \in stable..Len(log) /\ n \in 0..Len(log)
      /\ stable \in 0..n /\ n \in Nat
  BY DEF TypeOK, LogCut
<1>2. log \in Seq(Events) /\ log' = SubSeq(log, 1, n)
  BY DEF TypeOK, LogCut
<1>3. log' \in Seq(Events) /\ Len(log') = n /\ \A i \in 1..n : log'[i] = log[i]
  BY <1>1, <1>2
<1>4. image' = [i \in 0..n |-> image[i]] /\ \A i \in 0..n : image[i] \in Mem
  BY <1>1 DEF TypeOK, LogCut
<1>5. stable' = stable /\ reported' = stable /\ dropped' \in BOOLEAN
  BY DEF TypeOK, LogCut
<1> QED BY <1>1, <1>3, <1>4, <1>5 DEF Cuts

\* Recovery puts the store into a well-formed state, whatever it finds.
LEMMA RecoveryType ==
    ASSUME SnapTypeOK, FilesInv, NEW n \in 0..MaxLog, CrashWithSnapshots(n)
    PROVE  TypeOK'
<1> DEFINE f == LoadLatest
           r == ReplayFrom(f, n)
<1>1. TypeOK
  BY DEF SnapTypeOK
<1>2. LogCut(n)
  BY DEF CrashWithSnapshots
<1>3. f.lsn \in Nat /\ f.reserved \in Nat /\ f.jobs \in [Jobs -> JobRec]
  BY LatestIsOrigin, OriginType
<1>4. Loaded(f) \in Mem
  BY <1>3, LoadedType
<1>5. ReplayStart(f) \in Nat
  BY <1>1, <1>3 DEF ReplayStart, SnapTypeOK, TypeOK
<1>6. r.mem \in Mem
  BY <1>1, <1>2, <1>4, <1>5, CutFacts, ReplayType DEF ReplayFrom
<1>7. Open(r.mem) /\ lastLSN' = (IF n > f.lsn THEN n ELSE f.lsn) /\ crashes' = crashes + 1
      /\ UNCHANGED <<histVars, faults>>
  BY DEF CrashWithSnapshots
<1> HIDE DEF f, r
<1>8. mem' \in Mem /\ nextEpoch' \in Nat
  BY <1>6, <1>7, RecoverType DEF Open
<1>9. calls' \in [Procs -> Calls] /\ index' \in SUBSET Jobs
  BY <1>7, IdleType DEF Open
<1>10. /\ failed' \in BOOLEAN /\ expired' \in SUBSET Jobs
       /\ reserving' \in Jobs \cup {None} /\ sweeper' \in Procs \cup {None}
       /\ sweep' \in SUBSET Jobs
  BY <1>7 DEF Open
<1>11. lastLSN' \in Nat /\ crashes' \in Nat
  BY <1>1, <1>3, <1>7 DEF TypeOK
<1>12. /\ log' \in Seq(Events) /\ image' \in [0..Len(log') -> Mem]
       /\ stable' \in 0..Len(log') /\ reported' \in stable'..Len(log')
       /\ dropped' \in BOOLEAN
  BY <1>1, <1>2, CutFacts
<1> QED BY <1>1, <1>7, <1>8, <1>9, <1>10, <1>11, <1>12 DEF TypeOK, histVars

\* A running broker keeps the shape of the store.
LEMMA LiveType ==
    ASSUME TypeOK, Live
    PROVE  TypeOK'
<1>1. Next
  BY DEF Next
<1> QED BY <1>1, TypeStep

\* Every step keeps the shape of the snapshot files and of the call in progress.
LEMMA SnapTypeStep ==
    ASSUME SnapTypeOK, FilesInv, [SnapNext]_allVars
    PROVE  SnapTypeOK'
<1> DEFINE Files == [lsn : Nat, reserved : Nat, jobs : [Jobs -> JobRec], readable : BOOLEAN]
           Snaps == [stage : {"none", "marshal", "truncate", "prune"}, lsn : Nat,
                     reserved : Nat, jobs : [Jobs -> JobRec]]
<1>0. /\ TypeOK /\ files \in SUBSET Files /\ snap \in Snaps /\ truncated \in 0..stable
      /\ {down, ahead, gap, fellBack} \subseteq BOOLEAN
      /\ stable \in Nat /\ reported \in Nat /\ stable <= reported
  BY DEF SnapTypeOK, TypeOK
<1>1. ASSUME UNCHANGED vars, files' \in SUBSET Files, snap' \in Snaps, truncated' \in 0..stable,
             UNCHANGED <<down, ahead, gap, fellBack>>
      PROVE  SnapTypeOK'
  <2>1. TypeOK'
    BY <1>0, <1>1, TypeStep
  <2>2. stable' = stable
    BY <1>1 DEF vars, diskVars
  <2> QED BY <1>0, <1>1, <2>1, <2>2 DEF SnapTypeOK
<1>2. CASE Live /\ UNCHANGED snapVars
  <2>1. TypeOK'
    BY <1>0, <1>2, LiveType
  <2>2. stable' \in Nat /\ stable <= stable'
    BY <1>0, <1>2, LiveMoves DEF Moves, TypeOK
  <2>3. truncated' \in 0..stable'
    BY <1>0, <1>2, <2>2 DEF snapVars
  <2> QED BY <1>0, <1>2, <2>1, <2>3 DEF SnapTypeOK, snapVars
<1>3. CASE SnapshotBegin
  <2>1. lastLSN \in Nat /\ mem.reserved \in Nat /\ mem.jobs \in [Jobs -> JobRec]
    BY <1>0 DEF TypeOK, Mem
  <2>2. snap' \in Snaps
    BY <1>3, <2>1 DEF SnapshotBegin
  <2> QED BY <1>0, <1>1, <1>3, <2>2 DEF SnapshotBegin
<1>4. ASSUME NEW j \in Jobs, NEW f \in Fields, SnapshotMarshal(j, f) PROVE SnapTypeOK'
  <2>1. mem.jobs[j] \in JobRec /\ snap.jobs[j] \in JobRec
    BY <1>0 DEF TypeOK, Mem
  <2>2. [snap.jobs[j] EXCEPT ![f] = mem.jobs[j][f]] \in JobRec
    <3>1. CASE f = "state"
      BY <2>1, <3>1 DEF JobRec
    <3>2. CASE f = "attempt"
      BY <2>1, <3>2 DEF JobRec
    <3>3. CASE f = "epoch"
      BY <2>1, <3>3 DEF JobRec
    <3> QED BY <3>1, <3>2, <3>3 DEF Fields
  <2>3. snap' = [snap EXCEPT !.jobs = [snap.jobs EXCEPT ![j] =
                    [snap.jobs[j] EXCEPT ![f] = mem.jobs[j][f]]]]
    BY <1>4 DEF SnapshotMarshal
  <2>4. snap' \in Snaps
    BY <1>0, <2>2, <2>3
  <2> QED BY <1>0, <1>1, <1>4, <2>4 DEF SnapshotMarshal
<1>5. CASE SnapshotPublish
  <2>1. [lsn |-> snap.lsn, reserved |-> snap.reserved, jobs |-> snap.jobs, readable |-> TRUE]
           \in Files
    BY <1>0
  <2>2. files' \in SUBSET Files /\ snap' \in Snaps
    BY <1>0, <1>5, <2>1 DEF SnapshotPublish
  <2> QED BY <1>0, <1>1, <1>5, <2>2 DEF SnapshotPublish
<1>6. CASE SnapshotTruncate
  <2>1. snap' \in Snaps /\ truncated' \in 0..stable
    BY <1>0, <1>6 DEF SnapshotTruncate
  <2> QED BY <1>0, <1>1, <1>6, <2>1 DEF SnapshotTruncate
<1>7. CASE SnapshotPrune
  BY <1>0, <1>1, <1>7, NoSnapType DEF SnapshotPrune
<1>8. CASE SnapshotFails
  BY <1>0, <1>1, <1>8, NoSnapType DEF SnapshotFails
<1>9. ASSUME NEW f \in files, SnapshotSpoils(f) PROVE SnapTypeOK'
  <2>1. [f EXCEPT !.readable = FALSE] \in Files
    BY <1>0
  <2>2. files' \in SUBSET Files
    BY <1>0, <1>9, <2>1 DEF SnapshotSpoils
  <2> QED BY <1>0, <1>1, <1>9, <2>2 DEF SnapshotSpoils
<1>10. ASSUME NEW n \in 0..MaxLog, CrashWithSnapshots(n) PROVE SnapTypeOK'
  <2>1. TypeOK'
    BY <1>10, RecoveryType
  <2>2. LogCut(n) /\ snap' = NoSnap /\ files' = files /\ truncated' = truncated
    BY <1>10 DEF CrashWithSnapshots
  <2>3. stable' = stable
    BY <2>2 DEF LogCut
  <2>4. {down', ahead', gap', fellBack'} \subseteq BOOLEAN
    BY <1>10 DEF CrashWithSnapshots
  <2> QED BY <1>0, <2>1, <2>2, <2>3, <2>4, NoSnapType DEF SnapTypeOK
<1>11. CASE UNCHANGED allVars
  BY <1>0, <1>1, <1>11 DEF allVars, snapVars
<1> QED BY <1>2, <1>3, <1>4, <1>5, <1>6, <1>7, <1>8, <1>9, <1>10, <1>11 DEF SnapNext

\* Every step keeps a file on disk that accounts for what was deleted of the log.
LEMMA FilesStep ==
    ASSUME SnapTypeOK, FilesInv, [SnapNext]_allVars
    PROVE  FilesInv'
<1> USE DEF FilesInv, TruncatedIsCovered
<1>0. /\ \A f \in files : f.lsn \in Nat /\ f \in [lsn : Nat, reserved : Nat,
                                 jobs : [Jobs -> JobRec], readable : BOOLEAN]
      /\ snap \in [stage : {"none", "marshal", "truncate", "prune"}, lsn : Nat,
                   reserved : Nat, jobs : [Jobs -> JobRec]]
      /\ snap.lsn \in Nat /\ truncated \in Nat /\ stable \in Nat
  BY DEF SnapTypeOK, TypeOK
<1>1. PICK b \in Nat : \A f \in files : f.lsn <= b
  OBVIOUS
<1>2. ASSUME files' = files, truncated' = truncated,
             snap'.stage = "truncate" => snap.stage = "truncate" /\ snap'.lsn = snap.lsn
      PROVE  FilesInv'
  BY <1>2
<1>3. CASE Live /\ UNCHANGED snapVars
  BY <1>2, <1>3 DEF snapVars
<1>4. CASE SnapshotBegin
  BY <1>2, <1>4 DEF SnapshotBegin
<1>5. ASSUME NEW j \in Jobs, NEW f \in Fields, SnapshotMarshal(j, f) PROVE FilesInv'
  <2>1. snap'.stage = snap.stage /\ snap'.lsn = snap.lsn
    BY <1>0, <1>5 DEF SnapshotMarshal
  <2> QED BY <1>2, <1>5, <2>1 DEF SnapshotMarshal
<1>6. CASE SnapshotPublish
  <2> DEFINE new == [lsn |-> snap.lsn, reserved |-> snap.reserved, jobs |-> snap.jobs,
                     readable |-> TRUE]
  <2>1. files' = {f \in files : f.lsn # snap.lsn} \cup {new} /\ truncated' = truncated
        /\ snap'.lsn = snap.lsn
    BY <1>0, <1>6 DEF SnapshotPublish
  <2>2. new.lsn = snap.lsn
    OBVIOUS
  <2> HIDE DEF new
  <2>3. \A f \in files : \E g \in files' : g.lsn = f.lsn
    BY <2>1, <2>2
  <2>4. \A f \in files' : f.lsn <= b + snap.lsn
    BY <1>0, <1>1, <2>1, <2>2
  <2>5. b + snap.lsn \in Nat
    BY <1>0, <1>1
  <2> QED BY <2>1, <2>2, <2>3, <2>4, <2>5
<1>7. CASE SnapshotTruncate
  <2>1. PICK t \in truncated..stable : (t = truncated \/ t <= snap.lsn) /\ truncated' = t
    BY <1>7 DEF SnapshotTruncate
  <2>2. PICK f \in files : f.lsn = snap.lsn
    BY <1>7 DEF SnapshotTruncate
  <2>3. files' = files /\ snap'.stage = "prune"
    BY <1>0, <1>7 DEF SnapshotTruncate
  <2>4. truncated' = truncated \/ f.lsn >= truncated'
    BY <1>0, <2>1, <2>2
  <2> QED BY <2>2, <2>3, <2>4
<1>8. CASE SnapshotPrune
  <2>1. /\ files' = {f \in files : Cardinality({g \in files : g.lsn > f.lsn}) < SnapshotsKept}
        /\ truncated' = truncated /\ snap' = NoSnap
    BY <1>8 DEF SnapshotPrune
  <2>2. files' \subseteq files
    BY <2>1
  <2>3. ASSUME truncated > 0 PROVE \E f \in files' : f.lsn >= truncated
    <3>1. PICK f \in files : f.lsn >= truncated
      BY <2>3
    <3>2. PICK top \in files : \A g \in files : g.lsn <= top.lsn
      BY <1>0, <1>1, <3>1, NewestFile
    <3>3. {g \in files : g.lsn > top.lsn} = {}
      BY <1>0, <3>2
    <3>4. Cardinality({g \in files : g.lsn > top.lsn}) < SnapshotsKept
      BY <3>3, FS_EmptySet, SnapshotsKeptAssumption
    <3>5. top \in files'
      BY <2>1, <3>2, <3>4
    <3>6. top.lsn >= truncated
      BY <1>0, <3>1, <3>2
    <3> QED BY <3>5, <3>6
  <2> QED BY <1>1, <2>1, <2>2, <2>3, NoSnapType
<1>9. CASE SnapshotFails
  BY <1>2, <1>9, NoSnapType DEF SnapshotFails
<1>10. ASSUME NEW f \in files, SnapshotSpoils(f) PROVE FilesInv'
  <2> DEFINE bad == [f EXCEPT !.readable = FALSE]
  <2>1. files' = (files \ {f}) \cup {bad} /\ truncated' = truncated /\ snap' = snap
    BY <1>10 DEF SnapshotSpoils
  <2>2. bad.lsn = f.lsn
    BY <1>0
  <2> HIDE DEF bad
  <2>3. /\ \A g \in files : \E h \in files' : h.lsn = g.lsn
        /\ \A g \in files' : g.lsn <= b
    BY <1>1, <2>1, <2>2
  <2> QED BY <2>1, <2>3
<1>11. ASSUME NEW n \in 0..MaxLog, CrashWithSnapshots(n) PROVE FilesInv'
  BY <1>2, <1>11, NoSnapType DEF CrashWithSnapshots
<1>12. CASE UNCHANGED allVars
  BY <1>2, <1>12 DEF allVars, snapVars
<1> QED BY <1>3, <1>4, <1>5, <1>6, <1>7, <1>8, <1>9, <1>10, <1>11, <1>12 DEF SnapNext

-----------------------------------------------------------------------------
(* The running store covers its log *)

\* Applying one record to both keeps the one from falling behind the other.
LEMMA ApplyBoth ==
    ASSUME NEW m \in Mem, NEW i \in Mem, NEW e \in Events
    PROVE  /\ Kept(m, i) => Kept(Apply(m, e), Apply(i, e))
           /\ Known(m, i) => Known(Apply(m, e), Apply(i, e))
<1>1. ASSUME NEW j \in Jobs, e.type = "reserve" \/ e.job # j
      PROVE  Apply(m, e).jobs[j] = m.jobs[j] /\ Apply(i, e).jobs[j] = i.jobs[j]
  BY <1>1, ApplyOther
<1>2. ASSUME e.type # "reserve"
      PROVE  /\ Has(Apply(m, e), e.job) /\ Has(Apply(i, e), e.job)
             /\ Apply(m, e).jobs[e.job].state = Apply(i, e).jobs[e.job].state
  <2>1. e.job \in Jobs
    BY <1>2, ApplyState
  <2> QED BY <1>2, ApplyState DEF Has
<1> QED BY <1>1, <1>2 DEF Kept, Known, Has, IsDone

\* Applying a record about a job that is not done loses nothing.
LEMMA ApplyKeeps ==
    ASSUME NEW m \in Mem, NEW i, NEW e \in Events, Kept(m, i),
           e.type = "reserve" \/ ~IsDone(m, e.job)
    PROVE  Kept(Apply(m, e), i)
<1>1. \A j \in Jobs : Has(i, j) => Has(Apply(m, e), j)
  BY ApplyHas DEF Kept
<1>2. ASSUME NEW j \in Jobs, IsDone(i, j) PROVE IsDone(Apply(m, e), j)
  <2>1. IsDone(m, j)
    BY <1>2 DEF Kept
  <2>2. e.type = "reserve" \/ e.job # j
    BY <2>1
  <2> QED BY <2>1, <2>2, ApplyOther DEF IsDone
<1> QED BY <1>1, <1>2 DEF Kept

\* Kept is reflexive and transitive.
LEMMA KeptOrder ==
    /\ \A m : Kept(m, m)
    /\ \A m, i, k : Kept(m, i) /\ Kept(i, k) => Kept(m, k)
BY DEF Kept

\* An append of a record about a job that is there and not done extends the log
\* as the invariant wants it.
LEMMA AppendLog ==
    ASSUME TypeOK, LogInv, NEW e \in Events, AppendRecord(e),
           e.type \in {"submit", "reserve"} \/ Has(image[Len(log)], e.job),
           e.type = "reserve" \/ ~IsDone(image[Len(log)], e.job)
    PROVE  LogInv'
<1>1. /\ Len(log) \in Nat /\ Len(log') = Len(log) + 1
      /\ \A n \in 0..Len(log) : image'[n] = image[n] /\ image[n] \in Mem
      /\ image'[Len(log) + 1] = Apply(image[Len(log)], e)
  BY AppendImage
<1>2. log'[Len(log) + 1] = e /\ \A n \in 1..Len(log) : log'[n] = log[n]
  BY <1>1 DEF TypeOK, AppendRecord
<1>3. LogReplays'
  BY AppendReplays DEF LogInv
<1>4. ASSUME NEW n \in 0..Len(log'), NEW k \in 0..Len(log'), k <= n
      PROVE  Kept(image'[n], image'[k])
  <2>1. CASE n <= Len(log)
    <3>1. n \in 0..Len(log) /\ k \in 0..Len(log)
      BY <1>1, <1>4, <2>1
    <3> QED BY <1>1, <1>4, <3>1 DEF LogInv
  <2>2. CASE n = Len(log) + 1 /\ k <= Len(log)
    <3>1. k \in 0..Len(log) /\ Len(log) \in 0..Len(log)
      BY <1>1, <2>2
    <3>2. Kept(image[Len(log)], image[k])
      BY <1>1, <2>2, <3>1 DEF LogInv
    <3> QED BY <1>1, <2>2, <3>1, <3>2, ApplyKeeps
  <2>3. CASE n = Len(log) + 1 /\ k = Len(log) + 1
    BY <2>3, KeptOrder
  <2> QED BY <1>1, <1>4, <2>1, <2>2, <2>3
<1>5. ASSUME NEW n \in 1..Len(log')
      PROVE  log'[n].type \in {"submit", "reserve"} \/ Has(image'[n - 1], log'[n].job)
  <2>1. CASE n <= Len(log)
    <3>1. n \in 1..Len(log) /\ n - 1 \in 0..Len(log)
      BY <1>1, <2>1
    <3> QED BY <1>1, <1>2, <3>1 DEF LogInv
  <2>2. CASE n = Len(log) + 1
    <3>1. n - 1 = Len(log) /\ Len(log) \in 0..Len(log)
      BY <1>1, <2>2
    <3> QED BY <1>1, <1>2, <2>2, <3>1
  <2> QED BY <1>1, <2>1, <2>2
<1> QED BY <1>3, <1>4, <1>5 DEF LogInv

\* What the guards of an operation say of the job its record is about.
LEMMA LegalJob ==
    ASSUME TypeOK, UsedInv, NEW e, Legal(e)
    PROVE  /\ e \in Events /\ e.type # "reserve" /\ e.job \in Jobs
           /\ e.type = "submit" \/ Has(mem, e.job)
           /\ ~IsDone(mem, e.job)
<1>1. e \in Events /\ e.type # "reserve" /\ e.job \in Jobs
  BY LegalType
<1>2. e.type = "submit" => ~Has(mem, e.job)
  BY <1>1 DEF UsedInv, Legal, SubmitEvents, LeaseEvents, AckEvents, FailEvents, ReplayEvents
<1>3. e.type # "submit" => mem.jobs[e.job].state \in {"Pending", "RetryWait", "Leased", "DeadLetter"}
  BY DEF Legal, Leasable, SubmitEvents
<1> QED BY <1>1, <1>2, <1>3 DEF Has, IsDone

\* What the origins need of the log: it is as it was up to their LSNs.
LEMMA SameOrigins ==
    ASSUME SnapTypeOK, CoverInv, UNCHANGED <<files, snap>>,
           Len(log') \in Nat, Len(log) <= Len(log'),
           \A n \in 0..Len(log) : image'[n] = image[n]
    PROVE  \A f \in Origins' : /\ f.lsn <= Len(log')
                               /\ Kept(f, image'[f.lsn])
                               /\ Known(f, image'[f.lsn])
<1>1. Origins' = Origins
  BY DEF Origins
<1>2. Len(log) \in Nat
  BY DEF SnapTypeOK, TypeOK
<1>3. ASSUME NEW f \in Origins
      PROVE  f.lsn <= Len(log') /\ Kept(f, image'[f.lsn]) /\ Known(f, image'[f.lsn])
  <2>1. f.lsn \in 0..Len(log)
    BY <1>2, OriginType DEF CoverInv
  <2> QED BY <1>2, <2>1 DEF CoverInv
<1> QED BY <1>1, <1>3

\* A running broker keeps the store and every snapshot from falling behind the
\* log.
LEMMA LiveCovers ==
    ASSUME SnapTypeOK, LockInv, UsedInv, LogInv, CoverInv, Live, UNCHANGED snapVars
    PROVE  LogInv' /\ CoverInv'
<1>0. /\ TypeOK /\ mem \in Mem /\ Len(log) \in Nat /\ lastLSN \in Nat /\ lastLSN <= Len(log)
      /\ Len(log) \in 0..Len(log) /\ Len(log) \in lastLSN..Len(log)
      /\ image[Len(log)] \in Mem
      /\ UNCHANGED <<files, snap>>
  BY DEF SnapTypeOK, TypeOK, CoverInv, snapVars
<1>1. Moves
  BY <1>0, LiveMoves
<1>2. Kept(mem, image[Len(log)]) /\ Known(mem, image[Len(log)])
  BY <1>0 DEF CoverInv
<1>3. ASSUME NEW e \in Events, AppendRecord(e)
      PROVE  /\ Len(log') = Len(log) + 1
             /\ \A n \in 0..Len(log) : image'[n] = image[n] /\ image[n] \in Mem
             /\ image'[Len(log) + 1] = Apply(image[Len(log)], e)
             /\ \A f \in Origins' : /\ f.lsn <= Len(log')
                                    /\ Kept(f, image'[f.lsn])
                                    /\ Known(f, image'[f.lsn])
  <2>1. /\ Len(log') = Len(log) + 1
        /\ \A n \in 0..Len(log) : image'[n] = image[n] /\ image[n] \in Mem
        /\ image'[Len(log) + 1] = Apply(image[Len(log)], e)
    BY <1>0, <1>3, AppendImage
  <2> QED BY <1>0, <2>1, SameOrigins
<1>4. ASSUME NEW e, Recorded(e) PROVE LogInv' /\ CoverInv'
  <2>1. /\ e \in Events /\ e.type # "reserve" /\ e.job \in Jobs
        /\ e.type = "submit" \/ Has(mem, e.job)
        /\ ~IsDone(mem, e.job)
    BY <1>0, <1>4, LegalJob DEF Recorded
  <2>2. AppendRecord(e) /\ mem' = Apply(mem, e) /\ lastLSN' = Len(log) + 1
    BY <1>4 DEF Recorded, RecordLocked
  <2>3. LogInv'
    BY <1>0, <1>2, <2>1, <2>2, AppendLog DEF Kept, Known
  <2>4. Kept(mem', image'[Len(log) + 1]) /\ Known(mem', image'[Len(log) + 1])
    BY <1>0, <1>2, <1>3, <2>1, <2>2, ApplyBoth
  <2>5. \A n \in 0..Len(log) : Kept(mem', image'[n])
    BY <1>0, <1>3, <2>1, <2>2, ApplyKeeps DEF CoverInv
  <2>6. \A n \in 0..Len(log') : Kept(mem', image'[n])
    BY <1>0, <1>3, <2>1, <2>2, <2>4, <2>5
  <2>7. \A n \in lastLSN'..Len(log') : Known(mem', image'[n])
    BY <1>0, <1>3, <2>1, <2>2, <2>4
  <2>8. lastLSN' <= Len(log')
    BY <1>0, <1>3, <2>1, <2>2
  <2> QED BY <1>3, <2>1, <2>2, <2>3, <2>6, <2>7, <2>8 DEF CoverInv
<1>5. CASE ReservationWritten
  <2> DEFINE e == ReserveEvent
  <2>1. e \in Events /\ e.type = "reserve" /\ AppendRecord(e) /\ mem' = mem
    BY <1>0, <1>5, ReserveEventType DEF ReservationWritten
  <2> HIDE DEF e
  <2>2. LogInv'
    BY <1>0, <2>1, AppendLog
  <2>3. \A j \in Jobs : Apply(image[Len(log)], e).jobs[j] = image[Len(log)].jobs[j]
    BY <1>0, <2>1, ApplyOther
  <2>4. Kept(mem, image'[Len(log) + 1]) /\ Known(mem, image'[Len(log) + 1])
    BY <1>2, <1>3, <2>1, <2>3 DEF Kept, Known, Has, IsDone
  <2>5. \A n \in 0..Len(log') : Kept(mem', image'[n])
    BY <1>0, <1>3, <2>1, <2>4 DEF CoverInv
  <2>6. lastLSN' \in lastLSN..Len(log')
    BY <1>0, <1>1, <1>3, <2>1 DEF Moves
  <2>7. \A n \in lastLSN'..Len(log') : Known(mem', image'[n])
    <3> SUFFICES ASSUME NEW n \in lastLSN'..Len(log') PROVE Known(mem, image'[n])
      BY <2>1
    <3>1. n \in lastLSN..Len(log) \/ n = Len(log) + 1
      BY <1>0, <1>3, <2>1, <2>6
    <3>2. ASSUME n \in lastLSN..Len(log) PROVE image'[n] = image[n]
      BY <1>0, <1>3, <2>1, <3>2
    <3> QED BY <2>4, <3>1, <3>2 DEF CoverInv
  <2>8. lastLSN' <= Len(log')
    BY <1>0, <1>3, <2>1, <2>6
  <2> QED BY <1>3, <2>1, <2>2, <2>5, <2>7, <2>8 DEF CoverInv
<1>6. ASSUME mem'.jobs = mem.jobs, UNCHANGED <<log, image>>, lastLSN' \in lastLSN..Len(log)
      PROVE  LogInv' /\ CoverInv'
  <2>1. LogInv'
    BY <1>6 DEF LogInv, LogReplays
  <2>2. \A f \in Origins' : /\ f.lsn <= Len(log')
                            /\ Kept(f, image'[f.lsn])
                            /\ Known(f, image'[f.lsn])
    BY <1>0, <1>6, SameOrigins
  <2>3. /\ \A n \in 0..Len(log) : Kept(mem', image[n])
        /\ \A n \in lastLSN..Len(log) : Known(mem', image[n])
    BY <1>6 DEF CoverInv, Kept, Known, Has, IsDone
  <2>4. /\ \A n \in 0..Len(log) : Kept(mem', image'[n])
        /\ \A n \in lastLSN'..Len(log) : Known(mem', image'[n])
        /\ lastLSN' <= Len(log)
    BY <1>0, <1>6, <2>3
  <2> QED BY <1>6, <2>1, <2>2, <2>4 DEF CoverInv
<1>7. CASE EpochsReserved
  <2>1. lastLSN' = Len(log) /\ UNCHANGED <<log, image>>
    BY <1>7 DEF EpochsReserved, diskVars
  <2> QED BY <1>0, <1>6, <1>7, <2>1, ReservedJobs
<1>8. CASE Quiet
  <2>1. UNCHANGED <<mem, log, image>>
    BY <1>8 DEF Quiet
  <2>2. lastLSN' \in lastLSN..Len(log)
    BY <1>0, <1>1, <2>1 DEF Moves
  <2> QED BY <1>6, <2>1, <2>2
<1>9. ASSUME NEW n \in 0..MaxLog, Crash(n) PROVE FALSE
  BY <1>0, <1>1, <1>9 DEF Moves, Crash, TypeOK
<1>10. Next
  BY DEF Next
<1> QED BY <1>0, <1>4, <1>5, <1>7, <1>8, <1>9, <1>10, StepKinds

-----------------------------------------------------------------------------
(* Recovery from a snapshot and the rest of the log *)

\* Replaying what follows a snapshot brings it to where the whole log leads: no
\* record is refused, nothing is missing, and the token ceiling is that of the
\* log, or that of the snapshot if no reservation follows it.
LEMMA ReplayCovers ==
    ASSUME TypeOK, LogInv, NEW f, Loaded(f) \in Mem, f.lsn \in Nat,
           NEW n \in 0..Len(log), f.lsn <= n,
           Kept(f, image[f.lsn]), Known(f, image[f.lsn])
    PROVE  LET r == Replayed(f, f.lsn, n)
           IN  /\ r.ok = TRUE
               /\ r.mem \in Mem
               /\ Kept(r.mem, image[n])
               /\ Known(r.mem, image[n])
               /\ \/ r.mem.reserved = image[n].reserved
                  \/ NoReservation(f.lsn, n) /\ r.mem.reserved = f.reserved
<1> DEFINE lo == f.lsn
<1>0. /\ n \in Nat /\ Len(log) \in Nat /\ lo \in Nat
      /\ \A i \in 1..Len(log) : log[i] \in Events
      /\ \A i \in 0..Len(log) : image[i] \in Mem
  <2>1. log \in Seq(Events) /\ image \in [0..Len(log) -> Mem]
    BY DEF TypeOK
  <2> QED BY <2>1
<1>1. PICK r : r[n] = Replayed(f, lo, n) /\ IsRun(r, f, lo, n)
  BY <1>0, ReplayRun
<1> DEFINE P(i) == /\ r[i].ok = TRUE
                   /\ r[i].mem \in Mem
                   /\ Kept(r[i].mem, image[i])
                   /\ Known(r[i].mem, image[i])
                   /\ \/ r[i].mem.reserved = image[i].reserved
                      \/ NoReservation(lo, i) /\ r[i].mem.reserved = f.reserved
           S == {i \in Nat : lo <= i /\ i <= n => P(i)}
<1>2. lo <= n => P(lo)
  <2>0. lo \in 0..n /\ lo <= lo
    BY <1>0
  <2>1. r[lo] = [ok |-> TRUE, mem |-> Loaded(f)]
    <3> HIDE DEF lo
    <3> QED BY <1>1, <2>0 DEF IsRun
  <2>2. Loaded(f).jobs = f.jobs /\ Loaded(f).reserved = f.reserved
    BY DEF Loaded
  <2>3. Kept(Loaded(f), image[lo]) /\ Known(Loaded(f), image[lo])
    BY <2>2 DEF Kept, Known, Has, IsDone
  <2>4. NoReservation(lo, lo)
    BY <1>0 DEF NoReservation
  <2>5. r[lo].ok = TRUE /\ r[lo].mem = Loaded(f)
    BY <2>1
  <2> QED BY <2>2, <2>3, <2>4, <2>5
<1>3. 0 \in S
  <2>1. lo <= 0 => lo = 0
    BY <1>0
  <2> HIDE DEF P, lo
  <2> QED BY <1>2, <2>1
<1>4. ASSUME NEW i \in Nat, i \in S PROVE i + 1 \in S
  <2>1. SUFFICES ASSUME lo <= i + 1, i + 1 <= n PROVE P(i + 1)
    <3> HIDE DEF P, lo
    <3> QED OBVIOUS
  <2>2. CASE i + 1 <= lo
    <3>1. i + 1 = lo
      BY <1>0, <2>1, <2>2
    <3> HIDE DEF P, lo
    <3> QED BY <1>2, <2>1, <3>1
  <2>3. CASE ~(i + 1 <= lo)
    <3>1. /\ P(i)
          /\ i + 1 \in 0..n /\ i + 1 \in 1..Len(log) /\ (i + 1) - 1 = i /\ i \in 0..Len(log)
      BY <1>0, <1>4, <2>1, <2>3
    <3> DEFINE e == log[i + 1]
               m == r[i].mem
    <3>2. e \in Events /\ m \in Mem /\ image[i] \in Mem /\ r[i].ok = TRUE
      BY <1>0, <3>1
    <3>3. r[i + 1] = ApplyChecked(r[i], e)
      BY <1>1, <2>3, <3>1 DEF IsRun
    <3>4. image[i + 1] = Apply(image[i], e)
      BY <3>1 DEF LogInv, LogReplays
    <3>5. e.type \in {"submit", "reserve"} \/ Has(image[i], e.job)
      BY <3>1 DEF LogInv
    <3>6. e.type \in {"submit", "reserve"} \/ m.jobs[e.job].state # "Absent"
      <4>1. e.type # "reserve" => e.job \in Jobs
        BY <3>2, ApplyState
      <4>2. Kept(m, image[i])
        BY <3>1
      <4> QED BY <3>5, <4>1, <4>2 DEF Kept, Has
    <3>7. r[i + 1] = [ok |-> TRUE, mem |-> Apply(m, e)]
      BY <3>2, <3>3, <3>6 DEF ApplyChecked
    <3>8. r[i + 1].ok = TRUE /\ r[i + 1].mem = Apply(m, e) /\ Apply(m, e) \in Mem
      BY <3>2, <3>7, ApplyType
    <3>9. Kept(Apply(m, e), image[i + 1]) /\ Known(Apply(m, e), image[i + 1])
      <4>1. Kept(m, image[i]) /\ Known(m, image[i])
        BY <3>1
      <4> HIDE DEF m, e
      <4> QED BY <3>2, <3>4, <4>1, ApplyBoth
    <3>10. \/ Apply(m, e).reserved = image[i + 1].reserved
           \/ NoReservation(lo, i + 1) /\ Apply(m, e).reserved = f.reserved
      <4>1. /\ Apply(m, e).reserved = (IF e.type = "reserve" THEN e.upTo ELSE m.reserved)
            /\ image[i + 1].reserved = (IF e.type = "reserve" THEN e.upTo ELSE image[i].reserved)
        BY <3>2, <3>4, ApplyReserved
      <4>2. \/ m.reserved = image[i].reserved
            \/ NoReservation(lo, i) /\ m.reserved = f.reserved
        BY <3>1
      <4>3. ASSUME NoReservation(lo, i), e.type # "reserve" PROVE NoReservation(lo, i + 1)
        BY <1>0, <4>3 DEF NoReservation
      <4> QED BY <4>1, <4>2, <4>3
    <3> QED BY <3>8, <3>9, <3>10
  <2> QED BY <2>2, <2>3
<1>5. \A i \in Nat : i \in S
  <2> HIDE DEF S
  <2> QED BY <1>3, <1>4, AllNumbers
<1>6. P(n)
  <2> HIDE DEF P
  <2> QED BY <1>0, <1>5
<1> QED BY <1>1, <1>6

\* As long as snapshot and log meet, recovery opens the store on a memory that
\* has lost nothing of the log that is left.
LEMMA RecoveredMemory ==
    ASSUME SnapTypeOK, FilesInv, LogInv, CoverInv,
           NEW n \in 0..MaxLog, CrashWithSnapshots(n), Intact'
    PROVE  /\ ~down' /\ lastLSN' = n
           /\ \A g \in files : g.readable => g.lsn <= n
           /\ \E m \in Mem :
                /\ Open(m)
                /\ Kept(m, image[n]) /\ Known(m, image[n])
                /\ \/ m.reserved = image[n].reserved
                   \/ \E o \in Origins : /\ o.lsn <= n /\ NoReservation(o.lsn, n)
                                         /\ m.reserved = o.reserved
<1> DEFINE f == LoadLatest
           r == ReplayFrom(f, n)
<1>0. TypeOK /\ truncated \in Nat
  BY DEF SnapTypeOK, TypeOK
<1>1. LogCut(n) /\ n \in Nat /\ n \in 0..Len(log)
  BY <1>0, CutFacts DEF CrashWithSnapshots
<1>2. PICK o \in Origins : f.lsn = o.lsn /\ f.reserved = o.reserved /\ f.jobs = o.jobs
  BY LatestIsOrigin
<1>3. f.lsn \in Nat /\ f.reserved \in Nat /\ f.jobs \in [Jobs -> JobRec]
  BY <1>2, OriginType
<1>4. ~(f.lsn > n) /\ ~(f.lsn < truncated)
  BY DEF CrashWithSnapshots, Intact
<1>5. f.lsn <= n /\ ReplayStart(f) = f.lsn
  BY <1>0, <1>1, <1>3, <1>4 DEF ReplayStart
<1>6. Kept(f, image[f.lsn]) /\ Known(f, image[f.lsn])
  BY <1>2 DEF CoverInv, Kept, Known, Has, IsDone
<1>7. Open(r.mem) /\ lastLSN' = (IF n > f.lsn THEN n ELSE f.lsn) /\ down' = ~r.ok
  BY DEF CrashWithSnapshots
<1>8. r = Replayed(f, f.lsn, n)
  BY <1>5 DEF ReplayFrom
<1>9. \A g \in files : g.readable => g.lsn <= f.lsn
  BY LatestIsOrigin
<1>10. Loaded(f) \in Mem
  BY <1>3, LoadedType
<1> HIDE DEF f, r
<1>11. /\ r.ok = TRUE /\ r.mem \in Mem /\ Kept(r.mem, image[n]) /\ Known(r.mem, image[n])
       /\ \/ r.mem.reserved = image[n].reserved
          \/ NoReservation(f.lsn, n) /\ r.mem.reserved = f.reserved
  BY <1>0, <1>1, <1>3, <1>5, <1>6, <1>8, <1>10, ReplayCovers
<1>12. ~down' /\ lastLSN' = n
  <2>1. ~down'
    BY <1>7, <1>11
  <2>2. lastLSN' = n
    BY <1>1, <1>3, <1>5, <1>7
  <2> QED BY <2>1, <2>2
<1>13. \A g \in files : g.readable => g.lsn <= n
  <2>1. \A g \in files : g.lsn \in Nat
    BY DEF SnapTypeOK
  <2> QED BY <1>1, <1>3, <1>5, <1>9, <2>1
<1>14. \/ r.mem.reserved = image[n].reserved
       \/ \E q \in Origins : /\ q.lsn <= n /\ NoReservation(q.lsn, n)
                             /\ r.mem.reserved = q.reserved
  BY <1>2, <1>5, <1>11
<1> QED BY <1>7, <1>11, <1>12, <1>13, <1>14

\* Releasing leases takes no job back and completes none.
LEMMA OpenStates ==
    ASSUME NEW m \in Mem, Open(m)
    PROVE  /\ mem' = RecoverLeased(m) /\ mem'.leased = {} /\ mem'.reserved = m.reserved
           /\ \A j \in Jobs : /\ Has(mem', j) <=> Has(m, j)
                              /\ IsDone(mem', j) <=> IsDone(m, j)
                              /\ mem'.jobs[j].state # "Leased"
<1>1. /\ mem' = RecoverLeased(m) /\ mem'.leased = {} /\ mem'.reserved = m.reserved
      /\ mem'.jobs = [j \in Jobs |-> Released(m.jobs[j])]
  BY DEF Open, RecoverLeased, Mem
<1>2. \A j \in Jobs : m.jobs[j] \in JobRec
  BY DEF Mem
<1> QED BY <1>1, <1>2, ReleasedState DEF Has, IsDone

\* After a recovery whose snapshot and log met, the store is up and covers the
\* log that is left.
LEMMA RecoveryCovers ==
    ASSUME SnapTypeOK, FilesInv, UsedInv, LogInv, CoverInv,
           NEW n \in 0..MaxLog, CrashWithSnapshots(n), Intact'
    PROVE  ~down' /\ LockInv' /\ LeasedSetExact' /\ UsedInv' /\ LogInv' /\ CoverInv'
<1>0. TypeOK
  BY DEF SnapTypeOK
<1>1. /\ ~down' /\ lastLSN' = n
      /\ \A g \in files : g.readable => g.lsn <= n
  BY RecoveredMemory
<1>2. PICK m \in Mem : Open(m) /\ Kept(m, image[n]) /\ Known(m, image[n])
  BY RecoveredMemory
<1>3. /\ mem'.leased = {}
      /\ \A j \in Jobs : /\ Has(mem', j) <=> Has(m, j)
                         /\ IsDone(mem', j) <=> IsDone(m, j)
                         /\ mem'.jobs[j].state # "Leased"
  BY <1>2, OpenStates
<1>4. LogCut(n) /\ used' = used /\ files' = files /\ snap' = NoSnap
  BY DEF CrashWithSnapshots, histVars
<1>5. /\ n \in Nat /\ n \in 0..Len(log) /\ Len(log) \in Nat /\ Len(log') = n
      /\ \A i \in 0..n : image'[i] = image[i]
      /\ \A i \in 1..n : log'[i] = log[i]
      /\ \A i \in 0..n : i \in 0..Len(log)
      /\ \A i \in 1..n : i \in 1..Len(log) /\ i \in 0..n /\ i - 1 \in 0..n
  BY <1>0, <1>4, CutFacts
<1>6. LockInv'
  BY <1>2 DEF Open, LockInv
<1>7. LeasedSetExact'
  BY <1>3 DEF LeasedSetExact
<1>8. UsedInv'
  <2>1. \A j \in Jobs : Has(mem', j) => j \in used
    BY <1>2, <1>3, <1>5 DEF Known, UsedInv
  <2>2. \A j \in Jobs, i \in 0..n : Has(image'[i], j) => j \in used
    BY <1>5 DEF UsedInv
  <2> QED BY <1>4, <1>5, <2>1, <2>2 DEF UsedInv
<1>9. LogInv'
  <2>1. LogReplays'
    <3>1. image'[0] = EmptyMem
      BY <1>5 DEF LogInv, LogReplays
    <3>2. \A i \in 1..n : image'[i] = Apply(image'[i - 1], log'[i])
      BY <1>5 DEF LogInv, LogReplays
    <3> QED BY <1>5, <3>1, <3>2 DEF LogReplays
  <2>2. \A i \in 0..n, k \in 0..n : k <= i => Kept(image'[i], image'[k])
    BY <1>5 DEF LogInv
  <2>3. \A i \in 1..n : \/ log'[i].type \in {"submit", "reserve"}
                        \/ Has(image'[i - 1], log'[i].job)
    BY <1>5 DEF LogInv
  <2> QED BY <1>5, <2>1, <2>2, <2>3 DEF LogInv
<1>10. CoverInv'
  <2>1. Kept(mem', image[n]) /\ Known(mem', image[n])
    BY <1>2, <1>3 DEF Kept, Known
  <2>2. ASSUME NEW i \in 0..n PROVE Kept(mem', image'[i])
    <3>1. Kept(image[n], image[i])
      BY <1>5 DEF LogInv
    <3> QED BY <1>5, <2>1, <3>1, KeptOrder
  <2>3. \A i \in n..n : Known(mem', image'[i])
    <3>1. \A i \in n..n : i = n /\ i \in 0..n
      BY <1>5
    <3> QED BY <1>5, <2>1, <3>1
  <2>4. ASSUME NEW f \in Origins'
        PROVE  f.lsn <= n /\ Kept(f, image'[f.lsn]) /\ Known(f, image'[f.lsn])
    <3>1. f \in Origins /\ f.lsn <= n
      BY <1>1, <1>4, <1>5, NoSnapType DEF Origins
    <3>2. f.lsn \in 0..n
      BY <1>5, <3>1, OriginType
    <3> QED BY <1>5, <3>1, <3>2 DEF CoverInv
  <2> QED BY <1>1, <1>5, <2>2, <2>3, <2>4 DEF CoverInv
<1> QED BY <1>1, <1>6, <1>7, <1>8, <1>9, <1>10

-----------------------------------------------------------------------------
(* The Snapshot call *)

\* Origin o is origin q, except for jobs marshalled since.
SameOrigin(o, q) ==
    /\ o.lsn = q.lsn
    /\ o.reserved = q.reserved
    /\ \A j \in Jobs : \/ o.jobs[j].state = q.jobs[j].state
                       \/ Has(q, j) /\ o.jobs[j].state = mem.jobs[j].state

\* Origin o was taken from the store just now.
TakenNow(o) ==
    /\ MuFree
    /\ o.lsn = lastLSN
    /\ o.reserved = mem.reserved
    /\ o.jobs = mem.jobs

\* A step of Snapshot touches neither store nor log; of what recovery may start
\* from it adds what it takes from the store under the lock and what it marshals.
SnapshotStep ==
    /\ UNCHANGED <<vars, down, ahead, gap>>
    /\ \A o \in Origins' : TakenNow(o) \/ \E q \in Origins : SameOrigin(o, q)

\* Every step is one of the store, one of Snapshot, or a crash with recovery.
LEMMA SnapshotKinds ==
    ASSUME SnapTypeOK, [SnapNext]_allVars
    PROVE  \/ ~down /\ Live /\ UNCHANGED snapVars
           \/ SnapshotStep
           \/ \E n \in 0..MaxLog : CrashWithSnapshots(n)
<1>0. /\ snap \in Origins /\ NoSnap \in Origins
      /\ \A q \in Origins : SameOrigin(q, q)
  BY DEF Origins, SameOrigin
<1>1. ASSUME UNCHANGED <<vars, down, ahead, gap>>, \E q \in Origins : SameOrigin(snap', q),
             \A f \in files' : f.readable => f \in files
      PROVE  SnapshotStep
  BY <1>0, <1>1 DEF SnapshotStep, Origins
<1>2. /\ snap \in [stage : {"none", "marshal", "truncate", "prune"}, lsn : Nat,
                   reserved : Nat, jobs : [Jobs -> JobRec]]
      /\ files \in SUBSET [lsn : Nat, reserved : Nat, jobs : [Jobs -> JobRec],
                           readable : BOOLEAN]
  BY DEF SnapTypeOK
<1>3. CASE SnapshotBegin
  <2>1. snap' = [stage |-> "marshal", lsn |-> lastLSN, reserved |-> mem.reserved,
                 jobs |-> mem.jobs] /\ MuFree /\ UNCHANGED <<vars, files, down, ahead, gap>>
    BY <1>3 DEF SnapshotBegin
  <2>2. TakenNow(snap')
    BY <2>1 DEF TakenNow
  <2> QED BY <1>0, <2>1, <2>2 DEF SnapshotStep, Origins
<1>4. ASSUME NEW j \in Jobs, NEW f \in Fields, SnapshotMarshal(j, f) PROVE SnapshotStep
  <2>1. /\ snap' = [snap EXCEPT !.jobs = [snap.jobs EXCEPT ![j] =
                       [snap.jobs[j] EXCEPT ![f] = mem.jobs[j][f]]]]
        /\ Has(snap, j) /\ UNCHANGED <<vars, files, down, ahead, gap>>
    BY <1>4 DEF SnapshotMarshal, Has
  <2>2. snap'.lsn = snap.lsn /\ snap'.reserved = snap.reserved
    BY <1>2, <2>1
  <2>3. \A i \in Jobs : i # j => snap'.jobs[i] = snap.jobs[i]
    BY <1>2, <2>1
  <2>4. snap'.jobs[j] = [snap.jobs[j] EXCEPT ![f] = mem.jobs[j][f]]
    BY <1>2, <2>1
  <2>5. snap.jobs[j] \in JobRec
    BY <1>2
  <2>6. snap'.jobs[j].state \in {snap.jobs[j].state, mem.jobs[j].state}
    <3>1. CASE f = "state"
      BY <2>4, <2>5, <3>1 DEF JobRec
    <3>2. CASE f # "state"
      BY <2>4, <2>5, <3>2 DEF JobRec
    <3> QED BY <3>1, <3>2
  <2>7. SameOrigin(snap', snap)
    BY <2>1, <2>2, <2>3, <2>6 DEF SameOrigin
  <2> QED BY <1>0, <1>1, <2>1, <2>7
<1>5. CASE SnapshotPublish
  <2> DEFINE new == [lsn |-> snap.lsn, reserved |-> snap.reserved, jobs |-> snap.jobs,
                     readable |-> TRUE]
  <2>1. /\ files' = {f \in files : f.lsn # snap.lsn} \cup {new}
        /\ snap' = [snap EXCEPT !.stage = "truncate"] /\ UNCHANGED <<vars, down, ahead, gap>>
    BY <1>5 DEF SnapshotPublish
  <2>2. SameOrigin(new, snap) /\ SameOrigin(snap', snap)
    BY <1>2, <2>1 DEF SameOrigin
  <2> HIDE DEF new
  <2> QED BY <1>0, <2>1, <2>2 DEF SnapshotStep, Origins
<1>6. CASE SnapshotTruncate
  <2>1. snap' = [snap EXCEPT !.stage = "prune"] /\ UNCHANGED <<vars, files, down, ahead, gap>>
    BY <1>6 DEF SnapshotTruncate
  <2>2. SameOrigin(snap', snap)
    BY <1>2, <2>1 DEF SameOrigin
  <2> QED BY <1>0, <1>1, <2>1, <2>2
<1>7. CASE SnapshotPrune
  BY <1>0, <1>1, <1>7 DEF SnapshotPrune
<1>8. CASE SnapshotFails
  BY <1>0, <1>1, <1>8 DEF SnapshotFails
<1>9. ASSUME NEW f \in files, SnapshotSpoils(f) PROVE SnapshotStep
  <2>1. ~[f EXCEPT !.readable = FALSE].readable
    BY <1>2
  <2> QED BY <1>0, <1>1, <1>9, <2>1 DEF SnapshotSpoils
<1>10. CASE UNCHANGED allVars
  BY <1>0, <1>1, <1>10 DEF allVars, snapVars
<1> QED BY <1>3, <1>4, <1>5, <1>6, <1>7, <1>8, <1>9, <1>10 DEF SnapNext

\* A step of Snapshot adds only origins that cover the log up to their LSN: what
\* it marshals late is further along, never behind.
LEMMA SnapshotCovers ==
    ASSUME SnapTypeOK, CoverInv, SnapshotStep
    PROVE  CoverInv'
<1>0. Len(log) \in Nat /\ lastLSN \in Nat /\ lastLSN \in lastLSN..Len(log) /\ lastLSN \in 0..Len(log)
  BY DEF SnapTypeOK, TypeOK, CoverInv
<1>1. UNCHANGED <<mem, lastLSN, log, image>>
  BY DEF SnapshotStep, vars, memVars, diskVars
<1>2. ASSUME NEW o, TakenNow(o)
      PROVE  o.lsn <= Len(log) /\ Kept(o, image[o.lsn]) /\ Known(o, image[o.lsn])
  BY <1>0, <1>2 DEF TakenNow, CoverInv, Kept, Known, Has, IsDone
<1>3. ASSUME NEW o, NEW q \in Origins, SameOrigin(o, q)
      PROVE  o.lsn <= Len(log) /\ Kept(o, image[o.lsn]) /\ Known(o, image[o.lsn])
  <2>1. /\ q.lsn \in 0..Len(log) /\ o.lsn = q.lsn
        /\ Kept(q, image[q.lsn]) /\ Known(q, image[q.lsn])
    BY <1>0, <1>3, OriginType DEF CoverInv, SameOrigin
  <2>2. Kept(mem, image[q.lsn])
    BY <2>1 DEF CoverInv
  <2>3. ASSUME NEW j \in Jobs
        PROVE  /\ Has(o, j) <=> Has(q, j)
               /\ IsDone(image[q.lsn], j) => IsDone(o, j)
    BY <1>3, <2>1, <2>2 DEF SameOrigin, Kept, Known, Has, IsDone
  <2>4. Kept(o, image[q.lsn]) /\ Known(o, image[q.lsn])
    BY <2>1, <2>3 DEF Kept, Known
  <2> QED BY <1>0, <2>1, <2>4
<1>4. \A o \in Origins' : o.lsn <= Len(log) /\ Kept(o, image[o.lsn]) /\ Known(o, image[o.lsn])
  BY <1>2, <1>3 DEF SnapshotStep
<1> QED BY <1>1, <1>4 DEF CoverInv

-----------------------------------------------------------------------------
(* What holds on any disk *)

\* The initial state: an empty log and no snapshots.
LEMMA SnapInit0 == SnapInit => SnapInv /\ (Intact => Durable /\ CeilingInv)
<1> SUFFICES ASSUME SnapInit PROVE SnapInv /\ (Intact => Durable /\ CeilingInv)
  OBVIOUS
<1>1. TypeOK /\ Durable
  BY TypeInit, DurableInit DEF SnapInit
<1>2. /\ mem = EmptyMem /\ lastLSN = 0 /\ log = <<>> /\ image = [n \in {0} |-> EmptyMem]
      /\ nextEpoch = 1 /\ reserving = None /\ issued = <<>> /\ stable = 0
      /\ files = {} /\ snap = NoSnap /\ truncated = 0 /\ down = FALSE
      /\ ahead = FALSE /\ gap = FALSE /\ fellBack = FALSE
  BY DEF SnapInit, Init
<1>3. SnapTypeOK
  <2>1. down \in BOOLEAN /\ ahead \in BOOLEAN /\ gap \in BOOLEAN /\ fellBack \in BOOLEAN
    BY <1>2
  <2>2. truncated \in 0..stable
    BY <1>2
  <2> QED BY <1>1, <1>2, <2>1, <2>2, NoSnapType DEF SnapTypeOK
<1>4. FilesInv
  <2>1. snap.stage # "truncate"
    BY <1>2, NoSnapType
  <2>2. 0 \in Nat /\ ~(truncated > 0) /\ \A f \in files : f.lsn <= 0
    BY <1>2
  <2> QED BY <2>1, <2>2 DEF FilesInv, TruncatedIsCovered
<1>5. Len(log) = 0 /\ image[0] = EmptyMem /\ DOMAIN issued = {} /\ EmptyMem.reserved = 0
  BY <1>2 DEF EmptyMem
<1>6. LogInv
  <2>1. LogReplays
    BY <1>5 DEF LogReplays
  <2>2. \A n \in 0..0, k \in 0..0 : n = 0 /\ k = 0
    OBVIOUS
  <2> QED BY <1>5, <2>1, <2>2, KeptOrder DEF LogInv
<1>7. CoverInv
  <2>1. Origins = {NoSnap} /\ NoSnap.lsn = 0 /\ NoSnap.jobs = EmptyMem.jobs
    BY <1>2, NoSnapType DEF Origins
  <2>2. Kept(NoSnap, EmptyMem) /\ Known(NoSnap, EmptyMem) /\ Known(EmptyMem, EmptyMem)
    BY <2>1 DEF Kept, Known, Has, IsDone
  <2>3. \A n \in 0..0 : n = 0
    OBVIOUS
  <2> QED BY <1>2, <1>5, <2>1, <2>2, <2>3, KeptOrder DEF CoverInv
<1>8. CeilingInv
  BY <1>2, <1>5 DEF CeilingInv
<1> QED BY <1>1, <1>2, <1>3, <1>4, <1>6, <1>7, <1>8 DEF SnapInv, Durable

\* Every step keeps the invariant: snapshots and store cover the log as long as
\* every recovery found snapshot and log meeting.
LEMMA SnapInvStep == SnapInv /\ [SnapNext]_allVars => SnapInv'
<1> SUFFICES ASSUME SnapInv, [SnapNext]_allVars PROVE SnapInv'
  OBVIOUS
<1>0. SnapTypeOK /\ FilesInv /\ TypeOK
  BY DEF SnapInv, SnapTypeOK
<1>1. SnapTypeOK' /\ FilesInv'
  BY <1>0, SnapTypeStep, FilesStep
<1>2. SUFFICES ASSUME Intact'
               PROVE  ~down' /\ LockInv' /\ LeasedSetExact' /\ UsedInv' /\ LogInv' /\ CoverInv'
  BY <1>1 DEF SnapInv
<1>3. CASE ~down /\ Live /\ UNCHANGED snapVars
  <2>1. Intact /\ ~down'
    BY <1>2, <1>3 DEF Intact, snapVars
  <2>2. LockInv /\ LeasedSetExact /\ UsedInv /\ LogInv /\ CoverInv
    BY <2>1 DEF SnapInv
  <2>3. Next
    BY <1>3 DEF Next
  <2>4. LockInv' /\ LeasedSetExact' /\ UsedInv'
    BY <1>0, <2>2, <2>3, LockStep, LeasedStep, UsedStep
  <2>5. LogInv' /\ CoverInv'
    BY <1>0, <1>3, <2>2, LiveCovers
  <2> QED BY <2>1, <2>4, <2>5
<1>4. CASE SnapshotStep
  <2>1. Intact /\ UNCHANGED <<vars, down>>
    BY <1>2, <1>4 DEF Intact, SnapshotStep
  <2>2. ~down /\ LockInv /\ LeasedSetExact /\ UsedInv /\ LogInv /\ CoverInv
    BY <2>1 DEF SnapInv
  <2>3. LockInv' /\ LeasedSetExact' /\ UsedInv'
    BY <1>0, <2>1, <2>2, LockStep, LeasedStep, UsedStep
  <2>4. LogInv'
    BY <2>1, <2>2 DEF LogInv, LogReplays, vars, diskVars
  <2> QED BY <1>0, <1>4, <2>1, <2>2, <2>3, <2>4, SnapshotCovers
<1>5. ASSUME NEW n \in 0..MaxLog, CrashWithSnapshots(n)
      PROVE  ~down' /\ LockInv' /\ LeasedSetExact' /\ UsedInv' /\ LogInv' /\ CoverInv'
  <2>1. Intact
    BY <1>2, <1>5 DEF Intact, CrashWithSnapshots
  <2> QED BY <1>0, <1>2, <1>5, <2>1, RecoveryCovers DEF SnapInv
<1> QED BY <1>0, <1>3, <1>4, <1>5, SnapshotKinds

\* Snapshots, truncation and pruning keep the inductive invariant, on any disk.
LEMMA SnapInvHolds == SnapSpec => []SnapInv
<1>1. SnapInit => SnapInv
  BY SnapInit0
<1> QED BY <1>1, SnapInvStep, PTL DEF SnapSpec

\* The store, the snapshot files and the call in progress keep their shape, also
\* after a recovery that found snapshot and log apart; only durable records are
\* deleted.
THEOREM SnapshotsAreWellTyped == SnapSpec => []SnapTypeOK
<1>1. SnapInv => SnapTypeOK
  BY DEF SnapInv
<1> QED BY <1>1, SnapInvHolds, PTL

\* Records of the log are deleted only once a snapshot that accounts for them is
\* on disk, and pruning never removes the last such file.
THEOREM DeletedRecordsAreCovered == SnapSpec => []TruncatedIsCovered
<1>1. SnapInv => TruncatedIsCovered
  BY DEF SnapInv, FilesInv
<1> QED BY <1>1, SnapInvHolds, PTL

\* Recovery only refuses to start when snapshot and log do not meet: otherwise
\* no record it replays is about a job it does not know, on any disk.
THEOREM RecoveryStarts == SnapSpec => []StartsUp
<1>1. SnapInv => StartsUp
  BY DEF SnapInv, StartsUp
<1> QED BY <1>1, SnapInvHolds, PTL

-----------------------------------------------------------------------------
(* Fencing tokens *)

\* The numbers that the arguments about tokens compare.
LEMMA TokenNumbers ==
    ASSUME SnapTypeOK, CoverInv
    PROVE  /\ TypeOK /\ mem \in Mem /\ mem.reserved \in Nat /\ nextEpoch \in Nat
           /\ Len(log) \in Nat /\ stable \in 0..Len(log) /\ reported \in stable..Len(log)
           /\ \A i \in DOMAIN issued : issued[i].epoch \in Nat
           /\ \A f \in Origins : f.lsn \in 0..Len(log) /\ f.reserved \in Nat
<1>1. TypeOK
  BY DEF SnapTypeOK
<1>2. /\ mem \in Mem /\ mem.reserved \in Nat /\ nextEpoch \in Nat
      /\ Len(log) \in Nat /\ stable \in 0..Len(log) /\ reported \in stable..Len(log)
  BY <1>1 DEF TypeOK, Mem
<1>3. \A i \in DOMAIN issued : issued[i].epoch \in Nat
  BY <1>1, IssuedType
<1>4. \A f \in Origins : f.lsn \in 0..Len(log) /\ f.reserved \in Nat
  BY <1>2, OriginType DEF CoverInv
<1> QED BY <1>1, <1>2, <1>3, <1>4

\* Ceiling of origin f, for a log that a crash cuts after record n.
Ceiling(f, n) ==
    f.lsn <= n /\ NoReservation(f.lsn, n) =>
      /\ \A i \in DOMAIN issued : issued[i].epoch <= f.reserved
      /\ nextEpoch <= mem.reserved => mem.reserved <= f.reserved

\* A token is handed out, or spent, only below the ceiling of every origin that
\* no reservation follows.
LEMMA TokensMove ==
    ASSUME SnapTypeOK, CoverInv, Moves, mem'.reserved = mem.reserved,
           NEW f \in Origins,
           \A i \in DOMAIN issued : issued[i].epoch <= f.reserved,
           nextEpoch <= mem.reserved => mem.reserved <= f.reserved
    PROVE  /\ \A i \in DOMAIN issued' : issued'[i].epoch <= f.reserved
           /\ nextEpoch' <= mem'.reserved => mem'.reserved <= f.reserved
<1>0. mem.reserved \in Nat /\ nextEpoch \in Nat /\ f.reserved \in Nat
  BY TokenNumbers
<1>1. nextEpoch' <= mem'.reserved => mem'.reserved <= f.reserved
  BY <1>0 DEF Moves
<1>2. CASE issued' = issued
  BY <1>1, <1>2
<1>3. ASSUME NEW j \in Jobs, nextEpoch <= mem.reserved,
             issued' = Append(issued, [job |-> j, epoch |-> nextEpoch])
      PROVE  \A i \in DOMAIN issued' : issued'[i].epoch <= f.reserved
  <2>1. issued \in Seq(Leases)
    BY DEF SnapTypeOK, TypeOK
  <2>2. /\ Len(issued) \in Nat /\ DOMAIN issued = 1..Len(issued)
        /\ DOMAIN issued' = 1..(Len(issued) + 1)
        /\ \A i \in DOMAIN issued : issued'[i] = issued[i]
        /\ issued'[Len(issued) + 1] = [job |-> j, epoch |-> nextEpoch]
    BY <1>3, <2>1
  <2>3. \A i \in DOMAIN issued' : i \in DOMAIN issued \/ i = Len(issued) + 1
    BY <2>2
  <2>4. nextEpoch <= f.reserved
    BY <1>0, <1>3
  <2> QED BY <2>2, <2>3, <2>4
<1> QED BY <1>1, <1>2, <1>3 DEF Moves

\* A running broker hands out no token above the ceiling of a snapshot unless a
\* durable reservation follows it.
LEMMA LiveCeiling ==
    ASSUME SnapTypeOK, Healthy, LockInv, CoverInv, CeilingInv, Live, UNCHANGED snapVars
    PROVE  CeilingInv'
<1>0. /\ TypeOK /\ mem \in Mem /\ mem.reserved \in Nat /\ nextEpoch \in Nat
      /\ Len(log) \in Nat /\ stable \in 0..Len(log) /\ reported \in stable..Len(log)
      /\ \A i \in DOMAIN issued : issued[i].epoch \in Nat
      /\ \A f \in Origins : f.lsn \in 0..Len(log) /\ f.reserved \in Nat
      /\ Origins' = Origins
  BY TokenNumbers DEF snapVars, Origins
<1>1. Moves
  BY <1>0, LiveMoves
<1>2. \A f \in Origins, n \in Cuts : Ceiling(f, n)
  BY DEF CeilingInv, Ceiling
<1>3. ASSUME mem'.reserved = mem.reserved PROVE nextEpoch' <= mem'.reserved + 1
  BY <1>0, <1>1, <1>3 DEF Moves, CeilingInv
<1>4. ASSUME NEW e \in Events, AppendRecord(e), mem'.reserved = mem.reserved,
             NEW f \in Origins, NEW n \in Cuts', f.lsn <= n,
             \A k \in (f.lsn + 1)..n : log'[k].type # "reserve"
      PROVE  /\ \A i \in DOMAIN issued' : issued'[i].epoch <= f.reserved
             /\ nextEpoch' <= mem'.reserved => mem'.reserved <= f.reserved
  <2>1. log \in Seq(Events) /\ log' = Append(log, e) /\ stable' = stable
    BY <1>0, <1>4 DEF TypeOK, AppendRecord
  <2>2. Len(log') = Len(log) + 1 /\ \A k \in 1..Len(log) : log'[k] = log[k]
    BY <2>1
  <2>3. PICK c \in Cuts : c <= n /\ f.lsn <= c
    <3>1. CASE n <= Len(log)
      BY <1>0, <1>4, <2>1, <2>2, <3>1 DEF Cuts
    <3>2. CASE ~(n <= Len(log))
      <4>1. Len(log) \in Cuts /\ Len(log) <= n /\ f.lsn <= Len(log)
        BY <1>0, <2>1, <2>2, <3>2 DEF Cuts
      <4> QED BY <4>1
    <3> QED BY <3>1, <3>2
  <2>4. NoReservation(f.lsn, c)
    <3> SUFFICES ASSUME NEW k \in (f.lsn + 1)..c PROVE log[k].type # "reserve"
      BY DEF NoReservation
    <3>1. k \in (f.lsn + 1)..n /\ k \in 1..Len(log)
      BY <1>0, <1>4, <2>1, <2>2, <2>3 DEF Cuts
    <3> QED BY <1>4, <2>2, <3>1
  <2> QED BY <1>1, <1>2, <1>4, <2>3, <2>4, TokensMove DEF Ceiling
<1>5. ASSUME NEW e, Recorded(e) PROVE CeilingInv'
  <2>1. e \in Events /\ e.type # "reserve" /\ AppendRecord(e) /\ mem' = Apply(mem, e)
        /\ reserving' = None
    BY <1>5, LegalType DEF Recorded, RecordLocked
  <2>2. mem'.reserved = mem.reserved
    BY <1>0, <2>1, ApplyReserved
  <2> QED BY <1>0, <1>3, <1>4, <2>1, <2>2 DEF CeilingInv, NoReservation
<1>6. CASE ReservationWritten
  <2>1. ReserveEvent \in Events /\ ReserveEvent.type = "reserve" /\ AppendRecord(ReserveEvent)
        /\ mem' = mem
    BY <1>0, <1>6, ReserveEventType DEF ReservationWritten
  <2>2. log \in Seq(Events) /\ log' = Append(log, ReserveEvent)
    BY <1>0, <2>1 DEF TypeOK, AppendRecord
  <2>3. Len(log') = Len(log) + 1 /\ log'[Len(log')] = ReserveEvent
    BY <2>1, <2>2
  <2>4. Len(log') > 0 /\ log'[Len(log')].type = "reserve" /\ \A f \in Origins : f.lsn < Len(log')
    BY <1>0, <2>1, <2>3
  <2> QED BY <1>0, <1>3, <1>4, <2>1, <2>4 DEF CeilingInv, NoReservation
<1>7. CASE EpochsReserved
  <2>1. /\ reserving # None /\ nextEpoch > mem.reserved /\ reported = Len(log)
        /\ mem' = Apply(mem, ReserveEvent) /\ nextEpoch' = nextEpoch /\ log' = log
        /\ stable' = stable
    BY <1>7 DEF EpochsReserved, diskVars
  <2>2. mem'.reserved = nextEpoch + EpochBlockSize - 1
    BY <1>0, <2>1, ReserveEventType, ApplyReserved DEF ReserveEvent
  <2>3. nextEpoch' <= mem'.reserved
    BY <1>0, <2>1, <2>2, EpochBlockSizeAssumption
  <2>4. ~(nextEpoch' > mem'.reserved) /\ nextEpoch' <= mem'.reserved + 1
    BY <1>0, <2>1, <2>2, <2>3, EpochBlockSizeAssumption
  <2>5. /\ Len(log) > 0 /\ log[Len(log)].type = "reserve"
        /\ \A f \in Origins : f.lsn < Len(log)
    BY <2>1 DEF CeilingInv
  <2>6. \A n \in Cuts' : n = Len(log)
    <3>1. stable = Len(log)
      BY <2>1 DEF Healthy
    <3>2. Cuts' = Len(log)..Len(log)
      BY <2>1, <3>1 DEF Cuts
    <3> QED BY <1>0, <3>2
  <2>7. ASSUME NEW f \in Origins, NEW n \in Cuts'
        PROVE  ~(\A k \in (f.lsn + 1)..n : log'[k].type # "reserve")
    <3>1. n = Len(log) /\ Len(log) \in (f.lsn + 1)..n
      BY <1>0, <2>5, <2>6
    <3> QED BY <2>1, <2>5, <3>1
  <2> QED BY <1>0, <2>4, <2>7 DEF CeilingInv, NoReservation
<1>8. CASE Quiet
  <2>1. /\ UNCHANGED <<mem, log, issued>> /\ stable' \in stable..Len(log)
        /\ reserving' = None \/ UNCHANGED <<reserving, nextEpoch>>
    BY <1>8 DEF Quiet
  <2>2. \A n \in Cuts' : n \in Cuts
    BY <1>0, <2>1 DEF Cuts
  <2>3. ASSUME NEW f \in Origins, NEW n \in Cuts', f.lsn <= n, NoReservation(f.lsn, n)
        PROVE  /\ \A i \in DOMAIN issued' : issued'[i].epoch <= f.reserved
               /\ nextEpoch' <= mem'.reserved => mem'.reserved <= f.reserved
    BY <1>1, <1>2, <2>1, <2>2, <2>3, TokensMove DEF Ceiling
  <2>4. nextEpoch' <= mem'.reserved + 1
    BY <1>3, <2>1
  <2>5. reserving' # None /\ nextEpoch' > mem'.reserved =>
          /\ Len(log) > 0 /\ log[Len(log)].type = "reserve"
          /\ \A f \in Origins : f.lsn < Len(log)
    BY <2>1 DEF CeilingInv
  <2> QED BY <1>0, <2>1, <2>3, <2>4, <2>5 DEF CeilingInv, NoReservation
<1>9. ASSUME NEW n \in 0..MaxLog, Crash(n) PROVE FALSE
  BY <1>0, <1>1, <1>9 DEF Moves, Crash, TypeOK
<1>10. Next
  BY DEF Next
<1> QED BY <1>0, <1>5, <1>6, <1>7, <1>8, <1>9, <1>10, StepKinds

\* A snapshot taken from the store has the ceiling that is in use.
LEMMA SnapshotCeiling ==
    ASSUME SnapTypeOK, TokenInv, CoverInv, CeilingInv, SnapshotStep
    PROVE  CeilingInv'
<1>0. /\ mem.reserved \in Nat /\ nextEpoch \in Nat
      /\ \A i \in DOMAIN issued : issued[i].epoch \in Nat
  BY TokenNumbers
<1>1. UNCHANGED <<mem, nextEpoch, reserving, log, stable, issued>>
  BY DEF SnapshotStep, vars, memVars, muVars, diskVars, histVars
<1>2. ASSUME NEW o, TakenNow(o)
      PROVE  /\ \A i \in DOMAIN issued : issued[i].epoch <= o.reserved
             /\ mem.reserved <= o.reserved
             /\ reserving = None
  BY <1>0, <1>2 DEF TakenNow, MuFree, CeilingInv, TokenInv
<1>3. ASSUME NEW o \in Origins', NEW n \in Cuts, o.lsn <= n, NoReservation(o.lsn, n)
      PROVE  /\ \A i \in DOMAIN issued : issued[i].epoch <= o.reserved
             /\ nextEpoch <= mem.reserved => mem.reserved <= o.reserved
  BY <1>2, <1>3 DEF SnapshotStep, SameOrigin, CeilingInv
<1>4. ASSUME reserving # None, nextEpoch > mem.reserved
      PROVE  \A o \in Origins' : o.lsn < Len(log)
  BY <1>2, <1>4 DEF SnapshotStep, SameOrigin, CeilingInv
<1> QED BY <1>1, <1>3, <1>4 DEF CeilingInv, Cuts, NoReservation

-----------------------------------------------------------------------------
(* What answered requests rest on *)

\* A recovery whose snapshot and log met keeps every answer and every token.
LEMMA RecoveryDurable ==
    ASSUME SnapInv, Intact, Durable, CeilingInv,
           NEW n \in 0..MaxLog, CrashWithSnapshots(n), Intact'
    PROVE  Durable' /\ CeilingInv'
<1>0. SnapTypeOK /\ FilesInv /\ UsedInv /\ LogInv /\ CoverInv /\ TypeOK
  BY DEF SnapInv, SnapTypeOK
<1>1. LockInv' /\ LeasedSetExact' /\ UsedInv'
  BY <1>0, RecoveryCovers
<1>2. PICK m \in Mem :
        /\ Open(m)
        /\ Kept(m, image[n]) /\ Known(m, image[n])
        /\ \/ m.reserved = image[n].reserved
           \/ \E o \in Origins : /\ o.lsn <= n /\ NoReservation(o.lsn, n)
                                 /\ m.reserved = o.reserved
  BY <1>0, RecoveredMemory
<1>3. /\ mem'.reserved = m.reserved
      /\ \A j \in Jobs : /\ Has(mem', j) <=> Has(m, j)
                         /\ IsDone(mem', j) <=> IsDone(m, j)
  BY <1>2, OpenStates
<1>4. /\ nextEpoch' = m.reserved + 1 /\ reserving' = None
      /\ \A p \in Procs : calls'[p].op = "idle"
  BY <1>2 DEF Open, Idle
<1>5. LogCut(n) /\ UNCHANGED histVars /\ snap' = NoSnap /\ files' = files
  BY DEF CrashWithSnapshots
<1>6. /\ UNCHANGED <<issued, accepted, acks>>
      /\ \A j \in accepted : j \in Jobs
      /\ \A g \in acks : g.job \in Jobs
  BY <1>0, <1>5 DEF histVars, TypeOK, Leases
<1>7. /\ n \in Cuts /\ Len(log') = n /\ stable' = stable /\ n \in Nat /\ stable \in 0..n
      /\ Len(log) \in Nat /\ n \in 0..Len(log)
      /\ \A i \in 0..n : image'[i] = image[i] /\ image[i] \in Mem
      /\ \A i \in 1..n : log'[i] = log[i]
  BY <1>0, <1>5, CutFacts
<1>8. \A i \in Cuts' : i \in Cuts /\ i \in 0..n
  BY <1>7 DEF Cuts
<1>9. Healthy'
  BY <1>5 DEF LogCut, Durable, Healthy
<1>10. /\ m.reserved \in Nat /\ image[n].reserved \in Nat
       /\ \A i \in DOMAIN issued : issued[i].epoch \in Nat
       /\ \A f \in Origins : f.lsn \in 0..Len(log) /\ f.reserved \in Nat
  BY <1>0, <1>7, TokenNumbers DEF Mem
<1>11. \A i \in DOMAIN issued : issued[i].epoch <= m.reserved
  <2>1. CASE m.reserved = image[n].reserved
    BY <1>7, <2>1 DEF Durable, TokenInv
  <2>2. CASE \E o \in Origins : /\ o.lsn <= n /\ NoReservation(o.lsn, n)
                                /\ m.reserved = o.reserved
    BY <1>7, <2>2 DEF CeilingInv
  <2> QED BY <1>2, <2>1, <2>2
<1>12. TokenInv'
  <2>1. \A i \in DOMAIN issued' : issued'[i].epoch < nextEpoch'
    BY <1>4, <1>6, <1>10, <1>11
  <2>2. \A k \in Cuts', i \in DOMAIN issued' : issued'[i].epoch <= image'[k].reserved
    BY <1>6, <1>7, <1>8 DEF Durable, TokenInv
  <2>3. ~(nextEpoch' <= mem'.reserved)
    BY <1>3, <1>4, <1>10
  <2> QED BY <1>4, <2>1, <2>2, <2>3 DEF TokenInv, ReservationInv
<1>13. TokensIncrease'
  BY <1>6 DEF Durable, TokensIncrease
<1>14. AcceptedInv'
  <2>1. \A j \in accepted : Has(mem', j)
    BY <1>2, <1>3, <1>6, <1>7 DEF Durable, AcceptedInv, Kept
  <2>2. \A j \in accepted, k \in Cuts' : Has(image'[k], j)
    BY <1>7, <1>8 DEF Durable, AcceptedInv
  <2> QED BY <1>4, <1>6, <2>1, <2>2 DEF AcceptedInv, Pending
<1>15. DoneInv'
  <2>1. \A g \in acks : IsDone(mem', g.job)
    BY <1>2, <1>3, <1>6, <1>7 DEF Durable, DoneInv, Kept
  <2>2. \A g \in acks, k \in Cuts' : IsDone(image'[k], g.job)
    BY <1>7, <1>8 DEF Durable, DoneInv
  <2> QED BY <1>4, <1>6, <2>1, <2>2 DEF DoneInv, Pending
<1>16. CeilingInv'
  <2>1. \A f \in Origins' : f \in Origins
    BY <1>5 DEF Origins
  <2>2. ASSUME NEW f \in Origins', NEW k \in Cuts', f.lsn <= k,
               \A i \in (f.lsn + 1)..k : log'[i].type # "reserve"
        PROVE  \A i \in DOMAIN issued' : issued'[i].epoch <= f.reserved
    <3>1. NoReservation(f.lsn, k)
      BY <1>7, <1>8, <1>10, <2>1, <2>2 DEF NoReservation
    <3> QED BY <1>6, <1>8, <2>1, <2>2, <3>1 DEF CeilingInv
  <2>3. ~(nextEpoch' <= mem'.reserved) /\ nextEpoch' <= mem'.reserved + 1
    BY <1>3, <1>4, <1>10
  <2> QED BY <1>4, <2>2, <2>3 DEF CeilingInv, NoReservation
<1> QED BY <1>1, <1>9, <1>12, <1>13, <1>14, <1>15, <1>16 DEF Durable

\* Every step keeps what answered requests rest on.
LEMMA SnapDurableStep ==
    ASSUME DropsPages = FALSE
    PROVE  SnapInv /\ SnapDurable /\ [SnapNext]_allVars => SnapDurable'
<1> SUFFICES ASSUME SnapInv, SnapDurable, [SnapNext]_allVars, Intact'
             PROVE  Durable' /\ CeilingInv'
  BY DEF SnapDurable
<1>0. SnapTypeOK /\ TypeOK
  BY DEF SnapInv, SnapTypeOK
<1>1. CASE ~down /\ Live /\ UNCHANGED snapVars
  <2>1. Intact
    BY <1>1 DEF Intact, snapVars
  <2>2. Durable /\ CeilingInv /\ CoverInv
    BY <2>1 DEF SnapDurable, SnapInv
  <2>3. Next
    BY <1>1 DEF Next
  <2>4. Durable'
    BY <1>0, <2>2, <2>3, DurableStep
  <2>5. CeilingInv'
    BY <1>0, <1>1, <2>2, LiveCeiling DEF Durable
  <2> QED BY <2>4, <2>5
<1>2. CASE SnapshotStep
  <2>1. Intact /\ UNCHANGED vars
    BY <1>2 DEF Intact, SnapshotStep
  <2>2. Durable /\ CeilingInv /\ CoverInv
    BY <2>1 DEF SnapDurable, SnapInv
  <2>3. Durable'
    BY <1>0, <2>1, <2>2, DurableStep
  <2>4. CeilingInv'
    BY <1>0, <1>2, <2>2, SnapshotCeiling DEF Durable
  <2> QED BY <2>3, <2>4
<1>3. ASSUME NEW n \in 0..MaxLog, CrashWithSnapshots(n) PROVE Durable' /\ CeilingInv'
  <2>1. Intact
    BY <1>3 DEF Intact, CrashWithSnapshots
  <2> QED BY <1>3, <2>1, RecoveryDurable DEF SnapDurable
<1> QED BY <1>0, <1>1, <1>2, <1>3, SnapshotKinds

\* The two invariants together.
LEMMA SnapDurableHolds ==
    ASSUME DropsPages = FALSE
    PROVE  SnapSpec => [](SnapInv /\ SnapDurable)
<1>1. SnapInit => SnapInv /\ SnapDurable
  BY SnapInit0 DEF SnapDurable
<1>2. SnapInv /\ SnapDurable /\ [SnapNext]_allVars => (SnapInv /\ SnapDurable)'
  BY SnapInvStep, SnapDurableStep
<1> QED BY <1>1, <1>2, PTL DEF SnapSpec

\* As long as every recovery found snapshot and log meeting, no accepted job and
\* no accepted Ack is lost, although Snapshot marshals jobs after it released
\* the lock and deletes the records it accounts for.
THEOREM SnapshotsLoseNothing ==
    ASSUME DropsPages = FALSE
    PROVE  SnapSpec => []NothingLost
<1>1. SnapInv /\ SnapDurable => NothingLost
  BY DEF SnapDurable, NothingLost, Durable, AcceptedInv, AcceptedSurvive, DoneInv,
         CompletedStayDone, Has, IsDone
<1> QED BY <1>1, SnapDurableHolds, PTL

\* Under the same condition fencing tokens strictly increase: a snapshot may
\* carry an older ceiling than the log it replaces, but never one below a token
\* that was handed out without a later reservation.
THEOREM TokensSurviveSnapshots ==
    ASSUME DropsPages = FALSE
    PROVE  SnapSpec => []TokensSurvive
<1>1. SnapInv /\ SnapDurable => TokensSurvive
  BY DEF SnapDurable, TokensSurvive, Durable
<1> QED BY <1>1, SnapDurableHolds, PTL

=============================================================================
