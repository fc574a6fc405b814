-------------------------------- MODULE Wal --------------------------------
(***************************************************************************)
(* The write-ahead log (internal/wal/wal.go) under the group committer     *)
(* (internal/broker/commit.go), step by step: records are framed into a    *)
(* buffer, drained into the active segment under w.mu, and flushed with    *)
(* w.mu released and w.fileMu held for reading; a rotation holds w.mu and  *)
(* waits for w.fileMu.  Callers queue on the committer, whose flushLoop    *)
(* answers them batch by batch.  AppendSync flushes on its own.            *)
(*                                                                         *)
(* A record is its number of appending; a Torn entry stands for bytes that *)
(* fail the length or checksum test.  Sizes are counted in records.        *)
(***************************************************************************)
EXTENDS Naturals, Sequences, FiniteSets, SequencesExt

CONSTANTS
    Procs,          \* callers of the log
    Flusher,        \* the committer's flushLoop goroutine
    None,
    MaxSegmentSize, \* records that fit in a segment
    MaxAppends,     \* bound: records ever appended
    MaxFaults,      \* bound: disk operations that fail
    MaxCrashes      \* bound: restarts

ASSUME FlusherAssumption == Flusher \notin Procs /\ None \notin Procs \cup {Flusher}
ASSUME WalBoundsAssumption ==
    {MaxSegmentSize, MaxAppends, MaxFaults, MaxCrashes} \subseteq Nat /\ MaxSegmentSize > 0

VARIABLES
    segs,       \* the segment files, oldest first: [base, recs, synced]
    buf,        \* records framed but not written
    activeSize, \* records destined for the active segment
    nextLSN,
    closed,     \* Close was called
    broken,     \* a rotation closed the active file and could not replace it
    rotator,    \* the caller that holds w.mu and wants or has w.fileMu
    waiters,    \* callers in the committer's queue
    batch,      \* callers the running flush will answer
    running,    \* the committer's flag
    pc,         \* per goroutine: its next step
    rec,        \* per goroutine: the record it appended
    target,     \* per goroutine: the last LSN its flush covers
    mark,       \* per goroutine: entries in the file when its fsync began
    up,         \* the process is running
    lsnOf,      \* history: the LSN each record was given
    confirmed,  \* history: records whose caller was told they are durable
    claimed,    \* history: the highest LSN a successful flush covered
    damaged,    \* history: a write failed part-way
    crashes,
    faults

fileVars == <<segs, buf, activeSize, nextLSN, closed, broken>>
commVars == <<waiters, batch, running>>
procVars == <<pc, rec, target, mark>>
histVars == <<lsnOf, confirmed, claimed, damaged>>
vars     == <<fileVars, rotator, commVars, procVars, up, histVars, crashes, faults>>

Threads == Procs \cup {Flusher}
Torn == 0
Active == segs[Len(segs)]

Fault == faults < MaxFaults /\ faults' = faults + 1

\* scanRecords: the entries before the first one that is torn.
ValidLen(recs) ==
    LET i == SelectInSeq(recs, LAMBDA r : r = Torn)
    IN IF i = 0 THEN Len(recs) ELSE i - 1

Higher(a, b) == IF a > b THEN a ELSE b

\* w.mu is free: only a rotation keeps it across steps.
MuFree == up /\ rotator = None

-----------------------------------------------------------------------------
(* Append *)

\* What the caller does once its record is framed: commit (Submit, Ack, Nack,
\* ReplayJob, ReclaimExpired), flush on its own (AppendSync), or nothing (Lease).
AfterAppend == {"commit", "drain", "idle"}

Frame(p, next) ==
    /\ buf' = Append(buf, Len(lsnOf) + 1)
    /\ lsnOf' = Append(lsnOf, nextLSN)
    /\ nextLSN' = nextLSN + 1
    /\ rec' = [rec EXCEPT ![p] = Len(lsnOf) + 1]
    /\ pc' = [pc EXCEPT ![p] = next]

Full == activeSize > 0 /\ activeSize + 1 > MaxSegmentSize

AppendRecord(p, next) ==
    /\ MuFree
    /\ pc[p] = "idle"
    /\ Len(lsnOf) < MaxAppends
    /\ ~closed
    /\ ~Full
    /\ Frame(p, next)
    /\ activeSize' = activeSize + 1
    /\ UNCHANGED <<segs, closed, broken, rotator, commVars, target, mark, up, confirmed,
                   claimed, damaged, crashes, faults>>

\* A write to the active segment succeeds.
Write ==
    /\ broken => buf = <<>>
    /\ segs' = [segs EXCEPT ![Len(segs)].recs = @ \o buf]
    /\ buf' = <<>>

\* A write fails after k whole records and perhaps a piece of the next one;
\* the buffer is kept, so a later write repeats all of it behind them.
WriteFails(k, torn) ==
    /\ buf # <<>>
    /\ ~broken
    /\ Fault
    /\ k <= Len(buf)
    /\ torn => k < Len(buf)
    /\ segs' = [segs EXCEPT ![Len(segs)].recs =
                    @ \o (SubSeq(buf, 1, k) \o (IF torn THEN <<Torn>> ELSE <<>>))]
    /\ damaged' = (damaged \/ k > 0 \/ torn)
    /\ UNCHANGED <<buf, activeSize, nextLSN, broken>>

\* The segment is full: rotateLocked writes the buffer out and then waits for
\* the flushes that hold w.fileMu.
RotateBegin(p) ==
    /\ MuFree
    /\ pc[p] = "idle"
    /\ Len(lsnOf) < MaxAppends
    /\ ~closed
    /\ Full
    /\ Write
    /\ rotator' = p
    /\ pc' = [pc EXCEPT ![p] = "rotate"]
    /\ UNCHANGED <<activeSize, nextLSN, closed, broken, commVars, rec, target, mark, up,
                   histVars, crashes, faults>>

RotateWriteFails(p, k, torn) ==
    /\ MuFree
    /\ pc[p] = "idle"
    /\ ~closed
    /\ Full
    /\ WriteFails(k, torn)
    /\ UNCHANGED <<closed, rotator, commVars, procVars, up, lsnOf, confirmed, claimed, crashes>>

\* Mutant: the rotation does not take w.fileMu.
NoFsyncSkipped == TRUE

NoFsync == \A t \in Threads : pc[t] # "fsync"

\* It flushes and closes the segment and starts the next one at nextLSN.
Rotate(p) ==
    /\ up
    /\ pc[p] = "rotate"
    /\ NoFsync
    /\ ~broken
    /\ segs' = Append([segs EXCEPT ![Len(segs)].synced = Len(Active.recs)],
                      [base |-> nextLSN, recs |-> <<>>, synced |-> 0])
    /\ activeSize' = 0
    /\ claimed' = Higher(claimed, nextLSN - 1)
    /\ pc' = [pc EXCEPT ![p] = "frame"]
    /\ UNCHANGED <<buf, nextLSN, closed, broken, rotator, commVars, rec, target, mark, up,
                   lsnOf, confirmed, damaged, crashes, faults>>

\* The record that did not fit is framed for the new segment.
RotateEnd(p, next) ==
    /\ up
    /\ pc[p] = "frame"
    /\ Frame(p, next)
    /\ activeSize' = activeSize + 1
    /\ rotator' = None
    /\ UNCHANGED <<segs, closed, broken, commVars, target, mark, up, confirmed, claimed,
                   damaged, crashes, faults>>

\* The old segment could not be flushed, or it was closed and no new one could
\* be created; from then on every write and flush fails.
RotateFails(p) ==
    /\ up
    /\ pc[p] = "rotate"
    /\ NoFsync
    /\ \/ broken /\ UNCHANGED <<segs, broken, claimed, faults>>
       \/ Fault /\ UNCHANGED <<segs, broken, claimed>>
       \/ /\ Fault
          /\ segs' = [segs EXCEPT ![Len(segs)].synced = Len(Active.recs)]
          /\ claimed' = Higher(claimed, nextLSN - 1)
          /\ broken' = TRUE
    /\ rotator' = None
    /\ pc' = [pc EXCEPT ![p] = "idle"]
    /\ UNCHANGED <<buf, activeSize, nextLSN, closed, commVars, rec, target, mark, up, lsnOf,
                   confirmed, damaged, crashes>>

-----------------------------------------------------------------------------
(* The committer *)

\* commit joins the queue and starts a flushLoop if none is running.
Commit(p) ==
    /\ up
    /\ pc[p] = "commit"
    /\ waiters' = waiters \cup {p}
    /\ running' = TRUE
    /\ pc' = [pc EXCEPT ![p] = "wait",
                        ![Flusher] = IF running THEN @ ELSE "take"]
    /\ UNCHANGED <<fileVars, rotator, batch, rec, target, mark, up, histVars, crashes, faults>>

\* Mutant: flushLoop stops without clearing the flag.
TakeBatchStaysRunning ==
    /\ up
    /\ pc[Flusher] = "take"
    /\ batch' = waiters
    /\ waiters' = {}
    /\ pc' = [pc EXCEPT ![Flusher] = IF waiters = {} THEN "off" ELSE "drain"]
    /\ UNCHANGED <<fileVars, rotator, running, rec, target, mark, up, histVars, crashes, faults>>

\* flushLoop takes the whole queue, or stops when it is empty.
TakeBatch ==
    /\ up
    /\ pc[Flusher] = "take"
    /\ batch' = waiters
    /\ waiters' = {}
    /\ running' = (waiters # {})
    /\ pc' = [pc EXCEPT ![Flusher] = IF waiters = {} THEN "off" ELSE "drain"]
    /\ UNCHANGED <<fileVars, rotator, rec, target, mark, up, histVars, crashes, faults>>

\* Mutant: callers that queued up during the flush are answered too.
AnswerLateComers(t, ok) ==
    LET told == IF t = Flusher THEN batch \cup waiters ELSE {t}
    IN /\ confirmed' = IF ok THEN confirmed \cup {rec[p] : p \in told} ELSE confirmed
       /\ pc' = [u \in Threads |-> IF u = Flusher /\ t = Flusher THEN "take"
                                   ELSE IF u \in told THEN "idle" ELSE pc[u]]
       /\ batch' = IF t = Flusher THEN {} ELSE batch
       /\ waiters' = IF t = Flusher THEN {} ELSE waiters
       /\ UNCHANGED running

\* The result of Sync reaches AppendSync's caller, or every caller of the batch.
Answer(t, ok) ==
    LET told == IF t = Flusher THEN batch ELSE {t}
    IN /\ confirmed' = IF ok THEN confirmed \cup {rec[p] : p \in told} ELSE confirmed
       /\ pc' = [u \in Threads |-> IF u = Flusher /\ t = Flusher THEN "take"
                                   ELSE IF u \in told THEN "idle" ELSE pc[u]]
       /\ batch' = IF t = Flusher THEN {} ELSE batch
       /\ UNCHANGED <<waiters, running>>

-----------------------------------------------------------------------------
(* Sync *)

\* Under w.mu the buffer is written to the active segment.
Drain(t) ==
    /\ MuFree
    /\ pc[t] = "drain"
    /\ ~closed
    /\ Write
    /\ target' = [target EXCEPT ![t] = nextLSN - 1]
    /\ pc' = [pc EXCEPT ![t] = "rlock"]
    /\ UNCHANGED <<activeSize, nextLSN, closed, broken, rotator, commVars, rec, mark, up,
                   histVars, crashes, faults>>

\* Mutant: the failed write is not reported.
DrainErrorLost(t, k, torn) ==
    /\ MuFree
    /\ pc[t] = "drain"
    /\ ~closed
    /\ WriteFails(k, torn)
    /\ Answer(t, TRUE)
    /\ UNCHANGED <<closed, rotator, rec, target, mark, up, lsnOf, claimed, crashes>>

DrainFails(t, k, torn) ==
    /\ MuFree
    /\ pc[t] = "drain"
    /\ ~closed
    /\ WriteFails(k, torn)
    /\ Answer(t, FALSE)
    /\ UNCHANGED <<closed, rotator, rec, target, mark, up, lsnOf, claimed, crashes>>

\* The log is closed, or its file is: Sync returns an error.
SyncRefused(t) ==
    /\ MuFree
    /\ \/ pc[t] = "drain" /\ (closed \/ (broken /\ buf # <<>>))
       \/ pc[t] = "rlock" /\ (closed \/ broken)
    /\ Answer(t, FALSE)
    /\ UNCHANGED <<fileVars, rotator, rec, target, mark, up, lsnOf, claimed, damaged,
                   crashes, faults>>

\* w.fileMu is taken for reading; a rotation may have replaced the segment.
FsyncBegin(t) ==
    /\ MuFree
    /\ pc[t] = "rlock"
    /\ ~closed /\ ~broken
    /\ mark' = [mark EXCEPT ![t] = Len(Active.recs)]
    /\ pc' = [pc EXCEPT ![t] = "fsync"]
    /\ UNCHANGED <<fileVars, rotator, commVars, rec, target, up, histVars, crashes, faults>>

FsyncEnd(t) ==
    /\ up
    /\ pc[t] = "fsync"
    /\ segs' = [segs EXCEPT ![Len(segs)].synced = Higher(@, mark[t])]
    /\ claimed' = Higher(claimed, target[t])
    /\ Answer(t, TRUE)
    /\ UNCHANGED <<buf, activeSize, nextLSN, closed, broken, rotator, rec, target, mark, up,
                   lsnOf, damaged, crashes, faults>>

\* The flush fails and nothing is known of what it covered; the pages stay in the
\* cache, to be flushed again (Store's DropsPages has a kernel that forgets them).
FsyncFails(t) ==
    /\ up
    /\ pc[t] = "fsync"
    /\ Fault
    /\ Answer(t, FALSE)
    /\ UNCHANGED <<fileVars, rotator, rec, target, mark, up, lsnOf, claimed, damaged, crashes>>

-----------------------------------------------------------------------------
(* TruncateBefore, Close, crash and Open *)

\* Whole segments below lsn are deleted, oldest first, the active one never; a
\* deletion that fails ends it early.
TruncateBefore(lsn) ==
    /\ MuFree
    /\ ~closed
    /\ \E k \in 2..Len(segs) :
         /\ segs[k].base <= lsn
         /\ \/ (k < Len(segs) => segs[k + 1].base > lsn) /\ UNCHANGED faults
            \/ Fault
         /\ segs' = SubSeq(segs, k, Len(segs))
    /\ UNCHANGED <<buf, activeSize, nextLSN, closed, broken, rotator, commVars, procVars, up,
                   histVars, crashes>>

\* Replay writes the buffer out before it reads the files.
Replay ==
    /\ MuFree
    /\ ~closed
    /\ Write
    /\ UNCHANGED <<activeSize, nextLSN, closed, broken, rotator, commVars, procVars, up,
                   histVars, crashes, faults>>

ReplayFails(k, torn) ==
    /\ MuFree
    /\ ~closed
    /\ WriteFails(k, torn)
    /\ UNCHANGED <<closed, rotator, commVars, procVars, up, lsnOf, confirmed, claimed, crashes>>

\* Close waits for w.mu and w.fileMu, writes and flushes.
Close ==
    /\ MuFree
    /\ NoFsync
    /\ ~closed
    /\ ~broken
    /\ closed' = TRUE
    /\ segs' = [segs EXCEPT ![Len(segs)] =
                  [base |-> @.base, recs |-> @.recs \o buf,
                   synced |-> Len(@.recs) + Len(buf)]]
    /\ buf' = <<>>
    /\ claimed' = Higher(claimed, nextLSN - 1)
    /\ UNCHANGED <<activeSize, nextLSN, broken, rotator, commVars, procVars, up, lsnOf,
                   confirmed, damaged, crashes, faults>>

\* The write fails part-way: nothing more is ever written, the log is closed.
CloseWriteFails(k, torn) ==
    /\ MuFree
    /\ NoFsync
    /\ ~closed
    /\ closed' = TRUE
    /\ WriteFails(k, torn)
    /\ UNCHANGED <<rotator, commVars, procVars, up, lsnOf, confirmed, claimed, crashes>>

\* The file is gone, or the buffer is written and the flush fails.
CloseFails ==
    /\ MuFree
    /\ NoFsync
    /\ ~closed
    /\ closed' = TRUE
    /\ \/ broken /\ UNCHANGED <<segs, buf, faults>>
       \/ ~broken /\ Fault /\ Write
    /\ UNCHANGED <<activeSize, nextLSN, broken, rotator, commVars, procVars, up, histVars,
                   crashes>>

\* The active file keeps what was flushed and a prefix of the rest, and may end
\* in the middle of a record.
Crash(n, torn) ==
    /\ up
    /\ crashes < MaxCrashes
    /\ crashes' = crashes + 1
    /\ n \in Active.synced..Len(Active.recs)
    /\ torn => n < Len(Active.recs) + Len(buf)
    /\ up' = FALSE
    /\ segs' = [segs EXCEPT ![Len(segs)].recs =
                    SubSeq(@, 1, n) \o (IF torn THEN <<Torn>> ELSE <<>>)]
    /\ buf' = <<>>
    /\ rotator' = None
    /\ waiters' = {}
    /\ batch' = {}
    /\ running' = FALSE
    /\ pc' = [t \in Threads |-> IF t = Flusher THEN "off" ELSE "idle"]
    /\ rec' = [t \in Threads |-> 0]
    /\ target' = [t \in Threads |-> 0]
    /\ mark' = [t \in Threads |-> 0]
    /\ UNCHANGED <<activeSize, nextLSN, closed, broken, histVars, faults>>

\* Mutant: the scan counts the torn record it cuts off.
OpenCountsTorn ==
    /\ ~up
    /\ up' = TRUE
    /\ closed' = FALSE
    /\ broken' = FALSE
    /\ LET v == ValidLen(Active.recs)
       IN /\ segs' = [segs EXCEPT ![Len(segs)] =
                        [base |-> @.base, recs |-> SubSeq(@.recs, 1, v),
                         synced |-> IF v < Len(@.recs) THEN v ELSE @.synced]]
          /\ activeSize' = v
          /\ nextLSN' = Active.base + Len(Active.recs)
    /\ claimed' = 0
    /\ UNCHANGED <<buf, rotator, commVars, procVars, lsnOf, confirmed, damaged, crashes, faults>>

\* Mutant: a torn tail takes the last whole record with it.
OpenCutsWhole ==
    /\ ~up
    /\ up' = TRUE
    /\ closed' = FALSE
    /\ broken' = FALSE
    /\ LET n == ValidLen(Active.recs)
           v == IF n = Len(Active.recs) \/ n = 0 THEN n ELSE n - 1
       IN /\ segs' = [segs EXCEPT ![Len(segs)] =
                        [base |-> @.base, recs |-> SubSeq(@.recs, 1, v),
                         synced |-> IF v < Len(@.recs) THEN v ELSE @.synced]]
          /\ activeSize' = v
          /\ nextLSN' = Active.base + v
    /\ claimed' = 0
    /\ UNCHANGED <<buf, rotator, commVars, procVars, lsnOf, confirmed, damaged, crashes, faults>>

\* Open scans the last segment, cuts a torn tail off and flushes the cut.
Open ==
    /\ ~up
    /\ up' = TRUE
    /\ closed' = FALSE
    /\ broken' = FALSE
    /\ LET v == ValidLen(Active.recs)
       IN /\ segs' = [segs EXCEPT ![Len(segs)] =
                        [base |-> @.base, recs |-> SubSeq(@.recs, 1, v),
                         synced |-> IF v < Len(@.recs) THEN v ELSE @.synced]]
          /\ activeSize' = v
          /\ nextLSN' = Active.base + v
    /\ claimed' = 0
    /\ UNCHANGED <<buf, rotator, commVars, procVars, lsnOf, confirmed, damaged, crashes, faults>>

-----------------------------------------------------------------------------

Init ==
    /\ segs = <<[base |-> 1, recs |-> <<>>, synced |-> 0]>>
    /\ buf = <<>>
    /\ activeSize = 0
    /\ nextLSN = 1
    /\ closed = FALSE
    /\ broken = FALSE
    /\ rotator = None
    /\ waiters = {}
    /\ batch = {}
    /\ running = FALSE
    /\ pc = [t \in Threads |-> IF t = Flusher THEN "off" ELSE "idle"]
    /\ rec = [t \in Threads |-> 0]
    /\ target = [t \in Threads |-> 0]
    /\ mark = [t \in Threads |-> 0]
    /\ up = TRUE
    /\ lsnOf = <<>>
    /\ confirmed = {}
    /\ claimed = 0
    /\ damaged = FALSE
    /\ crashes = 0
    /\ faults = 0

\* The steps of a goroutine that is inside the log or the committer.
Step(t) ==
    \/ t \in Procs /\ (Rotate(t) \/ RotateFails(t) \/ Commit(t))
    \/ t \in Procs /\ \E next \in AfterAppend : RotateEnd(t, next)
    \/ t = Flusher /\ TakeBatch
    \/ Drain(t)
    \/ SyncRefused(t)
    \/ FsyncBegin(t)
    \/ FsyncEnd(t)

Next ==
    \/ \E p \in Procs, next \in AfterAppend : AppendRecord(p, next)
    \/ \E p \in Procs : RotateBegin(p)
    \/ \E t \in Threads : Step(t) \/ FsyncFails(t)
    \/ \E t \in Threads, k \in 0..MaxAppends, torn \in BOOLEAN :
         DrainFails(t, k, torn) \/ (t \in Procs /\ RotateWriteFails(t, k, torn))
    \/ \E lsn \in 1..(MaxAppends + 1) : TruncateBefore(lsn)
    \/ Replay
    \/ \E k \in 0..MaxAppends, torn \in BOOLEAN :
         ReplayFails(k, torn) \/ CloseWriteFails(k, torn)
    \/ Close \/ CloseFails
    \/ \E n \in 0..(2 * MaxAppends), torn \in BOOLEAN : Crash(n, torn)
    \/ Open
    \/ MuFree /\ UNCHANGED vars    \* LastLSN; a call the closed log refuses

Spec == Init /\ [][Next]_vars

\* A goroutine inside the log or the committer keeps going: a disk operation
\* ends, and w.mu, which Go hands to a waiter that has starved, is obtained by
\* whoever keeps asking for it even if others take it in between.
FairSpec == Spec /\ \A t \in Threads : SF_vars(Step(t))

-----------------------------------------------------------------------------
(* Properties *)

\* Record r can be read at LSN n after any crash.
DurableAt(r, n) ==
    \E k \in 1..Len(segs) :
        LET i == n - segs[k].base + 1
        IN /\ n >= segs[k].base
           /\ i <= segs[k].synced
           /\ i <= ValidLen(segs[k].recs)
           /\ segs[k].recs[i] = r

\* The LSNs from the first segment on whose records, and all before them, are
\* durable.
StableLen ==
    LET Good(n) == \E r \in 1..Len(lsnOf) : lsnOf[r] = n /\ DurableAt(r, n)
        first == segs[1].base
    IN CHOOSE n \in (first - 1)..(first + MaxAppends) :
         /\ \A i \in first..n : Good(i)
         /\ ~Good(n + 1)

Contract == INSTANCE DurableLog WITH
    len       <- nextLSN - 1,
    stable    <- StableLen,
    reported  <- Higher(claimed, StableLen),
    confirmed <- IF confirmed = {} THEN 0 ELSE Max({lsnOf[r] : r \in confirmed}),
    lossy     <- damaged

\* The log and the committer keep the contract the store relies on.
ImplementsDurableLog == Contract!LogSpec

\* The shape of the state.
WalTypeOK ==
    /\ \A k \in 1..Len(segs) :
         /\ segs[k].base \in Nat \ {0}
         /\ segs[k].recs \in Seq(0..MaxAppends)
         /\ segs[k].synced \in 0..Len(segs[k].recs)
    /\ Len(segs) > 0
    /\ buf \in Seq(1..MaxAppends)
    /\ activeSize \in Nat
    /\ nextLSN \in Nat \ {0}
    /\ {closed, broken, running, up, damaged} \subseteq BOOLEAN
    /\ rotator \in Procs \cup {None}
    /\ waiters \subseteq Procs
    /\ batch \subseteq Procs
    /\ pc \in [Threads -> {"idle", "off", "rotate", "frame", "commit", "wait", "take",
                           "drain", "rlock", "fsync"}]
    /\ rec \in [Threads -> 0..MaxAppends]
    /\ target \in [Threads -> Nat]
    /\ mark \in [Threads -> Nat]
    /\ lsnOf \in Seq(Nat)
    /\ confirmed \subseteq 1..Len(lsnOf)
    /\ claimed \in Nat

\* A record whose caller was told it is durable can be read back at its own LSN
\* after any crash, through rotations, shared flushes and failed flushes, until
\* its segment is truncated; unless a write failed part-way.
ConfirmedReadable ==
    ~damaged => \A r \in confirmed :
                    lsnOf[r] >= segs[1].base => DurableAt(r, lsnOf[r])

\* Damage spreads only behind the place where it was done: a confirmed record
\* that can be read stays readable after any failed write, repeated buffer,
\* crash and cut of a torn tail, until its segment is truncated.
ReadableStays ==
    [][\A r \in confirmed : DurableAt(r, lsnOf[r]) =>
          DurableAt(r, lsnOf[r])' \/ lsnOf[r] < segs'[1].base]_vars

\* Replay gives every record the LSN it was appended with: segments follow one
\* another without a gap, and only the last one may end in a torn record.
ReplayInOrder ==
    ~damaged =>
        \A k \in 1..Len(segs) :
            LET s == segs[k]
            IN /\ \A i \in 1..ValidLen(s.recs) : lsnOf[s.recs[i]] = s.base + i - 1
               /\ k < Len(segs) =>
                    /\ ValidLen(s.recs) = Len(s.recs)
                    /\ s.synced = Len(s.recs)
                    /\ segs[k + 1].base = s.base + Len(s.recs)

\* A caller waiting in commit is in the queue or in the batch being flushed,
\* and a flushLoop is there to serve it.
NoLostWaiter ==
    \A p \in Procs :
        pc[p] = "wait" => /\ p \in waiters \cup batch
                          /\ running /\ pc[Flusher] # "off"

\* Every caller inside commit, AppendSync or a rotation gets out again.
CallersReturn == \A p \in Procs : (pc[p] # "idle") ~> (pc[p] = "idle")

=============================================================================
