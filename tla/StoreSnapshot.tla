--------------------------- MODULE StoreSnapshot ---------------------------
(***************************************************************************)
(* The store with snapshots (Store.Snapshot, loadLatestSnapshot,           *)
(* pruneSnapshots) and the truncation of the log that follows each one.    *)
(*                                                                         *)
(* Snapshot() reads lastLSN, the token ceiling and the job POINTERS under  *)
(* the read lock and marshals the jobs after releasing it, so every field  *)
(* of every job is read at some later moment.  Nothing flushes the log     *)
(* before, so the snapshot may account for records a crash will lose.      *)
(***************************************************************************)
EXTENDS Store

CONSTANTS
    SnapshotsKept,  \* how many snapshot files survive pruning
    MaxSnapshots,   \* bound: calls of Snapshot
    MaxUnreadable   \* bound: snapshot files that become unreadable

ASSUME SnapshotsKeptAssumption == SnapshotsKept \in Nat \ {0}
ASSUME SnapshotBoundsAssumption == {MaxSnapshots, MaxUnreadable} \subseteq Nat

VARIABLES
    files,      \* the snapshot files: [lsn, reserved, jobs, readable]
    snap,       \* the Snapshot call in progress
    truncated,  \* records 1..truncated were deleted with their segments
    down,       \* Open returned an error: the broker does not start
    ahead,      \* history: a recovery loaded a snapshot newer than the log
    gap,        \* history: a recovery fell back behind the truncated log
    fellBack,   \* the last recovery skipped an unreadable file for an older one
    snapshots   \* calls of Snapshot so far

snapVars == <<files, snap, truncated, down, ahead, gap, fellBack, snapshots>>
allVars  == <<vars, snapVars>>

Fields == {"state", "attempt", "epoch"}

NoSnap == [stage |-> "none", lsn |-> 0, reserved |-> 0, jobs |-> EmptyMem.jobs]

Intact == ~ahead /\ ~gap

-----------------------------------------------------------------------------
(* Snapshot *)

\* Mutant: the snapshot claims a record it does not contain.
SnapshotBeginOneAhead ==
    /\ ~down
    /\ MuFree
    /\ snap = NoSnap
    /\ snapshots < MaxSnapshots
    /\ snapshots' = snapshots + 1
    /\ snap' = [stage |-> "marshal", lsn |-> lastLSN + 1, reserved |-> mem.reserved,
                jobs |-> mem.jobs]
    /\ UNCHANGED <<vars, files, truncated, down, ahead, gap, fellBack>>

SnapshotBegin ==
    /\ ~down
    /\ MuFree
    /\ snap = NoSnap
    /\ snapshots < MaxSnapshots
    /\ snapshots' = snapshots + 1
    /\ snap' = [stage |-> "marshal", lsn |-> lastLSN, reserved |-> mem.reserved,
                jobs |-> mem.jobs]
    /\ UNCHANGED <<vars, files, truncated, down, ahead, gap, fellBack>>

\* json.Marshal reads field f of job j through the shared pointer, with no lock
\* held, after the job may have moved on.
SnapshotMarshal(j, f) ==
    /\ snap.stage = "marshal"
    /\ snap.jobs[j].state # "Absent"
    /\ snap' = [snap EXCEPT !.jobs[j][f] = mem.jobs[j][f]]
    /\ UNCHANGED <<vars, files, truncated, down, ahead, gap, fellBack, snapshots>>

\* The file is written and flushed under a temporary name and renamed over any
\* file of the same LSN.
SnapshotPublish ==
    /\ snap.stage = "marshal"
    /\ files' = {f \in files : f.lsn # snap.lsn}
                  \cup {[lsn |-> snap.lsn, reserved |-> snap.reserved,
                         jobs |-> snap.jobs, readable |-> TRUE]}
    /\ snap' = [snap EXCEPT !.stage = "truncate"]
    /\ UNCHANGED <<vars, truncated, down, ahead, gap, fellBack, snapshots>>

\* Mutant: the active segment goes too.
SnapshotTruncateActive ==
    /\ snap.stage = "truncate"
    /\ truncated' = snap.lsn
    /\ snap' = [snap EXCEPT !.stage = "prune"]
    /\ UNCHANGED <<vars, files, down, ahead, gap, fellBack, snapshots>>

\* TruncateBefore(lsn + 1) deletes whole segments below the LSN, never the
\* active one; the others were flushed when they were closed.
SnapshotTruncate ==
    /\ snap.stage = "truncate"
    /\ \E t \in truncated..stable :
         /\ t = truncated \/ t <= snap.lsn
         /\ truncated' = t
    /\ snap' = [snap EXCEPT !.stage = "prune"]
    /\ UNCHANGED <<vars, files, down, ahead, gap, fellBack, snapshots>>

\* Mutant: pruning keeps the oldest files.
SnapshotPruneKeepsOldest ==
    /\ snap.stage = "prune"
    /\ files' = {f \in files : Cardinality({g \in files : g.lsn < f.lsn}) < SnapshotsKept}
    /\ snap' = NoSnap
    /\ UNCHANGED <<vars, truncated, down, ahead, gap, fellBack, snapshots>>

SnapshotPrune ==
    /\ snap.stage = "prune"
    /\ files' = {f \in files : Cardinality({g \in files : g.lsn > f.lsn}) < SnapshotsKept}
    /\ snap' = NoSnap
    /\ UNCHANGED <<vars, truncated, down, ahead, gap, fellBack, snapshots>>

\* A file operation of Snapshot fails and the call returns; the ticker will
\* try again.
SnapshotFails ==
    /\ snap # NoSnap
    /\ snap' = NoSnap
    /\ UNCHANGED <<vars, files, truncated, down, ahead, gap, fellBack, snapshots>>

\* A snapshot file turns out to be unreadable.
SnapshotSpoils(f) ==
    /\ f.readable
    /\ Cardinality({g \in files : ~g.readable}) < MaxUnreadable
    /\ files' = (files \ {f}) \cup {[f EXCEPT !.readable = FALSE]}
    /\ UNCHANGED <<vars, snap, truncated, down, ahead, gap, fellBack, snapshots>>

-----------------------------------------------------------------------------
(* Recovery *)

\* loadLatestSnapshot: the readable file with the highest LSN, or nothing.
LoadLatest ==
    LET R == {f \in files : f.readable}
    IN IF R = {} THEN [lsn |-> 0, reserved |-> 0, jobs |-> EmptyMem.jobs]
       ELSE CHOOSE f \in R : \A g \in R : g.lsn <= f.lsn

\* Mutant: the token ceiling is not restored.
LoadedWithoutCeiling(f) ==
    [jobs |-> f.jobs,
     idem |-> [k \in Keys |-> None],
     leased |-> {j \in Jobs : f.jobs[j].state = "Leased"},
     reserved |-> 0]

\* The idempotency map and the leased set are derived from the loaded jobs.
Loaded(f) ==
    [jobs |-> f.jobs,
     idem |-> [k \in Keys |-> IF \E j \in Jobs : f.jobs[j].key = k
                              THEN CHOOSE j \in Jobs : f.jobs[j].key = k
                              ELSE None],
     leased |-> {j \in Jobs : f.jobs[j].state = "Leased"},
     reserved |-> f.reserved]

\* apply refuses a transition of a job it does not know, and replay stops.
ApplyChecked(r, e) ==
    IF r.ok /\ (e.type \in {"submit", "reserve"} \/ r.mem.jobs[e.job].state # "Absent")
    THEN [ok |-> TRUE, mem |-> Apply(r.mem, e)]
    ELSE [ok |-> FALSE, mem |-> r.mem]

\* Replay(lo + 1) on top of snapshot f: the records after lo, up to the last.
Replayed(f, lo, n) ==
    LET replay[i \in 0..n] ==
            IF i <= lo THEN [ok |-> TRUE, mem |-> Loaded(f)]
            ELSE ApplyChecked(replay[i - 1], log[i])
    IN replay[n]

\* Records up to here are in snapshot f or deleted.
ReplayStart(f) == IF f.lsn < truncated THEN truncated ELSE f.lsn

\* Mutant: Replay(lsn + 2).
ReplayFromSkipsOne(f, n) == Replayed(f, ReplayStart(f) + 1, n)

\* Replay(lsn + 1) over the records that are left.
ReplayFrom(f, n) == Replayed(f, ReplayStart(f), n)

CrashWithSnapshots(n) ==
    /\ crashes < MaxCrashes
    /\ crashes' = crashes + 1
    /\ LogCut(n)
    /\ LET f == LoadLatest
           r == ReplayFrom(f, n)
       IN /\ Open(r.mem)
          /\ lastLSN' = IF n > f.lsn THEN n ELSE f.lsn
          /\ down' = ~r.ok
          /\ ahead' = (ahead \/ f.lsn > n)
          /\ gap' = (gap \/ f.lsn < truncated)
          /\ fellBack' = (f \in files /\ \E g \in files : g.lsn > f.lsn)
    /\ snap' = NoSnap
    /\ UNCHANGED <<histVars, faults, files, truncated, snapshots>>

SnapInit ==
    /\ Init
    /\ files = {}
    /\ snap = NoSnap
    /\ truncated = 0
    /\ down = FALSE
    /\ ahead = FALSE
    /\ gap = FALSE
    /\ fellBack = FALSE
    /\ snapshots = 0

SnapNext ==
    \/ ~down /\ Live /\ UNCHANGED snapVars
    \/ SnapshotBegin
    \/ \E j \in Jobs, f \in Fields : SnapshotMarshal(j, f)
    \/ SnapshotPublish
    \/ SnapshotTruncate
    \/ SnapshotPrune
    \/ SnapshotFails
    \/ \E f \in files : SnapshotSpoils(f)
    \/ \E n \in 0..MaxLog : CrashWithSnapshots(n)
    \/ down /\ UNCHANGED allVars   \* started again, it fails the same way

SnapSpec == SnapInit /\ [][SnapNext]_allVars

-----------------------------------------------------------------------------
(* Properties *)

\* The shape of the snapshot files and of the Snapshot call in progress.
SnapTypeOK ==
    /\ TypeOK
    /\ files \in SUBSET [lsn : Nat, reserved : Nat, jobs : [Jobs -> JobRec],
                         readable : BOOLEAN]
    /\ snap \in [stage : {"none", "marshal", "truncate", "prune"}, lsn : Nat,
                 reserved : Nat, jobs : [Jobs -> JobRec]]
    /\ truncated \in 0..stable
    /\ {down, ahead, gap, fellBack} \subseteq BOOLEAN

\* As long as every recovery found the log reaching its snapshot, and the
\* snapshot reaching the truncated log, no accepted job and no accepted Ack is
\* lost, although snapshots are torn between moments and records are deleted.
NothingLost == Intact => AcceptedSurvive /\ CompletedStayDone

\* Under the same condition a snapshot never takes the token ceiling back.
TokensSurvive == Intact => TokensIncrease

\* Recovery only refuses to start when the snapshot and the log do not meet.
StartsUp == down => ~Intact

\* Records are deleted only once a snapshot that accounts for them is on disk.
TruncatedIsCovered == truncated > 0 => \E f \in files : f.lsn >= truncated

-----------------------------------------------------------------------------
(* What the code does not guarantee *)

\* An accepted job survives, whatever snapshots are taken and loaded.
AcceptedSurviveSnapshots == AcceptedSurvive

\* When the newest snapshot is unreadable and recovery falls back to the one
\* before it, the broker starts and has every accepted job.
FallbackRecovers == fellBack => ~down /\ AcceptedSurvive

=============================================================================
