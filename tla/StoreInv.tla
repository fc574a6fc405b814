------------------------------ MODULE StoreInv ------------------------------
(***************************************************************************)
(* The inductive invariant behind the theorems about Store, on a disk      *)
(* whose failed fsync leaves the pages in memory (DropsPages = FALSE).     *)
(*                                                                         *)
(* A crash may cut the log anywhere from `stable' to its end, so whatever  *)
(* must survive is stated of EVERY image[n] in that range, and of the      *)
(* records a waiting caller depends on from its own LSN to the end.        *)
(***************************************************************************)
EXTENDS Store

\* What a crash may leave of the log.
Cuts == stable..Len(log)

\* Every successful flush made its records durable.
Healthy == dropped = FALSE /\ reported = stable

\* s.mu has one holder, and a sweep in progress is over leased jobs.
LockInv ==
    /\ reserving = None \/ sweeper = None
    /\ sweeper = None => sweep = {}
    /\ reserving # None => reserving \in Jobs /\ Leasable(mem.jobs[reserving])
    /\ \A j \in sweep : mem.jobs[j].state = "Leased"

\* The record of a reservation under way is the last word on the ceiling.
ReservationInv ==
    reserving # None /\ nextEpoch > mem.reserved
        => image[Len(log)].reserved = nextEpoch + EpochBlockSize - 1

\* Tokens handed out are below nextEpoch and below the ceiling that any crash
\* would leave, and while tokens remain in the block the block is durable.
TokenInv ==
    /\ \A i \in DOMAIN issued : issued[i].epoch < nextEpoch
    /\ \A n \in Cuts, i \in DOMAIN issued : issued[i].epoch <= image[n].reserved
    /\ nextEpoch <= mem.reserved => \A n \in Cuts : mem.reserved <= image[n].reserved
    /\ ReservationInv

Has(m, j) == m.jobs[j].state # "Absent"
IsDone(m, j) == m.jobs[j].state = "Done"

\* A call waiting for the flush of its record.
Pending(p, o) == calls[p].op = o

\* An accepted job, and a submitted one from its record on, is kept.
AcceptedInv ==
    /\ \A j \in accepted : Has(mem, j) /\ \A n \in Cuts : Has(image[n], j)
    /\ \A p \in Procs : Pending(p, "submit") =>
         /\ calls[p].lsn <= Len(log)
         /\ Has(mem, calls[p].job)
         /\ \A n \in calls[p].lsn..Len(log) : Has(image[n], calls[p].job)

\* Job IDs are drawn before they are used.
UsedInv ==
    /\ \A j \in Jobs : Has(mem, j) => j \in used
    /\ \A j \in Jobs, n \in 0..Len(log) : Has(image[n], j) => j \in used

\* An acked job, and one being acked from its record on, is done.
DoneInv ==
    /\ \A g \in acks : IsDone(mem, g.job) /\ \A n \in Cuts : IsDone(image[n], g.job)
    /\ \A p \in Procs : Pending(p, "ack") =>
         /\ calls[p].lsn <= Len(log)
         /\ IsDone(mem, calls[p].job)
         /\ \A n \in calls[p].lsn..Len(log) : IsDone(image[n], calls[p].job)

\* What answered requests rest on.  It implies AcceptedSurvive,
\* CompletedStayDone and, with itself, TokensIncrease.
Durable ==
    /\ Healthy
    /\ LeasedSetExact
    /\ LockInv
    /\ TokenInv
    /\ TokensIncrease
    /\ UsedInv
    /\ AcceptedInv
    /\ DoneInv

-----------------------------------------------------------------------------
(* What holds on any disk *)

\* A job of the running store and the same job of the replayed log: they may
\* differ in a lease that recovery released.
SameJob(r, s) == r = s \/ r = Released(s)

\* Replay and the running store stay in step.  Stronger than ReplayAgrees: a
\* job on lease is on lease in the log too.
RebuildInv ==
    /\ LogReplays
    /\ \A j \in Jobs : SameJob(mem.jobs[j], image[Len(log)].jobs[j])
    /\ image[Len(log)].idem = mem.idem
    /\ image[Len(log)].reserved >= mem.reserved
    /\ ReservationInv

\* The idempotency map leads from the key of every job to that job.
KeysFiled(m) == \A j \in Jobs : m.jobs[j].key # None => m.idem[m.jobs[j].key] = j

\* The attempts a job is charged with are within the budget and one more for each
\* restart so far, with one to spare while the job waits for a delivery.
Budgeted(m) ==
    \A j \in Jobs :
        /\ m.jobs[j].attempt <= m.jobs[j].maxRetries + 1 + crashes
        /\ Leasable(m.jobs[j]) => m.jobs[j].attempt <= m.jobs[j].maxRetries + crashes

\* Both hold of the memory and of whatever a crash may bring back.
KeysInv   == KeysFiled(mem) /\ \A n \in 0..Len(log) : KeysFiled(image[n])
BudgetInv == Budgeted(mem) /\ \A n \in 0..Len(log) : Budgeted(image[n])

OnAnyDisk == RebuildInv /\ KeysInv /\ BudgetInv /\ NoneStranded

-----------------------------------------------------------------------------
(* Verdicts *)

\* Job g.job was completed under lease g.
CompletedBy(m, g) == IsDone(m, g.job) /\ m.jobs[g.job].epoch = g.epoch

\* Lease g can neither pass holdsLease nor have completed its job.
Spent(m, g) == ~(m.jobs[g.job].state \in {"Leased", "Done"} /\ m.jobs[g.job].epoch = g.epoch)

\* The lease a waiting Ack or Nack is about.
LeaseOf(p) == [job |-> calls[p].job, epoch |-> calls[p].epoch]

\* No lease of g.job was issued after g.
Newest(g) ==
    \A i, k \in DOMAIN issued : issued[i] = g /\ issued[k].job = g.job => k <= i

\* An accepted Ack settled its job under its own lease, an accepted Nack spent
\* its lease, and so it is for those that wait, from their record on.
VerdictInv ==
    /\ \A g \in acks : /\ CompletedBy(mem, g)
                       /\ \A n \in Cuts : CompletedBy(image[n], g)
    /\ \A g \in nacks : /\ g \in Grants
                        /\ Spent(mem, g)
                        /\ \A n \in Cuts : Spent(image[n], g)
    /\ \A p \in Procs : Pending(p, "ack") =>
         /\ LeaseOf(p) \in Grants
         /\ Newest(LeaseOf(p))
         /\ CompletedBy(mem, LeaseOf(p))
         /\ \A n \in calls[p].lsn..Len(log) : CompletedBy(image[n], LeaseOf(p))
    /\ \A p \in Procs : Pending(p, "nack") =>
         /\ calls[p].lsn <= Len(log)
         /\ LeaseOf(p) \in Grants
         /\ Spent(mem, LeaseOf(p))
         /\ \A n \in calls[p].lsn..Len(log) : Spent(image[n], LeaseOf(p))

\* The whole of it.
Inductive == Durable /\ OnAnyDisk /\ OnlyNewestLeaseHolds /\ VerdictInv

=============================================================================
