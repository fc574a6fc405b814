------------------------------ MODULE JobQueue ------------------------------
(***************************************************************************)
(* What the store promises its clients, whatever happens to the broker:    *)
(* the answers they may be given, and in which order.  There is no crash   *)
(* here and no log: a restart is not an answer, so it may undo none.       *)
(***************************************************************************)
EXTENDS Naturals, Sequences

CONSTANT Jobs

VARIABLES
    accepted,   \* jobs whose Submit was answered with success
    issued,     \* the leases handed out, in order: [job, epoch]
    acks,       \* leases whose Ack was answered "accepted"
    nacks       \* leases whose Nack was answered "accepted"

queueVars == <<accepted, issued, acks, nacks>>

QueueInit ==
    /\ accepted = {}
    /\ issued = <<>>
    /\ acks = {}
    /\ nacks = {}

Accept(j) ==
    /\ accepted' = accepted \cup {j}
    /\ UNCHANGED <<issued, acks, nacks>>

\* A lease of a job nobody has completed, under a token above all earlier ones.
Grant(g) ==
    /\ \A h \in acks : h.job # g.job
    /\ \A i \in DOMAIN issued : issued[i].epoch < g.epoch
    /\ issued' = Append(issued, g)
    /\ UNCHANGED <<accepted, acks, nacks>>

\* The i-th lease completes its job: it is the newest one of that job, and
\* neither failed nor completed before.
Complete(i) ==
    /\ issued[i] \notin acks \cup nacks
    /\ \A k \in DOMAIN issued : issued[k].job = issued[i].job => k <= i
    /\ acks' = acks \cup {issued[i]}
    /\ UNCHANGED <<accepted, issued, nacks>>

\* The i-th lease fails.  The answer may be late: the job may have been handed
\* out again, and even completed, before it.
Fail(i) ==
    /\ issued[i] \notin acks \cup nacks
    /\ nacks' = nacks \cup {issued[i]}
    /\ UNCHANGED <<accepted, issued, acks>>

QueueNext ==
    \/ \E j \in Jobs : Accept(j)
    \/ \E i \in DOMAIN issued' : issued'[i] \in [job : Jobs, epoch : Nat] /\ Grant(issued'[i])
    \/ \E i \in DOMAIN issued : Complete(i) \/ Fail(i)

QueueSpec == QueueInit /\ [][QueueNext]_queueVars

=============================================================================
