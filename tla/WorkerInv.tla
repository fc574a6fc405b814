----------------------------- MODULE WorkerInv ------------------------------
(***************************************************************************)
(* The inductive invariant behind the theorems about Dispatcher and Worker. *)
(*                                                                         *)
(* A slot is counted in inFlight, its job is named in owner, and the lease *)
(* is in the store: three tables that Ack, Nack, the sweep and a broken    *)
(* stream change at different times.  The invariant says which of them may *)
(* be ahead of which, and what is on its way to close the gap.             *)
(***************************************************************************)
EXTENDS Worker

\* The loop has a lease that no channel has taken yet.
InHand == loop.pc \in {"own", "send"}

\* Job j is leased, and the lease has no slot yet.
Unslotted(j) == loop.pc = "own" /\ job[j].epoch = Held

Leased(j) == job[j].state = "Leased"

Owned(s) == {j \in Jobs : owner[j] = s}

\* A job that may be delivered again has an attempt left.
AttemptInv ==
    \A j \in Jobs : job[j].state \in {"Absent", "Ready", "Waiting"} => job[j].attempt <= MaxRetries[j]

\* The token of a leased job was issued for that job.
LeaseInv == \A j \in Jobs : Leased(j) => job[j].epoch \in Tokens /\ leases[job[j].epoch].job = j

\* The lease in the loop's hands is valid and nobody else knows of it, and the
\* stream it is for keeps the room that was found.
HandInv ==
    /\ InHand => /\ Held # 0
                 /\ Current(Held)
                 /\ Held \notin running \cup calls
                 /\ \A s \in Streams : \A i \in DOMAIN ch[s] : ch[s][i] # Held
    /\ loop.pc = "own" => inFlight[WorkerOf(Held)] < MaxInFlight

\* A channel holds leases of its own stream, each once.
ChannelInv ==
    \A s \in Streams : \A i \in DOMAIN ch[s] :
        /\ WorkerOf(ch[s][i]) = s
        /\ \A k \in DOMAIN ch[s] : ch[s][i] = ch[s][k] => i = k

\* What a sweep took back is not leased again before the sweep has released it.
SweepInv ==
    /\ loop.ids # {} => loop.pc = "release"
    /\ \A j \in loop.ids : ~Leased(j)

\* A job whose last call is still to be released is not on lease with a slot.
CallsInv ==
    ~overtaken => \A e \in calls : Leased(leases[e].job) => Unslotted(leases[e].job)

\* No stream owns more jobs than it has slots in use.
OwnedInv ==
    \A s \in Streams : IsFiniteSet(Owned(s)) /\ Cardinality(Owned(s)) <= inFlight[s]

\* The job of a valid lease is recorded as its stream's.
OwnerInv ==
    ~overtaken => \A j \in Jobs :
        Leased(j) /\ ~Unslotted(j) /\ ~CtxDone(WorkerOf(job[j].epoch))
            => owner[j] = WorkerOf(job[j].epoch)

\* What is recorded as a stream's is leased to it or will be released, and the
\* slots of a stream whose context is not done are just those.
SlotInv ==
    ~overtaken /\ ~failed =>
        /\ \A j \in Jobs : owner[j] # None =>
              \/ Leased(j) /\ ~Unslotted(j) /\ WorkerOf(job[j].epoch) = owner[j]
              \/ ReleaseDue(j)
        /\ \A s \in Streams : ~CtxDone(s) => inFlight[s] = Cardinality(Owned(s))

\* The store, the channels, the calls and the two tables of the dispatcher agree
\* as far as no call or sweep is under way between them.
Tables ==
    /\ LeaseInv /\ HandInv /\ ChannelInv /\ SweepInv
    /\ CallsInv /\ OwnedInv /\ OwnerInv /\ SlotInv

\* What the proofs need besides the shape of the state, kept by every step of
\* the loop, the handlers and the workers.
Slots == AttemptInv /\ Tables

=============================================================================
