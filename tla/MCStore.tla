------------------------------ MODULE MCStore ------------------------------
(* Store on a small instance. *)
EXTENDS StoreInv, TLC

\* A submission with a key and one retry, and one without either.
MCRequests == {[key |-> k, maxRetries |-> 1] : k \in Keys} \cup {[key |-> None, maxRetries |-> 0]}

Symmetry == Permutations(Jobs) \cup Permutations(Procs)

=============================================================================
