-------------------------- MODULE MCStoreSnapshot --------------------------
(* StoreSnapshot on a small instance. *)
EXTENDS StoreSnapshot, TLC

MCRequests == {[key |-> None, maxRetries |-> 0]}

Symmetry == Permutations(Jobs)

=============================================================================
