------------------------------- MODULE MCWal -------------------------------
(* Wal on a small instance. *)
EXTENDS Wal

Symmetry == Permutations(Procs)

=============================================================================
