---------------------------- MODULE MCZlibTrace ----------------------------
(* ZlibTrace with threads that only their names tell apart. *)
EXTENDS ZlibTrace, TLC

Symmetry == Permutations(Thread)

=============================================================================
