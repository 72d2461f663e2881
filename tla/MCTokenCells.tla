---------------------------- MODULE MCTokenCells ----------------------------
(* TokenCells on small instances. *)
EXTENDS TokenCells, TLC

Symmetry == Permutations(Thread)
=============================================================================
