----------------------------- MODULE MCDatabase -----------------------------
(* Small instances of Database: three entities and two tags, so that a list  *)
(* has two heaps (of one and two slots) and an archetype of two tags has two *)
(* stepping stones.                                                          *)
EXTENDS Database, TLC

CONSTANTS e1, e2, e3, a, b

MCEntity == {e1, e2, e3}
MCTwoEntities == {e1, e2}
MCTag == {a, b}
MCSymmetry == Permutations(MCEntity) \cup Permutations(MCTag)
=============================================================================
