------------------------------ MODULE MCSetMap ------------------------------
(* Small instances of SetMap.  Indices are interchangeable but the root's.   *)
EXTENDS SetMap, TLC

CONSTANTS r, p1, p2, p3, p4, a, b, c

MCPtr == {r, p1, p2, p3, p4}
MCKey == {a, b, c}
MCSymmetry == Permutations(MCPtr \ {r}) \cup Permutations(MCKey)
=============================================================================
