--------------------------- MODULE MCSlotStorage ----------------------------
(* Three entities, blocks of two slots and two columns of one.             *)
EXTENDS SlotStorage, TLC

CONSTANTS e1, e2, e3, k, l

MCOwner == {e1, e2, e3}
MCColumn == {k, l}
MCHeapId == Ptr \cup MCColumn
MCHeapLen == [h \in MCHeapId |-> IF h \in MCColumn THEN 1 ELSE 2]
Symmetry == Permutations(MCOwner) \cup Permutations(MCColumn)
=============================================================================
