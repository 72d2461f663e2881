----------------------------- MODULE MCDispatch -----------------------------
(* Heaps of two blocks of two slots: one archetype has a full heap and one  *)
(* with a complete and an incomplete block, the other fills just a block.   *)
(* There are three behaviours; the query of the second has no tags, and the *)
(* third is for the other archetype.                                        *)
EXTENDS Dispatch

CONSTANTS x, y, t, d

MCLayouts ==
  {[a \in {x, y} |-> IF a = x THEN [heap_count |-> 2, last_heap_len |-> 3]
                              ELSE [heap_count |-> 1, last_heap_len |-> 2]]}
MCStuckable == {<<x, 0, 1>>, <<x, 1, 2>>}
MCPrompts == {<<x, 1, 0>>}
MCKinds == {<<{}, {d}>>, <<{d}, {}>>, <<{d}, {d}>>}
MCMerged == {<<{}, {d}>>}
MCHandles == [k \in 1 .. MaxBehaviors |-> t]
MCWants == [k \in 1 .. MaxBehaviors |-> IF k = 3 THEN {y} ELSE Archetype]
MCTagless == {2}
MCQueryKey == 1 .. MaxBehaviors
=============================================================================
