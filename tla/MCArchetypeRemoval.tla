------------------------- MODULE MCArchetypeRemoval -------------------------
(* Every graph over three tags, and every choice of archetypes in use.     *)
EXTENDS ArchetypeRemoval, TLC

CONSTANTS a, b, c

MCTag == {a, b, c}
MCSymmetry == Permutations(MCTag)
=============================================================================
