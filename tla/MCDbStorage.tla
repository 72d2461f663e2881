---------------------------- MODULE MCDbStorage -----------------------------
(* Small instances of DbStorage: of the two tags, one manages the type.      *)
EXTENDS DbStorage, TLC

CONSTANTS e1, e2, e3, m, t

MCEntity == {e1, e2, e3}
MCTwoEntities == {e1, e2}
MCTag == {m, t}
MCManaging == {m}
MCSymmetry == Permutations(Entity)
=============================================================================
