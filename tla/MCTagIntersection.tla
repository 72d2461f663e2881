-------------------------- MODULE MCTagIntersection --------------------------
(* Three tags and three arena indices, which are reused.                   *)
EXTENDS TagIntersection

MCIndex == 1 .. 3
=============================================================================
