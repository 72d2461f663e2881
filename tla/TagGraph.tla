------------------------------ MODULE TagGraph ------------------------------
(***************************************************************************)
(* What a SetMap promises: a collection of sets, at first only the empty   *)
(* one, in which a set is found or created from one it differs from by one *)
(* key, and the pairs of neighbours which were looked up and still exist.  *)
(* Database uses the archetype map through exactly these changes.          *)
(***************************************************************************)
CONSTANT Key

VARIABLES
  sets,   \* the sets which exist
  edges   \* <<S, k>>: the way between S and S \cup {k} is cached

vars == <<sets, edges>>

Init ==
  /\ sets = {{}}
  /\ edges = {}

Extend(S, k) ==
  /\ S \in sets
  /\ sets' = sets \cup {S \cup {k}}
  /\ edges' = IF k \in S THEN edges ELSE edges \cup {<<S, k>>}

Shrink(S, k) ==
  /\ S \in sets
  /\ sets' = sets \cup {S \ {k}}
  /\ edges' = IF k \in S THEN edges \cup {<<S \ {k}, k>>} ELSE edges

Remove(S) ==
  /\ S \in sets \ {{}}
  /\ sets' = sets \ {S}
  /\ edges' = {edge \in edges : edge[1] # S /\ edge[1] \cup {edge[2]} # S}

Next ==
  \E S \in sets : \/ \E k \in Key : Extend(S, k) \/ Shrink(S, k)
                  \/ Remove(S)

Spec == Init /\ [][Next]_vars

=============================================================================
