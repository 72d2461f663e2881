----------------------------- MODULE EntityTags -----------------------------
(***************************************************************************)
(* What the entity database promises, without archetypes.  An entity is    *)
(* alive or not, and carries the set of tags its owner asked for.  Queries *)
(* do not look at those tags: they look at "listed", the picture taken by  *)
(* the last flush, in which every entity that was alive at that moment     *)
(* sits under the tags it had at that moment (an entity with no tag is     *)
(* listed nowhere).  An entity destroyed since stays in the picture until  *)
(* the next flush, and no flush happens while a query is running.          *)
(***************************************************************************)
EXTENDS Naturals

CONSTANTS Entity, Tag, MaxQueries

VARIABLES
  spawned,  \* the ids handed out so far; an id is never handed out twice
  tags,     \* the tags of each alive entity
  alive,
  listed,   \* the picture queries look at: {} when the entity is not in it
  queries   \* how many queries are running

vars == <<spawned, tags, alive, listed, queries>>

Init ==
  /\ spawned = {}
  /\ alive = {}
  /\ tags = [e \in Entity |-> {}]
  /\ listed = [e \in Entity |-> {}]
  /\ queries = 0

Spawn(e) ==
  /\ e \notin spawned
  /\ spawned' = spawned \cup {e}
  /\ alive' = alive \cup {e}
  /\ UNCHANGED <<tags, listed, queries>>

Despawn(e) ==
  /\ e \in alive
  /\ alive' = alive \ {e}
  /\ tags' = [tags EXCEPT ![e] = {}]
  /\ UNCHANGED <<spawned, listed, queries>>

Retag(e) ==
  /\ e \in alive
  /\ \E t \in Tag : \/ tags' = [tags EXCEPT ![e] = @ \cup {t}]
                    \/ tags' = [tags EXCEPT ![e] = @ \ {t}]
  /\ UNCHANGED <<spawned, alive, listed, queries>>

BeginQuery ==
  /\ queries < MaxQueries
  /\ queries' = queries + 1
  /\ UNCHANGED <<spawned, tags, alive, listed>>

EndQuery ==
  /\ queries > 0
  /\ queries' = queries - 1
  /\ UNCHANGED <<spawned, tags, alive, listed>>

Flush ==
  /\ queries = 0
  /\ listed' = tags
  /\ UNCHANGED <<spawned, tags, alive, queries>>

Next ==
  \/ \E e \in Entity : Spawn(e) \/ Despawn(e) \/ Retag(e)
  \/ BeginQuery
  \/ EndQuery
  \/ Flush

Spec == Init /\ [][Next]_vars

=============================================================================
