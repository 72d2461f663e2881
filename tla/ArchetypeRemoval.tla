-------------------------- MODULE ArchetypeRemoval --------------------------
(***************************************************************************)
(* rec_remove_stepping_stone_arches (src/src/database.rs) call by call:    *)
(* an archetype is removed and then, by a recursive call each, those it    *)
(* was an extension of which nothing else needs.  Database does this in    *)
(* one step, as the fixpoint SteppingStones.                               *)
(*                                                                         *)
(* "frames" is the call stack.  Between two outermost calls the archetype  *)
(* graph grows and entities come, in any way.                              *)
(***************************************************************************)
EXTENDS Database

CONSTANT MaxUsed  \* bound: archetypes in use at which no more get an entity

VARIABLES
  frames,   \* what each call has left of de_extensions, the innermost call last
  started   \* the graph and the argument of the outermost call, as it was made

callVars == <<frames, started>>
removalVars == <<vars, callVars>>

\* Outside of a call.
NotStarted == [ar |-> {}, ex |-> {}, cs |-> <<>>, of |-> Root]

RemovalInit == Init /\ frames = <<>> /\ started = NotStarted

-----------------------------------------------------------------------------
(* The archetypes change between the calls.                                *)

\* The virtual archetype of an entity is found, or created, over an edge.
AddEdge ==
  /\ frames = <<>>
  /\ \E S \in Arch : \E t \in Tag \ S :
       /\ S \in archs \/ S \cup {t} \in archs
       /\ ext' = ext \cup {<<S, t>>}
       /\ archs' = archs \cup {S, S \cup {t}}
  /\ containers' = [t \in Tag |-> {S \in archs' : t \in S}]
  /\ UNCHANGED <<entityVars, info, vcount, list, dirty, dead, queries, flushVars, callVars>>

\* An archetype gets an entity.
Occupy ==
  /\ frames = <<>>
  /\ Cardinality({S \in archs : vcount[S] > 0}) < MaxUsed
  /\ \E S \in archs \ {Root} : vcount' = [vcount EXCEPT ![S] = 1]
  /\ UNCHANGED <<entityVars, info, graphVars, list, dirty, dead, queries, flushVars, callVars>>

-----------------------------------------------------------------------------
(* The recursion.                                                          *)

\* Its de_extensions: the archetypes which cache an edge to S.
DeExtensions(ex, S) == {edge[1] : edge \in {d \in ex : d[1] \cup {d[2]} = S}}

\* Mutant: the archetypes S was an extension of still have it as one.
UnlinkedOneWay(ex, S) == {edge \in ex : edge[1] # S}

\* SetMap::remove drops the edges from S and those which lead to it.
Unlinked(ex, S) == {edge \in ex : edge[1] # S /\ edge[1] \cup {edge[2]} # S}

\* Mutant: the whole entry of each of its tags goes.
UnregisteredAll(cs, S) == [t \in Tag |-> IF t \in S THEN {} ELSE cs[t]]

\* The containers of its tags no longer hold S.
Unregistered(cs, S) == [t \in Tag |-> cs[t] \ {S}]

\* A call removes S and has its de_extensions to look at next; fs are the calls
\* around it.  It panics, and there is no such step, if a tag of S has no entry.
RecRemove(S, fs) ==
  /\ \A t \in S : containers[t] # {}
  /\ archs' = archs \ {S}
  /\ ext' = Unlinked(ext, S)
  /\ containers' = Unregistered(containers, S)
  /\ frames' = Append(fs, DeExtensions(ext, S))
  /\ UNCHANGED <<entityVars, info, vcount, list, dirty, dead, queries, flushVars>>

\* The outermost call.  All callers ask can_remove_archetype first.
Call(S) ==
  /\ frames = <<>>
  /\ S \in archs
  /\ CanRemoveArchetype(ext, vcount, list, S)
  /\ started' = [ar |-> archs, ex |-> ext, cs |-> containers, of |-> S]
  /\ RecRemove(S, <<>>)

\* The calls once the innermost one is through with src.
Past(src) == Append(Front(frames), Last(frames) \ {src})

\* The hash map is iterated over in an arbitrary order.  The arena panics on an
\* archetype which is gone, and there is no such step.
Visits(src) ==
  /\ frames # <<>>
  /\ src \in Last(frames)
  /\ src \in archs

Recurse(src) ==
  /\ Visits(src)
  /\ CanRemoveArchetype(ext, vcount, list, src)
  /\ RecRemove(src, Past(src))
  /\ UNCHANGED started

KeepStone(src) ==
  /\ Visits(src)
  /\ ~CanRemoveArchetype(ext, vcount, list, src)
  /\ frames' = Past(src)
  /\ UNCHANGED <<vars, started>>

Return ==
  /\ frames # <<>>
  /\ Last(frames) = {}
  /\ frames' = Front(frames)
  /\ started' = IF Len(frames) = 1 THEN NotStarted ELSE started
  /\ UNCHANGED vars

RemovalNext ==
  \/ AddEdge
  \/ Occupy
  \/ \E S \in archs : Call(S)
  \/ \E src \in Arch : Recurse(src)
  \/ \E src \in Arch : KeepStone(src)
  \/ Return

RemovalSpec == RemovalInit /\ [][RemovalNext]_removalVars

-----------------------------------------------------------------------------
(* Properties.                                                             *)

\* The recursion does what Database says in one step: when the outermost call
\* is about to return, the archetypes of the fixpoint are gone and no others,
\* with their edges and from the containers, whatever the order of the maps.
RemovalAsCoded ==
  frames = <<{}>> =>
    LET gone == SteppingStones(started.ar, started.ex, vcount, list, started.of)
    IN /\ archs = started.ar \ gone
       /\ ext = {e \in started.ex : e[1] \notin gone /\ e[1] \cup {e[2]} \notin gone}
       /\ containers = [t \in Tag |-> started.cs[t] \ gone]

\* No call meets an archetype which an inner call has removed, which the arena
\* would panic on, nor a tag whose entry is gone ("unreachable!()").
NeverStale ==
  /\ \A i \in DOMAIN frames : frames[i] \subseteq archs
  /\ \A S \in archs : \A t \in S : S \in containers[t]
=============================================================================
