----------------------------- MODULE EventGroup -----------------------------
(***************************************************************************)
(* EventGroup and VecEventList (src/src/event.rs), as operators on the     *)
(* value of a group: for each event type a list of events, the position    *)
(* up to which each query has taken them, and the entities handed over.    *)
(* A list not created yet is an empty one here: reading either finds       *)
(* nothing.  Events are numbered by whoever fires them.                    *)
(***************************************************************************)
EXTENDS Naturals, Sequences

CONSTANTS
  EventType,
  QueryKey      \* the places in the program which query events

EmptyList == [events |-> <<>>, process_list |-> [k \in QueryKey |-> 0], owned |-> {}]

EmptyGroup == [version |-> 0, events |-> [t \in EventType |-> EmptyList]]

fire(g, t, event) ==
  [g EXCEPT !.version = @ + 1, !.events[t].events = Append(@, event)]

\* The list keeps the entity alive until it is cleared.
fire_owned(g, t, event, entity) ==
  [fire(g, t, event) EXCEPT !.events[t].owned = @ \cup {entity}]

\* "we don't update the version here": a clear adds no events.
clear(g) == [g EXCEPT !.events = [t \in EventType |-> EmptyList]]

\* Mutant: any list ever written to is taken to be new.
UpdatedAtAll(g, old) == g.version > 0

has_updated_since(g, old) == g.version # old

\* Mutant: events are marked as taken one too far.
TakenTooFar(g, t, k) ==
  [g EXCEPT !.events[t].process_list[k] = Len(g.events[t].events) + 1]

\* drive_query takes all events there are at its start.
Taken(g, t, k) ==
  [g EXCEPT !.events[t].process_list[k] = Len(g.events[t].events)]

\* The events it goes through.
Untaken(g, t, k) ==
  LET list == g.events[t]
  IN SubSeq(list.events, list.process_list[k] + 1, Len(list.events))

Owned(g) == UNION {g.events[t].owned : t \in EventType}
=============================================================================
