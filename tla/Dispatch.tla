------------------------------ MODULE Dispatch ------------------------------
(***************************************************************************)
(* The frame of a program: a query fires events, and a recursive drain     *)
(* (drain_recursive_breakable in src/src/event.rs) gives them to a list    *)
(* of behaviours, which fire more.  Composes QueryIteration, EventGroup    *)
(* and OrderedBehaviors.                                                   *)
(*                                                                         *)
(* Each behaviour runs one event query, for entities of certain archetypes *)
(* (run_driven_query in src/src/query.rs).  Its body may fire another event *)
(* of the same entity, destroy the entity, or break.  Behaviours pass a    *)
(* break on, so it ends the drain.  There is no flush between two frames:  *)
(* a place is its entity.                                                  *)
(***************************************************************************)
EXTENDS QueryIteration, EventGroup, OrderedBehaviors

CONSTANTS
  Prompts,      \* the places of the entities for which the query's body may fire
  Kinds,        \* the behaviours pushed: what they depend on, what they resolve
  Merged,       \* the same of behaviours in lists to be merged
  Handles,      \* the event type which the behaviour at each place of the list queries
  Wants,        \* the archetypes in the intersection of its tags
  Tagless,      \* the behaviours whose query has no tags: every entity will do
  MaxEvents,    \* bound: events fired before a clear
  MaxFrames     \* bound: frames

ASSUME DispatchAssumption ==
  /\ MaxBehaviors \in Nat /\ MaxEvents \in Nat
  /\ QueryKey = 1 .. MaxBehaviors
  /\ Kinds \cup Merged \subseteq (SUBSET Dependency) \X (SUBSET Dependency)
  /\ Handles \in [QueryKey -> EventType]
  /\ Wants \in [QueryKey -> SUBSET Archetype]
  /\ Tagless \subseteq QueryKey
  /\ \A k \in Tagless : Wants[k] = Archetype

VARIABLES
  group,      \* the primary and the secondary group of an EventSwapper
  alive,      \* the entities not destroyed
  drain,      \* the drain under way: see Drain
  frames,     \* frames finished
  fired,      \* history: since the last clear, type and target of the events fired,
  handled,    \* how often each behaviour's body was called for each, and
  broken      \* whether a drain was broken off

dispatchVars == <<queryVars, behaviorVars, group, alive, drain, frames, fired, handled, broken>>
eventVars == <<group, alive, fired, handled>>

Side == {"primary", "secondary"}
Other(side) == CHOOSE other \in Side : other # side

\* Which call of the closure it is in, reading which group; the versions noted;
\* the behaviours left in this call; the last one run, and its events left.
Drain(stage, reader, seen, left) ==
  [stage |-> stage, reader |-> reader, seen |-> seen, left |-> left,
   running |-> 0, events |-> <<>>]

NoDrain == Drain("none", "primary", [side \in Side |-> 0], <<>>)

Init ==
  /\ QueryInit
  /\ BehaviorsInit
  /\ group = [side \in Side |-> EmptyGroup]
  /\ alive = Occupied(info)
  /\ drain = NoDrain
  /\ frames = 0
  /\ fired = <<>>
  /\ handled = [k \in QueryKey |-> [n \in 1 .. MaxEvents |-> 0]]
  /\ broken = FALSE

-----------------------------------------------------------------------------
(* What bodies do.                                                         *)

Firing(side, t, entity, fires) ==
  /\ Len(fired) < MaxEvents
  /\ fired' = Append(fired, [type |-> t, target |-> entity])
  /\ group' = [group EXCEPT ![side] = fires]
  /\ UNCHANGED <<alive, stuck>>

Fire(side, entity) ==
  \E t \in EventType : Firing(side, t, entity, fire(group[side], t, Len(fired) + 1))

\* The query's body has the owner of the entity at hand.
FireOwned(side, entity) ==
  /\ entity \notin Owned(group["primary"]) \cup Owned(group["secondary"])
  /\ \E t \in EventType :
       Firing(side, t, entity, fire_owned(group[side], t, Len(fired) + 1, entity))

\* The owner of an entity which no event list owns lets it go, and with it its
\* component.
Destroy(entity) ==
  /\ entity \in alive \ (Owned(group["primary"]) \cup Owned(group["secondary"]))
  /\ alive' = alive \ {entity}
  /\ stuck' = stuck \cup {entity}
  /\ UNCHANGED <<group, fired>>

Body(side, entity) ==
  \/ UNCHANGED <<group, fired, alive, stuck>>
  \/ Fire(side, entity)
  \/ Destroy(entity)

-----------------------------------------------------------------------------
(* The query of the frame.                                                 *)

VisitEntity ==
  \E p \in Place, breaks \in BOOLEAN :
    /\ Visit(p, breaks)
    /\ \/ UNCHANGED <<group, fired, alive>>
       \/ p \in Prompts /\ (Fire("primary", p) \/ FireOwned("primary", p))
    /\ UNCHANGED handled

QueryStep ==
  /\ drain = NoDrain
  /\ \/ (QueryBegin \/ EnterBlock \/ BorrowPanics \/ QueryEnd) /\ UNCHANGED eventVars
     \/ VisitEntity
  /\ UNCHANGED <<behaviorVars, drain, frames, broken>>

-----------------------------------------------------------------------------
(* The drain.                                                              *)

InDrain == drain.stage \in {"first", "second", "loop"}

Called == drain.events = <<>> /\ drain.left = <<>>

BeginDrain ==
  /\ drain = NoDrain
  /\ QueryReturned
  /\ drain' = [NoDrain EXCEPT !.stage = "drive"]
  /\ UNCHANGED <<behaviorVars, eventVars, frames, broken>>

\* Lists grow while nothing drives them: here, between the query and the drain.
Register ==
  /\ drain.stage = "drive" /\ sort = NoSort
  /\ \/ \E kind \in Kinds : Push(kind[1], kind[2])
     \/ \E kind \in Merged : Extend(kind[1], kind[2])
  /\ UNCHANGED <<queryVars, eventVars, drain, frames, broken>>

\* The first drive of the list since it changed.
Sort ==
  /\ drain.stage = "drive"
  /\ SortStep
  /\ UNCHANGED <<queryVars, eventVars, drain, frames, broken>>

FirstCall ==
  /\ drain.stage = "drive"
  /\ behaviors_topos # NoOrder
  /\ drain' = Drain("first", "primary", drain.seen, behaviors_topos)
  /\ UNCHANGED <<queryVars, behaviorVars, eventVars, frames, broken>>

\* The event query of the next behaviour begins.
RunBehavior ==
  /\ InDrain /\ drain.events = <<>> /\ drain.left # <<>>
  /\ LET k == Head(drain.left)
         type == Handles[k]
     IN /\ drain' = [drain EXCEPT !.left = Tail(@), !.running = k,
                                  !.events = Untaken(group[drain.reader], type, k)]
        /\ group' = [group EXCEPT ![drain.reader] = Taken(@, type, k)]
  /\ UNCHANGED <<queryVars, behaviorVars, alive, fired, handled, frames, broken>>

Target == fired[Head(drain.events)].target

\* A query without tags does not look where the entity is, nor whether it lives.
Resolved == Target \in alive \/ drain.running \in Tagless

\* "VecEventList has dead entity"
DeadTarget ==
  /\ InDrain /\ drain.events # <<>>
  /\ ~Resolved
  /\ drain' = [drain EXCEPT !.stage = "panic"]
  /\ UNCHANGED <<queryVars, behaviorVars, eventVars, frames, broken>>

SkipEvent ==
  /\ InDrain /\ drain.events # <<>>
  /\ Resolved /\ Target[1] \notin Wants[drain.running]
  /\ drain' = [drain EXCEPT !.events = Tail(@)]
  /\ UNCHANGED <<queryVars, behaviorVars, eventVars, frames, broken>>

HandleEvent ==
  /\ InDrain /\ drain.events # <<>>
  /\ Resolved /\ Target[1] \in Wants[drain.running]
  /\ handled' = [handled EXCEPT ![drain.running][Head(drain.events)] = @ + 1]
  /\ \/ /\ drain' = [drain EXCEPT !.events = Tail(@)]
        /\ Body(Other(drain.reader), Target)
        /\ UNCHANGED broken
     \/ /\ drain' = [drain EXCEPT !.stage = "broken"]
        /\ broken' = TRUE
        /\ UNCHANGED <<group, fired, alive, stuck>>
  /\ UNCHANGED <<info, todo, slots, path, visited, query, behaviorVars, frames>>

\* Mutant: the version is noted after the last call, not before.
VersionsLate(stage, seen) == [side \in Side |-> group[side].version]

\* "let primary_version = primary.version(); let secondary_version = ..."
Versions(stage, seen) ==
  IF stage = "first" THEN [side \in Side |-> group[side].version] ELSE seen

\* The closure has returned: once it has read both sides, the next to be read,
\* unless nothing was fired into it since it was read last.
NextCall ==
  /\ InDrain /\ Called
  /\ LET reader == Other(drain.reader)
         seen == Versions(drain.stage, drain.seen)
     IN drain' =
          IF drain.stage = "first" THEN Drain("second", reader, seen, behaviors_topos)
          ELSE IF has_updated_since(group[reader], seen[reader])
          THEN Drain("loop", reader, [seen EXCEPT ![reader] = group[reader].version],
                     behaviors_topos)
          ELSE Drain("done", reader, seen, <<>>)
  /\ UNCHANGED <<queryVars, behaviorVars, eventVars, frames, broken>>

DrainStep == BeginDrain \/ FirstCall \/ RunBehavior \/ DeadTarget \/ SkipEvent \/ HandleEvent
             \/ NextCall

-----------------------------------------------------------------------------
(* Between two frames.                                                     *)

NextFrame ==
  /\ drain.stage \in {"done", "broken"}
  /\ frames < MaxFrames
  /\ frames' = frames + 1
  /\ drain' = NoDrain
  /\ UNCHANGED <<info, todo, slots, path, visited, query, behaviorVars>>

KeepEvents == NextFrame /\ UNCHANGED <<stuck, eventVars, broken>>

\* The entities which the lists own die.
ClearEvents ==
  /\ NextFrame
  /\ LET owned == Owned(group["primary"]) \cup Owned(group["secondary"])
     IN alive' = alive \ owned /\ stuck' = stuck \cup owned
  /\ group' = [side \in Side |-> clear(group[side])]
  /\ fired' = <<>>
  /\ handled' = [k \in QueryKey |-> [n \in 1 .. MaxEvents |-> 0]]
  /\ broken' = FALSE

Step == QueryStep \/ Sort \/ DrainStep

Next == Step \/ Register \/ KeepEvents \/ ClearEvents

Spec == Init /\ [][Next]_dispatchVars

\* A frame which has begun goes on: all of it is one thread's code.
Begun == (query # "idle" \/ drain # NoDrain) /\ Step
FairSpec == Spec /\ WF_dispatchVars(Begun)

-----------------------------------------------------------------------------

\* The events behaviour k is to handle.
Meant(k) == {n \in DOMAIN fired : /\ fired[n].type = Handles[k]
                                  /\ fired[n].target[1] \in Wants[k]}

\* No behaviour handles an event twice, in however many rounds, drains and
\* frames the lists are gone through before they are cleared; and a drain which
\* was not broken off leaves none unhandled, whether the query fired it or a
\* behaviour while the drain was under way.
HandledOnce ==
  \A k \in DOMAIN behaviors :
    /\ \A n \in 1 .. MaxEvents : handled[k][n] > 0 => handled[k][n] = 1 /\ n \in Meant(k)
    /\ drain.stage = "done" /\ ~broken /\ ~extended =>
         \A n \in Meant(k) : handled[k][n] = 1

\* A frame ends, if its behaviours do not fire events for ever.
FrameEnds ==
  query = "running" ~> \/ query = "panic" \/ sort.state = "panic"
                       \/ drain.stage \in {"done", "broken", "panic"}
=============================================================================
