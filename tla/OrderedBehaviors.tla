-------------------------- MODULE OrderedBehaviors --------------------------
(***************************************************************************)
(* OrderedBehaviorList (src/src/behavior.rs): behaviours pushed with the   *)
(* dependencies they need and those they resolve, and the topological      *)
(* order computed by the first drive after that.  Which of the behaviours  *)
(* ready to run comes next depends on the order of hash sets in the code,  *)
(* and is left open here.                                                  *)
(***************************************************************************)
EXTENDS Naturals, SequencesExt

CONSTANTS
  Dependency,
  MaxBehaviors,    \* bound: behaviours of a list
  NoOrder          \* behaviors_topos, while it is not computed

ASSUME BehaviorAssumption == IsFiniteSet(Dependency)

VARIABLES
  behaviors,         \* seq of [dep_count, resolves], and "depends" (history)
  dependents_on,     \* per dependency, the behaviours which need it, and its resolvers
  behaviors_topos,
  sort,              \* the sort under way: its working copies, or the outcome
  extended           \* history: was a list merged into this one?

behaviorVars == <<behaviors, dependents_on, behaviors_topos, sort, extended>>

NoSort == [state |-> "none"]

BehaviorsInit ==
  /\ behaviors = <<>>
  /\ dependents_on = [d \in Dependency |-> [dependents |-> {}, resolvers |-> 0]]
  /\ behaviors_topos = NoOrder
  /\ sort = NoSort
  /\ extended = FALSE

OrderedBehavior(depends, resolves) ==
  [dep_count |-> Cardinality(depends), resolves |-> resolves, depends |-> depends]

\* Mutant: the order computed before is kept.
OrderKept(topos) == topos

\* Any push invalidates the order computed before.
Invalidated(topos) == NoOrder

Push(depends, resolves) ==
  /\ Len(behaviors) < MaxBehaviors
  /\ behaviors' = Append(behaviors, OrderedBehavior(depends, resolves))
  /\ dependents_on' = [d \in Dependency |->
       [dependents |-> dependents_on[d].dependents \cup
                         (IF d \in depends THEN {Len(behaviors) + 1} ELSE {}),
        resolvers |-> dependents_on[d].resolvers + (IF d \in resolves THEN 1 ELSE 0)]]
  /\ behaviors_topos' = Invalidated(behaviors_topos)
  /\ UNCHANGED <<sort, extended>>

\* extend and extend_ref, with a list of one behaviour: only it is taken over,
\* not the dependents_on of its list.
Extend(depends, resolves) ==
  /\ Len(behaviors) < MaxBehaviors
  /\ behaviors' = Append(behaviors, OrderedBehavior(depends, resolves))
  /\ extended' = TRUE
  /\ UNCHANGED <<dependents_on, behaviors_topos, sort>>

Known(d) == dependents_on[d].resolvers > 0 \/ dependents_on[d].dependents # {}

\* How many of the dependencies hold b up.
Blocked(b, deps) == Cardinality({d \in deps : b \in dependents_on[d].dependents})

SortBegin ==
  /\ behaviors_topos = NoOrder
  /\ sort = NoSort
  /\ LET free == {d \in Dependency : dependents_on[d].resolvers = 0}
         counts == [b \in DOMAIN behaviors |-> behaviors[b].dep_count - Blocked(b, free)]
     IN sort' = [state |-> "running",
                 behavior_counts |-> counts,
                 resolvers |-> [d \in Dependency |-> dependents_on[d].resolvers],
                 ready |-> {b \in DOMAIN behaviors : counts[b] = 0},
                 toposorted |-> <<>>]
  /\ UNCHANGED <<behaviors, dependents_on, behaviors_topos, extended>>

\* One behaviour is ready no more, and those waiting for what it resolves may be.
\* The unwrap of an unknown dependency panics, and so does a count below zero
\* where overflow is checked.
Propagate(b) ==
  /\ sort.state = "running"
  /\ b \in sort.ready
  /\ IF \E d \in behaviors[b].resolves : ~Known(d) \/ sort.resolvers[d] = 0
     THEN sort' = [state |-> "panic"]
     ELSE LET left == [d \in Dependency |->
                         sort.resolvers[d] - (IF d \in behaviors[b].resolves THEN 1 ELSE 0)]
              done == {d \in behaviors[b].resolves : left[d] = 0}
              counts == [c \in DOMAIN behaviors |-> sort.behavior_counts[c] - Blocked(c, done)]
          IN sort' = [sort EXCEPT
               !.behavior_counts = counts,
               !.resolvers = left,
               !.ready = (@ \ {b}) \cup {c \in DOMAIN behaviors :
                           counts[c] = 0 /\ sort.behavior_counts[c] > 0},
               !.toposorted = Append(@, b)]
  /\ UNCHANGED <<behaviors, dependents_on, behaviors_topos, extended>>

\* "ensure that all behaviors have run"
SortEnd ==
  /\ sort.state = "running"
  /\ sort.ready = {}
  /\ IF \E b \in DOMAIN behaviors : sort.behavior_counts[b] > 0
     THEN sort' = [state |-> "panic"] /\ UNCHANGED behaviors_topos
     ELSE sort' = NoSort /\ behaviors_topos' = sort.toposorted
  /\ UNCHANGED <<behaviors, dependents_on, extended>>

SortStep == SortBegin \/ SortEnd \/ \E b \in 1 .. MaxBehaviors : Propagate(b)

-----------------------------------------------------------------------------

\* The orders in which each behaviour runs once, and after all those which
\* resolve anything it depends on.
ValidOrders ==
  {o \in SetToSeqs(DOMAIN behaviors) :
     \A i, j \in DOMAIN o :
       behaviors[o[j]].depends \cap behaviors[o[i]].resolves # {} => i < j}

\* The order in use is one of them, also after a push to a list already driven;
\* and drive panics, "could never run due to cyclic dependencies", only if there
\* is none.  A list which another was merged into is excepted: extend takes over
\* neither its dependents nor its resolvers.
BehaviorsOrdered ==
  ~extended =>
    /\ behaviors_topos # NoOrder => behaviors_topos \in ValidOrders
    /\ sort.state = "panic" => ValidOrders = {}
=============================================================================
