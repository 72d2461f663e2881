--------------------------- MODULE TagIntersection ---------------------------
(***************************************************************************)
(* The tag containers of DbRoot (src/src/database.rs: DbTag) and the       *)
(* search of enumerate_tag_intersection, which sorts the containers of the *)
(* tags asked for and merges them, one action per step of its loops.       *)
(*                                                                         *)
(* Here an archetype is its index in the arena, which is what a container  *)
(* holds and sorts by, and a removed index may come back with other tags.  *)
(* The search holds DbRoot borrowed mutably: nothing else runs meanwhile.  *)
(***************************************************************************)
EXTENDS Integers, Sequences, FiniteSets

CONSTANTS
  Tag,
  Index,    \* arena indices
  MaxTags   \* bound: length of the list of tags asked for

ASSUME TagIntersectionAssumption == Index \subseteq Nat /\ Index # {} /\ MaxTags \in Nat

VARIABLES
  live,        \* the archetypes in the arena, the root left out
  keys,        \* their tags
  containers,  \* tag_map: sorted_containers; <<>> when the tag has no entry
  sorted,      \* tag_map: are_sorted_containers_sorted
  pc,          \* where enumerate_tag_intersection is
  tags,        \* its argument
  k,           \* the loop counter over tags or tag_iters
  iters,       \* tag_iters: what each has left
  primary,     \* what primary_iter has left
  target,      \* primary_arch
  found        \* the archetypes passed to the callback so far

archVars == <<live, keys>>
tagVars == <<containers, sorted>>
scanVars == <<k, iters, primary, target>>
vars == <<archVars, tagVars, pc, tags, scanVars, found>>

Items(s) == {s[i] : i \in DOMAIN s}
Ascending(s) == \A i, j \in DOMAIN s : i < j => s[i] < s[j]

\* Outside of a search; its value does not matter.
NoTarget == CHOOSE a \in Index : TRUE

Init ==
  /\ live = {}
  /\ keys = [a \in Index |-> {}]
  /\ containers = [t \in Tag |-> <<>>]
  /\ sorted = [t \in Tag |-> FALSE]
  /\ pc = "idle"
  /\ tags = <<>>
  /\ k = 1
  /\ iters = <<>>
  /\ primary = <<>>
  /\ target = NoTarget
  /\ found = <<>>

-----------------------------------------------------------------------------
(* Archetypes come and go.                                                 *)

\* Mutant: only the creation of a tag's entry marks it unsorted.
CleanOnCreate(S) == [t \in Tag |-> sorted[t] /\ (t \in S => containers[t] # <<>>)]

\* A container somewhat in order may no longer be after a push.
Unsorted(S) == [t \in Tag |-> sorted[t] /\ t \notin S]

Create(a, S) ==
  /\ pc = "idle"
  /\ a \notin live
  /\ S # {} /\ \A b \in live : keys[b] # S
  /\ live' = live \cup {a}
  /\ keys' = [keys EXCEPT ![a] = S]
  /\ containers' = [t \in Tag |-> IF t \in S THEN Append(containers[t], a)
                                  ELSE containers[t]]
  /\ sorted' = Unsorted(S)
  /\ UNCHANGED <<pc, tags, scanVars, found>>

\* Mutant: the last element takes the place of the one removed.
SwapRemoved(s, a) ==
  LET n == CHOOSE i \in DOMAIN s : s[i] = a
  IN IF a \in Items(s) THEN SubSeq([s EXCEPT ![n] = s[Len(s)]], 1, Len(s) - 1) ELSE s

\* The container s without a, which it holds at most once.
Retained(s, a) ==
  LET n == CHOOSE i \in DOMAIN s : s[i] = a
  IN IF a \in Items(s)
       THEN [i \in 1 .. Len(s) - 1 |-> IF i < n THEN s[i] ELSE s[i + 1]]
       ELSE s

\* An emptied entry goes, and its flag with it.
Remove(a) ==
  /\ pc = "idle"
  /\ a \in live
  /\ live' = live \ {a}
  /\ keys' = [keys EXCEPT ![a] = {}]
  /\ containers' = [t \in Tag |-> IF t \in keys[a] THEN Retained(containers[t], a)
                                  ELSE containers[t]]
  /\ sorted' = [t \in Tag |-> sorted[t] /\ containers'[t] # <<>>]
  /\ UNCHANGED <<pc, tags, scanVars, found>>

-----------------------------------------------------------------------------
(* enumerate_tag_intersection.                                             *)

\* Without a tag to search for, nothing is reported.
Begin(asked) ==
  /\ pc = "idle"
  /\ pc' = IF asked = <<>> THEN "done" ELSE "sort"
  /\ tags' = asked
  /\ k' = 1
  /\ found' = <<>>
  /\ UNCHANGED <<archVars, tagVars, iters, primary, target>>

\* What sort() may turn s into.
Orderings(s) == {o \in [DOMAIN s -> Items(s)] : Ascending(o) /\ Items(o) = Items(s)}

SortContainer ==
  /\ pc = "sort"
  /\ k <= Len(tags)
  /\ LET t == tags[k]
     IN IF containers[t] = <<>> \/ sorted[t]
          THEN UNCHANGED tagVars
          ELSE \E o \in Orderings(containers[t]) :
                 /\ containers' = [containers EXCEPT ![t] = o]
                 /\ sorted' = [sorted EXCEPT ![t] = TRUE]
  /\ k' = k + 1
  /\ UNCHANGED <<archVars, pc, tags, iters, primary, target, found>>

\* The iterator over the last tag's container is the primary one.
Collect ==
  /\ pc = "sort"
  /\ k > Len(tags)
  /\ pc' = "scan"
  /\ iters' = [i \in 1 .. Len(tags) - 1 |-> containers[tags[i]]]
  /\ primary' = containers[tags[Len(tags)]]
  /\ UNCHANGED <<archVars, tagVars, tags, k, target, found>>

NextPrimary ==
  /\ pc = "scan"
  /\ primary # <<>>
  /\ target' = Head(primary)
  /\ primary' = Tail(primary)
  /\ k' = 1
  /\ pc' = "compare"
  /\ UNCHANGED <<archVars, tagVars, tags, iters, found>>

\* Every archetype has been looked at, or another iterator has none left.
ScanEnds ==
  /\ \/ pc = "scan" /\ primary = <<>>
     \/ pc = "compare" /\ k <= Len(iters) /\ iters[k] = <<>>
  /\ pc' = "done"
  /\ UNCHANGED <<archVars, tagVars, tags, scanVars, found>>

\* Mutant: an archetype equal to the one searched for is consumed as well.
PassesEqual(a) == a <= target

Passes(a) == a < target

Skip ==
  /\ pc = "compare"
  /\ k <= Len(iters)
  /\ iters[k] # <<>>
  /\ Passes(Head(iters[k]))
  /\ iters' = [iters EXCEPT ![k] = Tail(@)]
  /\ UNCHANGED <<archVars, tagVars, pc, tags, k, primary, target, found>>

Matches ==
  /\ pc = "compare"
  /\ k <= Len(iters)
  /\ iters[k] # <<>>
  /\ Head(iters[k]) = target
  /\ k' = k + 1
  /\ UNCHANGED <<archVars, tagVars, pc, tags, iters, primary, target, found>>

\* Mutant: the scan does not go on to the next primary archetype.
MismatchRetries ==
  /\ pc = "compare"
  /\ k <= Len(iters)
  /\ iters[k] # <<>>
  /\ Head(iters[k]) > target
  /\ k' = 1
  /\ UNCHANGED <<archVars, tagVars, pc, tags, iters, primary, target, found>>

\* This container lacks the target: on to the next primary archetype.
Mismatch ==
  /\ pc = "compare"
  /\ k <= Len(iters)
  /\ iters[k] # <<>>
  /\ Head(iters[k]) > target
  /\ pc' = "scan"
  /\ UNCHANGED <<archVars, tagVars, tags, scanVars, found>>

Report ==
  /\ pc = "compare"
  /\ k > Len(iters)
  /\ found' = Append(found, target)
  /\ pc' = "scan"
  /\ UNCHANGED <<archVars, tagVars, tags, scanVars>>

\* The caller has its answer; the locals of the search are gone.
Return ==
  /\ pc = "done"
  /\ pc' = "idle"
  /\ tags' = <<>>
  /\ k' = 1
  /\ iters' = <<>>
  /\ primary' = <<>>
  /\ target' = NoTarget
  /\ found' = <<>>
  /\ UNCHANGED <<archVars, tagVars>>

SearchStep ==
  \/ SortContainer
  \/ Collect
  \/ NextPrimary
  \/ ScanEnds
  \/ Skip
  \/ Matches
  \/ Mismatch
  \/ Report

Next ==
  \/ \E a \in Index, S \in SUBSET Tag : Create(a, S)
  \/ \E a \in Index : Remove(a)
  \/ \E n \in 0 .. MaxTags : \E asked \in [1 .. n -> Tag] : Begin(asked)
  \/ SearchStep
  \/ Return

Spec == Init /\ [][Next]_vars

\* The search is one synchronous call: once started, it keeps executing.
FairSpec == Spec /\ WF_vars(SearchStep)

-----------------------------------------------------------------------------
(* Properties.                                                             *)

\* Every variable has its type.
TypeOK ==
  /\ live \subseteq Index
  /\ keys \in [Index -> SUBSET Tag]
  /\ containers \in [Tag -> Seq(Index)]
  /\ sorted \in [Tag -> BOOLEAN]
  /\ pc \in {"idle", "sort", "scan", "compare", "done"}
  /\ tags \in Seq(Tag)
  /\ k \in Nat \ {0}
  /\ iters \in Seq(Seq(Index))
  /\ primary \in Seq(Index)
  /\ target \in Index
  /\ found \in Seq(Index)

\* A container marked sorted is: every push must clear the mark, and removals
\* must keep the order.  The search skips the sort on the mark alone.
FlagHonest == \A t \in Tag : sorted[t] => Ascending(containers[t])

\* The archetypes with all the tags asked for.
Wanted == {a \in live : Items(tags) \subseteq keys[a]}

\* The search reports every archetype with all the tags asked for, no other,
\* and none twice, whatever was created, removed and reused before it, and
\* however often a tag is named.
FoundExact == pc = "done" /\ tags # <<>> => Items(found) = Wanted /\ Ascending(found)

\* What a search has left of its loops, of the primary archetypes, of the other
\* archetypes, and of the tags to sort by or to compare with.
LoopsLeft == IF pc = "sort" THEN 2 ELSE IF pc = "done" THEN 0 ELSE 1
TargetsLeft == 2 * Len(primary) + (IF pc = "compare" THEN 1 ELSE 0)
ItemsLeft == Cardinality(UNION {{i} \X DOMAIN iters[i] : i \in DOMAIN iters})
ChecksLeft ==
  IF pc = "sort" THEN Len(tags) + 1 - k
  ELSE IF pc = "compare" THEN Len(iters) + 1 - k ELSE 0

Left == <<LoopsLeft, TargetsLeft, ItemsLeft, ChecksLeft>>

\* x is less than y at the first place where they differ.
Lower(x, y) == \E j \in 1 .. 4 : x[j] < y[j] /\ \A i \in 1 .. j - 1 : x[i] = y[i]

\* Every step of a search uses something up, and what it gives back counts less:
\* a comparison which advances no iterator must go on to the next tag or the next
\* primary archetype.  So no search goes on for ever.
SearchAdvances == [][SearchStep => Left' \in [1 .. 4 -> Nat] /\ Lower(Left', Left)]_vars

\* A search which starts ends.
SearchTerminates == pc = "sort" ~> pc = "done"
=============================================================================
