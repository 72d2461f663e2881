------------------------ MODULE TagIntersectionProofs ------------------------
(* The search of enumerate_tag_intersection finds what it is asked for,     *)
(* for any tags, any number of archetypes and any history of theirs.        *)
EXTENDS TagIntersection, FiniteSetTheorems, WellFoundedInduction, TLAPS

-----------------------------------------------------------------------------
(* Sequences.                                                              *)

Distinct(s) == \A i, j \in DOMAIN s : i # j => s[i] # s[j]

\* A push adds its element and nothing else, and repeats none that was not there.
LEMMA AppendItems ==
  ASSUME NEW T, NEW s \in Seq(T), NEW a \in T
  PROVE  /\ Append(s, a) \in Seq(T)
         /\ Items(Append(s, a)) = Items(s) \cup {a}
         /\ Distinct(s) /\ a \notin Items(s) => Distinct(Append(s, a))
         /\ Append(s, a) # <<>>
<1> DEFINE u == Append(s, a)
<1>1. /\ u \in Seq(T)
      /\ Len(u) = Len(s) + 1
      /\ \A i \in 1 .. Len(s) : u[i] = s[i]
      /\ u[Len(s) + 1] = a
  OBVIOUS
<1>2. /\ DOMAIN s = 1 .. Len(s)
      /\ DOMAIN u = 1 .. Len(s) + 1
      /\ Len(s) \in Nat
  BY <1>1
<1> HIDE DEF u
<1>3. Items(u) = Items(s) \cup {a}
  BY <1>1, <1>2 DEF Items
<1>4. ASSUME Distinct(s), a \notin Items(s)
      PROVE  Distinct(u)
  BY <1>1, <1>2, <1>4 DEF Distinct, Items
<1>5. u # <<>>
  BY <1>1, <1>2
<1> QED
  BY <1>1, <1>3, <1>4, <1>5 DEF u

\* What an iterator over an ascending container has left after one step.
LEMMA TailItems ==
  ASSUME NEW T \in SUBSET Nat, NEW s \in Seq(T), s # <<>>, Ascending(s)
  PROVE  /\ Head(s) \in T
         /\ Head(s) \in Items(s)
         /\ Tail(s) \in Seq(T)
         /\ Ascending(Tail(s))
         /\ Items(s) = Items(Tail(s)) \cup {Head(s)}
         /\ \A a \in Items(Tail(s)) : Head(s) < a
<1> DEFINE u == Tail(s)
<1>1. /\ Len(s) \in Nat \ {0}
      /\ DOMAIN s = 1 .. Len(s)
      /\ u \in Seq(T)
      /\ Len(u) = Len(s) - 1
      /\ \A i \in 1 .. Len(s) - 1 : u[i] = s[i + 1]
      /\ Head(s) = s[1]
  OBVIOUS
<1>2. DOMAIN u = 1 .. Len(s) - 1
  BY <1>1
<1> HIDE DEF u
<1>3. 1 \in DOMAIN s
  BY <1>1
<1>4. s[1] \in T /\ s[1] \in Items(s)
  BY <1>1, <1>3 DEF Items
<1>5. Ascending(u)
  <2> SUFFICES ASSUME NEW i \in DOMAIN u, NEW j \in DOMAIN u, i < j
               PROVE  u[i] < u[j]
    BY DEF Ascending
  <2>1. u[i] = s[i + 1] /\ u[j] = s[j + 1]
    BY <1>1, <1>2
  <2>2. i + 1 \in DOMAIN s /\ j + 1 \in DOMAIN s /\ i + 1 < j + 1
    BY <1>1, <1>2
  <2> QED
    BY <2>1, <2>2 DEF Ascending
<1>6. ASSUME NEW a \in Items(u)
      PROVE  a \in Items(s) /\ s[1] < a
  <2>1. PICK i \in DOMAIN u : a = u[i]
    BY <1>6 DEF Items
  <2>2. i + 1 \in DOMAIN s /\ a = s[i + 1] /\ 1 < i + 1
    BY <2>1, <1>1, <1>2
  <2> QED
    BY <2>2, <1>3 DEF Items, Ascending
<1>7. ASSUME NEW a \in Items(s), a # s[1]
      PROVE  a \in Items(u)
  <2>1. PICK i \in DOMAIN s : a = s[i]
    BY <1>7 DEF Items
  <2>2. i - 1 \in DOMAIN u /\ u[i - 1] = s[i]
    BY <2>1, <1>1, <1>2, <1>7
  <2> QED
    BY <2>1, <2>2 DEF Items
<1> QED
  BY <1>1, <1>4, <1>5, <1>6, <1>7 DEF u

\* retain() takes out its element only, and keeps the order of the others.
LEMMA RetainedItems ==
  ASSUME NEW T, NEW s \in Seq(T), NEW a, Distinct(s)
  PROVE  /\ Retained(s, a) \in Seq(T)
         /\ Items(Retained(s, a)) = Items(s) \ {a}
         /\ Distinct(Retained(s, a))
         /\ Ascending(s) => Ascending(Retained(s, a))
<1>1. CASE a \notin Items(s)
  BY <1>1 DEF Retained
<1>2. CASE a \in Items(s)
  <2> DEFINE n == CHOOSE i \in DOMAIN s : s[i] = a
             u == [i \in 1 .. Len(s) - 1 |-> IF i < n THEN s[i] ELSE s[i + 1]]
  <2>1. Retained(s, a) = u
    BY <1>2 DEF Retained
  <2>2. n \in DOMAIN s /\ s[n] = a
    BY <1>2 DEF Items
  <2>3. /\ Len(s) \in Nat
        /\ DOMAIN s = 1 .. Len(s)
        /\ \A i \in DOMAIN s : s[i] \in T
    OBVIOUS
  <2>4. /\ DOMAIN u = 1 .. Len(s) - 1
        /\ \A i \in DOMAIN u : u[i] = IF i < n THEN s[i] ELSE s[i + 1]
    OBVIOUS
  <2>5. Len(s) - 1 \in Nat
    BY <2>2, <2>3
  <2>6. u \in Seq(T)
    <3>1. \A i \in 1 .. Len(s) - 1 : (IF i < n THEN s[i] ELSE s[i + 1]) \in T
      BY <2>3
    <3>2. u \in [1 .. Len(s) - 1 -> T]
      BY <3>1
    <3> QED
      BY <3>2, <2>5
  <2> HIDE DEF n, u
  <2>7. Items(u) \subseteq Items(s) \ {a}
    BY <2>2, <2>3, <2>4 DEF Items, Distinct
  <2>8. ASSUME NEW b \in Items(s), b # a
        PROVE  b \in Items(u)
    <3>1. PICK i \in DOMAIN s : b = s[i]
      BY <2>8 DEF Items
    <3>2. CASE i < n
      <4>1. i \in DOMAIN u /\ u[i] = b
        BY <3>1, <3>2, <2>2, <2>3, <2>4
      <4> QED
        BY <4>1 DEF Items
    <3>3. CASE i > n
      <4>1. i - 1 \in DOMAIN u /\ u[i - 1] = b
        BY <3>1, <3>3, <2>2, <2>3, <2>4
      <4> QED
        BY <4>1 DEF Items
    <3> QED
      BY <3>1, <3>2, <3>3, <2>2, <2>3, <2>8
  <2>9. Distinct(u)
    BY <2>2, <2>3, <2>4 DEF Distinct
  <2>10. Ascending(s) => Ascending(u)
    BY <2>2, <2>3, <2>4 DEF Ascending
  <2> QED
    BY <2>1, <2>6, <2>7, <2>8, <2>9, <2>10
<1> QED
  BY <1>1, <1>2

\* sort() keeps the elements.
LEMMA OrderingItems ==
  ASSUME NEW T, NEW s \in Seq(T), NEW o \in Orderings(s)
  PROVE  /\ o \in Seq(T)
         /\ Items(o) = Items(s)
         /\ Ascending(o)
         /\ s # <<>> => o # <<>>
<1>1. o \in [1 .. Len(s) -> Items(s)] /\ Ascending(o) /\ Items(o) = Items(s)
  BY DEF Orderings
<1>2. Items(s) \subseteq T
  BY DEF Items
<1>3. o \in Seq(T) /\ Len(o) = Len(s)
  BY <1>1, <1>2
<1> QED
  BY <1>1, <1>3

\* Ascending sequences repeat nothing.
LEMMA AscendingDistinct ==
  ASSUME NEW T \in SUBSET Nat, NEW s \in Seq(T), Ascending(s)
  PROVE  Distinct(s)
<1>1. /\ Len(s) \in Nat
      /\ DOMAIN s = 1 .. Len(s)
      /\ \A i \in DOMAIN s : s[i] \in T
  OBVIOUS
<1>2. \A i \in DOMAIN s : s[i] \in Nat
  BY <1>1
<1> SUFFICES ASSUME NEW i \in DOMAIN s, NEW j \in DOMAIN s, i # j
             PROVE  s[i] # s[j]
  BY DEF Distinct
<1>3. i < j \/ j < i
  BY <1>1
<1>4. s[i] < s[j] \/ s[j] < s[i]
  BY <1>3 DEF Ascending
<1> QED
  BY <1>2, <1>4

-----------------------------------------------------------------------------
(* The invariant.                                                          *)

\* A container holds the archetypes with its tag, once each.
Registered ==
  \A t \in Tag : /\ Distinct(containers[t])
                 /\ Items(containers[t]) = {a \in live : t \in keys[a]}

\* The containers already gone through are in order.
SortInv ==
  pc = "sort" =>
    /\ tags # <<>>
    /\ found = <<>>
    /\ \A i \in DOMAIN tags : i < k => Ascending(containers[tags[i]])

\* Every iterator is what is left of its container, in order; only archetypes
\* asked for were reported.
ItersInv ==
  pc \in {"scan", "compare"} =>
    /\ tags # <<>>
    /\ Len(iters) = Len(tags) - 1
    /\ Ascending(primary)
    /\ Items(primary) \subseteq Items(containers[tags[Len(tags)]])
    /\ \A i \in DOMAIN iters : /\ Ascending(iters[i])
                               /\ Items(iters[i]) \subseteq Items(containers[tags[i]])
    /\ Ascending(found)
    /\ Items(found) \subseteq Wanted

AllLeft(a) == \A i \in DOMAIN iters : a \in Items(iters[i])

\* Between two primary archetypes: what is asked for was reported, or is still
\* ahead of every iterator.
ScanInv ==
  pc = "scan" =>
    /\ \A a \in Items(found), b \in Items(primary) : a < b
    /\ \A a \in Wanted : a \in Items(found) \/ (a \in Items(primary) /\ AllLeft(a))

\* While a primary archetype is compared: likewise, and the iterators compared
\* so far stand at it.
CompareInv ==
  pc = "compare" =>
    /\ k <= Len(iters) + 1
    /\ target \in Items(containers[tags[Len(tags)]])
    /\ \A a \in Items(found) : a < target
    /\ \A b \in Items(primary) : target < b
    /\ \A i \in DOMAIN iters : i < k => target \in Items(iters[i])
    /\ \A a \in Wanted : a \in Items(found)
                         \/ ((a = target \/ a \in Items(primary)) /\ AllLeft(a))

Inv ==
  /\ TypeOK
  /\ FlagHonest
  /\ Registered
  /\ SortInv
  /\ ItersInv
  /\ ScanInv
  /\ CompareInv
  /\ FoundExact

\* Outside of a search only the containers have something to say.
LEMMA IdleInv ==
  ASSUME TypeOK', FlagHonest', Registered', pc' = "idle"
  PROVE  Inv'
BY DEF Inv, SortInv, ItersInv, ScanInv, CompareInv, FoundExact

\* With no archetype and no search, there is nothing to be wrong about.
LEMMA InvInit == Init => Inv
<1> SUFFICES ASSUME Init PROVE Inv
  OBVIOUS
<1> USE DEF Init
<1>1. NoTarget \in Index
  BY TagIntersectionAssumption DEF NoTarget
<1>2. TypeOK
  BY <1>1 DEF TypeOK
<1>3. FlagHonest
  BY DEF FlagHonest
<1>4. Registered
  <2>1. \A t \in Tag : containers[t] = <<>>
    OBVIOUS
  <2>2. DOMAIN <<>> = {}
    OBVIOUS
  <2>3. Distinct(<<>>) /\ Items(<<>>) = {}
    BY <2>2, Zenon DEF Distinct, Items
  <2> QED
    BY <2>1, <2>3 DEF Registered
<1> QED
  BY <1>2, <1>3, <1>4 DEF Inv, SortInv, ItersInv, ScanInv, CompareInv, FoundExact

\* A new archetype is pushed to the containers of its tags, which it is not in.
LEMMA CreateStep ==
  ASSUME Inv, NEW a \in Index, NEW S \in SUBSET Tag, Create(a, S)
  PROVE  Inv'
<1> USE DEF Inv
<1>1. TypeOK'
  <2>1. \A t \in Tag : Append(containers[t], a) \in Seq(Index)
    BY DEF TypeOK
  <2>2. containers' \in [Tag -> Seq(Index)]
    BY <2>1 DEF TypeOK, Create
  <2>3. sorted' \in [Tag -> BOOLEAN]
    BY DEF TypeOK, Create, Unsorted
  <2>4. keys' \in [Index -> SUBSET Tag]
    BY DEF TypeOK, Create
  <2> QED
    BY <2>2, <2>3, <2>4 DEF TypeOK, Create, archVars, tagVars, scanVars
<1>2. FlagHonest'
  BY DEF FlagHonest, Create, Unsorted, TypeOK
<1>3. Registered'
  <2> SUFFICES ASSUME NEW t \in Tag
               PROVE  /\ Distinct(containers'[t])
                      /\ Items(containers'[t]) = {b \in live' : t \in keys'[b]}
    BY DEF Registered
  <2>1. /\ containers[t] \in Seq(Index)
        /\ Distinct(containers[t])
        /\ Items(containers[t]) = {b \in live : t \in keys[b]}
        /\ a \notin live
    BY DEF TypeOK, Registered, Create
  <2>2. \A b \in live' : keys'[b] = IF b = a THEN S ELSE keys[b]
    BY DEF Create, TypeOK
  <2>3. CASE t \in S
    <3>1. containers'[t] = Append(containers[t], a)
      BY <2>3 DEF Create
    <3>2. Items(containers'[t]) = Items(containers[t]) \cup {a}
      BY <2>1, <3>1, AppendItems
    <3>3. Distinct(containers'[t])
      BY <2>1, <3>1, AppendItems
    <3> QED
      BY <2>1, <2>2, <2>3, <3>2, <3>3 DEF Create
  <2>4. CASE t \notin S
    BY <2>1, <2>2, <2>4 DEF Create
  <2> QED
    BY <2>3, <2>4
<1> QED
  BY <1>1, <1>2, <1>3, IdleInv DEF Create

\* A removed archetype leaves the containers of its tags, and their order stays.
LEMMA RemoveStep ==
  ASSUME Inv, NEW a \in Index, Remove(a)
  PROVE  Inv'
<1> USE DEF Inv
<1>1. \A t \in Tag :
        /\ Retained(containers[t], a) \in Seq(Index)
        /\ Items(Retained(containers[t], a)) = Items(containers[t]) \ {a}
        /\ Distinct(Retained(containers[t], a))
        /\ Ascending(containers[t]) => Ascending(Retained(containers[t], a))
  <2> TAKE t \in Tag
  <2>1. containers[t] \in Seq(Index) /\ Distinct(containers[t])
    BY DEF TypeOK, Registered
  <2> QED
    BY <2>1, RetainedItems
<1>2. \A t \in Tag : containers'[t] = IF t \in keys[a] THEN Retained(containers[t], a)
                                      ELSE containers[t]
  BY DEF Remove
<1>3. TypeOK'
  <2>1. containers' \in [Tag -> Seq(Index)]
    BY <1>1 DEF TypeOK, Remove
  <2>2. sorted' \in [Tag -> BOOLEAN]
    BY DEF TypeOK, Remove
  <2>3. keys' \in [Index -> SUBSET Tag]
    BY DEF TypeOK, Remove
  <2> QED
    BY <2>1, <2>2, <2>3 DEF TypeOK, Remove, archVars, tagVars, scanVars
<1>4. FlagHonest'
  <2> SUFFICES ASSUME NEW t \in Tag, sorted'[t]
               PROVE  Ascending(containers'[t])
    BY DEF FlagHonest
  <2>1. sorted[t]
    BY DEF Remove, TypeOK
  <2> QED
    BY <2>1, <1>1, <1>2 DEF FlagHonest
<1>5. Registered'
  <2> SUFFICES ASSUME NEW t \in Tag
               PROVE  /\ Distinct(containers'[t])
                      /\ Items(containers'[t]) = {b \in live' : t \in keys'[b]}
    BY DEF Registered
  <2>1. \A b \in live' : b \in live /\ b # a /\ keys'[b] = keys[b]
    BY DEF Remove, TypeOK
  <2>2. {b \in live' : t \in keys'[b]} = {b \in live : t \in keys[b]} \ {a}
    BY <2>1 DEF Remove
  <2>3. Distinct(containers[t]) /\ Items(containers[t]) = {b \in live : t \in keys[b]}
    BY DEF Registered
  <2> QED
    BY <1>1, <1>2, <2>2, <2>3
<1> QED
  BY <1>3, <1>4, <1>5, IdleInv DEF Remove

\* A search starts with nothing reported.
LEMMA BeginStep ==
  ASSUME Inv, NEW n \in 0 .. MaxTags, NEW asked \in [1 .. n -> Tag], Begin(asked)
  PROVE  Inv'
<1> USE DEF Inv, Begin, archVars, tagVars
<1>1. asked \in Seq(Tag)
  BY TagIntersectionAssumption
<1>2. NoTarget \in Index
  BY TagIntersectionAssumption DEF NoTarget
<1>3. TypeOK'
  BY <1>1, <1>2 DEF TypeOK
<1>4. FlagHonest' /\ Registered'
  BY DEF FlagHonest, Registered
<1>5. SortInv'
  <2>1. \A i \in DOMAIN asked : ~(i < 1)
    BY <1>1
  <2> QED
    BY <2>1 DEF SortInv
<1> QED
  BY <1>3, <1>4, <1>5 DEF ItersInv, ScanInv, CompareInv, FoundExact

\* The containers of the tags asked for are put in order one by one.
LEMMA SortContainerStep ==
  ASSUME Inv, SortContainer
  PROVE  Inv'
<1> DEFINE t == tags[k]
<1> USE DEF Inv
<1>1. t \in Tag /\ k \in DOMAIN tags
  BY DEF SortContainer, TypeOK
<1>2. containers[t] \in Seq(Index)
  BY <1>1 DEF TypeOK
<1>3. \A u \in Tag : /\ containers'[u] \in Seq(Index)
                     /\ Items(containers'[u]) = Items(containers[u])
                     /\ Distinct(containers'[u])
                     /\ Ascending(containers[u]) \/ u = t => Ascending(containers'[u])
                     /\ u # t => sorted'[u] = sorted[u]
  <2>1. CASE containers[t] = <<>> \/ sorted[t]
    <3>1. containers' = containers /\ sorted' = sorted
      BY <2>1 DEF SortContainer, tagVars
    <3>2. Ascending(containers[t])
      BY <2>1, <1>1 DEF FlagHonest, Ascending
    <3> QED
      BY <3>1, <3>2 DEF TypeOK, Registered
  <2>2. CASE ~(containers[t] = <<>> \/ sorted[t])
    <3>1. PICK o \in Orderings(containers[t]) :
            /\ containers' = [containers EXCEPT ![t] = o]
            /\ sorted' = [sorted EXCEPT ![t] = TRUE]
      BY <2>2 DEF SortContainer
    <3>2. o \in Seq(Index) /\ Items(o) = Items(containers[t]) /\ Ascending(o)
      BY <1>2, OrderingItems
    <3>3. Distinct(o)
      BY <3>2, AscendingDistinct, TagIntersectionAssumption
    <3> QED
      BY <3>1, <3>2, <3>3, <1>1 DEF TypeOK, Registered
  <2> QED
    BY <2>1, <2>2
<1>4. TypeOK'
  <2>1. containers' \in [Tag -> Seq(Index)]
    <3>1. \/ containers' = containers
          \/ \E o \in Orderings(containers[t]) : containers' = [containers EXCEPT ![t] = o]
      BY DEF SortContainer, tagVars
    <3>2. containers' = [u \in Tag |-> containers'[u]]
      BY <3>1 DEF TypeOK
    <3> QED
      BY <3>2, <1>3
  <2>2. sorted' \in [Tag -> BOOLEAN]
    <3>1. sorted' = sorted \/ sorted' = [sorted EXCEPT ![t] = TRUE]
      BY DEF SortContainer, tagVars
    <3>2. sorted \in [Tag -> BOOLEAN]
      BY DEF TypeOK
    <3> QED
      BY <3>1, <3>2, <1>1
  <2>3. /\ live' = live /\ keys' = keys /\ pc' = pc /\ tags' = tags /\ k' = k + 1
        /\ iters' = iters /\ primary' = primary /\ target' = target /\ found' = found
    BY DEF SortContainer, archVars
  <2> QED
    BY <2>1, <2>2, <2>3 DEF TypeOK
<1>5. FlagHonest'
  BY <1>3 DEF FlagHonest
<1>6. Registered'
  BY <1>3 DEF Registered, SortContainer, archVars
<1>7. SortInv'
  <2>1. /\ pc = "sort" /\ tags' = tags /\ k' = k + 1 /\ found' = found
        /\ k \in Nat
    BY DEF SortContainer, TypeOK
  <2>2. ASSUME NEW i \in DOMAIN tags, i < k + 1
        PROVE  Ascending(containers'[tags[i]])
    <3>1. tags[i] \in Tag /\ i \in Nat
      BY DEF TypeOK
    <3>2. i < k \/ i = k
      BY <2>1, <2>2, <3>1
    <3> QED
      BY <2>1, <3>1, <3>2, <1>3 DEF SortInv
  <2> QED
    BY <2>1, <2>2 DEF SortInv
<1> QED
  BY <1>4, <1>5, <1>6, <1>7 DEF SortContainer, ItersInv, ScanInv, CompareInv, FoundExact

\* What a container in order holds, an iterator over it holds.
LEMMA CollectStep ==
  ASSUME Inv, Collect
  PROVE  Inv'
<1> DEFINE n == Len(tags)
<1> USE DEF Inv
<1>1. /\ pc = "sort" /\ pc' = "scan" /\ k > n /\ tags # <<>> /\ found = <<>>
      /\ \A i \in DOMAIN tags : i < k => Ascending(containers[tags[i]])
      /\ iters' = [i \in 1 .. n - 1 |-> containers[tags[i]]]
      /\ primary' = containers[tags[n]]
      /\ live' = live /\ keys' = keys /\ containers' = containers /\ sorted' = sorted
      /\ tags' = tags /\ k' = k /\ target' = target /\ found' = found
  BY DEF Collect, archVars, tagVars, SortInv
<1>2. /\ n \in Nat \ {0} /\ DOMAIN tags = 1 .. n /\ k \in Nat
      /\ \A i \in 1 .. n : tags[i] \in Tag /\ containers[tags[i]] \in Seq(Index)
  BY <1>1 DEF TypeOK
<1>3. \A i \in 1 .. n : Ascending(containers[tags[i]])
  BY <1>1, <1>2
<1>4. iters' \in Seq(Seq(Index)) /\ Len(iters') = n - 1 /\ DOMAIN iters' = 1 .. n - 1
  <2>1. n - 1 \in Nat
    BY <1>2
  <2>2. iters' \in [1 .. n - 1 -> Seq(Index)]
    BY <1>1, <1>2
  <2> QED
    BY <2>1, <2>2
<1>5. TypeOK'
  BY <1>1, <1>2, <1>4 DEF TypeOK
<1>6. FlagHonest' /\ Registered'
  BY <1>1 DEF FlagHonest, Registered
<1>7. Items(found') = {} /\ Ascending(found')
  BY <1>1 DEF Items, Ascending
<1>8. ItersInv'
  <2>1. \A i \in DOMAIN iters' : iters'[i] = containers'[tags'[i]] /\ i \in 1 .. n
    BY <1>1, <1>2, <1>4
  <2> QED
    BY <1>1, <1>2, <1>3, <1>4, <1>7, <2>1 DEF ItersInv
<1>9. ScanInv'
  <2> SUFFICES ASSUME NEW a \in Wanted'
               PROVE  a \in Items(primary') /\ AllLeft(a)'
    BY <1>1, <1>7 DEF ScanInv
  <2>1. a \in live /\ \A i \in 1 .. n : tags[i] \in keys[a]
    BY <1>1, <1>2 DEF Wanted, Items
  <2>2. \A i \in 1 .. n : a \in Items(containers[tags[i]])
    BY <2>1, <1>2 DEF Registered
  <2>3. \A i \in DOMAIN iters' : iters'[i] = containers[tags[i]] /\ i \in 1 .. n
    BY <1>1, <1>2, <1>4
  <2> QED
    BY <2>2, <2>3, <1>1, <1>2 DEF AllLeft
<1> QED
  BY <1>1, <1>5, <1>6, <1>8, <1>9 DEF SortInv, CompareInv, FoundExact

\* The primary iterator steps to an archetype after all reported and before all
\* it has left.
LEMMA NextPrimaryStep ==
  ASSUME Inv, NextPrimary
  PROVE  Inv'
<1> USE DEF Inv
<1>1. /\ pc = "scan" /\ pc' = "compare" /\ primary # <<>>
      /\ target' = Head(primary) /\ primary' = Tail(primary) /\ k' = 1
      /\ live' = live /\ keys' = keys /\ containers' = containers /\ sorted' = sorted
      /\ tags' = tags /\ iters' = iters /\ found' = found
  BY DEF NextPrimary, archVars, tagVars
<1>2. /\ primary \in Seq(Index) /\ Ascending(primary)
      /\ Items(primary) \subseteq Items(containers[tags[Len(tags)]])
      /\ iters \in Seq(Seq(Index))
  BY <1>1 DEF TypeOK, ItersInv
<1>3. /\ target' \in Index
      /\ target' \in Items(primary)
      /\ primary' \in Seq(Index)
      /\ Ascending(primary')
      /\ Items(primary) = Items(primary') \cup {target'}
      /\ \A a \in Items(primary') : target' < a
  BY <1>1, <1>2, TailItems, TagIntersectionAssumption
<1>4. TypeOK'
  BY <1>1, <1>3 DEF TypeOK
<1>5. FlagHonest' /\ Registered'
  BY <1>1 DEF FlagHonest, Registered
<1>6. Wanted' = Wanted /\ \A a : AllLeft(a)' = AllLeft(a)
  BY <1>1 DEF Wanted, AllLeft
<1>7. ItersInv'
  BY <1>1, <1>2, <1>3, <1>6 DEF ItersInv
<1>8. CompareInv'
  <2>1. k' <= Len(iters') + 1
    BY <1>1, <1>2
  <2>2. \A i \in DOMAIN iters' : ~(i < k')
    BY <1>1, <1>2
  <2>3. \A a \in Items(found') : a < target'
    BY <1>1, <1>3 DEF ScanInv
  <2>4. \A a \in Wanted' : \/ a \in Items(found')
                           \/ (a = target' \/ a \in Items(primary')) /\ AllLeft(a)'
    BY <1>1, <1>3, <1>6 DEF ScanInv
  <2> QED
    BY <1>1, <1>2, <1>3, <2>1, <2>2, <2>3, <2>4 DEF CompareInv
<1> QED
  BY <1>1, <1>4, <1>5, <1>7, <1>8 DEF SortInv, ScanInv, FoundExact

\* When an iterator is used up, nothing asked for is ahead of all of them.
LEMMA ScanEndsStep ==
  ASSUME Inv, ScanEnds
  PROVE  Inv'
<1> USE DEF Inv
<1>1. /\ pc' = "done"
      /\ live' = live /\ keys' = keys /\ containers' = containers /\ sorted' = sorted
      /\ tags' = tags /\ found' = found
      /\ k' = k /\ iters' = iters /\ primary' = primary /\ target' = target
  BY DEF ScanEnds, archVars, tagVars, scanVars
<1>2. TypeOK' /\ FlagHonest' /\ Registered'
  BY <1>1 DEF TypeOK, FlagHonest, Registered
<1>3. Items(<<>>) = {}
  <2>1. DOMAIN <<>> = {}
    OBVIOUS
  <2> QED
    BY <2>1, Zenon DEF Items
<1>4. Wanted \subseteq Items(found)
  <2>1. CASE pc = "scan" /\ primary = <<>>
    BY <2>1, <1>3 DEF ScanInv
  <2>2. CASE pc = "compare" /\ k <= Len(iters) /\ iters[k] = <<>>
    <3>1. k \in DOMAIN iters
      BY <2>2 DEF TypeOK
    <3>2. \A a : ~AllLeft(a)
      BY <2>2, <3>1, <1>3 DEF AllLeft
    <3> QED
      BY <2>2, <3>2 DEF CompareInv
  <2> QED
    BY <2>1, <2>2 DEF ScanEnds
<1>5. Items(found) \subseteq Wanted /\ Ascending(found)
  BY DEF ScanEnds, ItersInv
<1>6. Wanted' = Wanted
  BY <1>1 DEF Wanted
<1> QED
  BY <1>1, <1>2, <1>4, <1>5, <1>6 DEF SortInv, ItersInv, ScanInv, CompareInv, FoundExact

\* An archetype passed over is none of those still to come.
LEMMA SkipStep ==
  ASSUME Inv, Skip
  PROVE  Inv'
<1> USE DEF Inv
<1>1. /\ pc = "compare" /\ pc' = "compare" /\ k <= Len(iters)
      /\ iters[k] # <<>> /\ Head(iters[k]) < target
      /\ iters' = [iters EXCEPT ![k] = Tail(@)]
      /\ live' = live /\ keys' = keys /\ containers' = containers /\ sorted' = sorted
      /\ tags' = tags /\ found' = found
      /\ k' = k /\ primary' = primary /\ target' = target
  BY DEF Skip, Passes, archVars, tagVars
<1>2. /\ k \in DOMAIN iters /\ iters \in Seq(Seq(Index)) /\ DOMAIN iters' = DOMAIN iters
      /\ k \in Nat
  BY <1>1 DEF TypeOK
<1>3. iters[k] \in Seq(Index) /\ Ascending(iters[k])
  BY <1>1, <1>2 DEF ItersInv
<1>4. /\ Head(iters[k]) \in Index
      /\ Tail(iters[k]) \in Seq(Index)
      /\ Ascending(Tail(iters[k]))
      /\ Items(iters[k]) = Items(Tail(iters[k])) \cup {Head(iters[k])}
  BY <1>1, <1>3, TailItems, TagIntersectionAssumption
<1>5. \A i \in DOMAIN iters : iters'[i] = IF i = k THEN Tail(iters[k]) ELSE iters[i]
  BY <1>1, <1>2
<1>6. iters' \in Seq(Seq(Index)) /\ Len(iters') = Len(iters)
  BY <1>1, <1>2, <1>4
<1>7. \A i \in DOMAIN iters : /\ Ascending(iters'[i])
                              /\ Items(iters'[i]) \subseteq Items(iters[i])
  BY <1>1, <1>4, <1>5 DEF ItersInv
<1>8. TypeOK'
  BY <1>1, <1>6 DEF TypeOK
<1>9. FlagHonest' /\ Registered'
  BY <1>1 DEF FlagHonest, Registered
<1>10. Wanted' = Wanted
  BY <1>1 DEF Wanted
<1>11. ItersInv'
  <2>1. \A i \in DOMAIN iters' : Items(iters'[i]) \subseteq Items(containers'[tags'[i]])
    BY <1>1, <1>2, <1>7 DEF ItersInv
  <2> QED
    BY <1>1, <1>2, <1>6, <1>7, <1>10, <2>1 DEF ItersInv
<1>12. CompareInv'
  <2>1. \A i \in DOMAIN iters' : i < k' => target' \in Items(iters'[i])
    BY <1>1, <1>2, <1>5 DEF CompareInv
  <2>2. ASSUME NEW a, a = target \/ a \in Items(primary), AllLeft(a)
        PROVE  AllLeft(a)'
    <3>1. target \in Index /\ Items(primary) \subseteq Index
      BY DEF TypeOK, Items
    <3>2. a # Head(iters[k])
      <4>1. a = target \/ target < a
        BY <2>2, <1>1 DEF CompareInv
      <4>2. a \in Nat /\ target \in Nat /\ Head(iters[k]) \in Nat
        BY <2>2, <3>1, <1>4, TagIntersectionAssumption
      <4> QED
        BY <4>1, <4>2, <1>1
    <3>3. a \in Items(iters'[k])
      BY <2>2, <3>2, <1>2, <1>4, <1>5 DEF AllLeft
    <3> QED
      BY <2>2, <3>3, <1>2, <1>5 DEF AllLeft
  <2>3. \A a \in Wanted' : \/ a \in Items(found')
                           \/ (a = target' \/ a \in Items(primary')) /\ AllLeft(a)'
    BY <1>1, <1>10, <2>2 DEF CompareInv
  <2> QED
    BY <1>1, <1>6, <2>1, <2>3 DEF CompareInv
<1> QED
  BY <1>1, <1>8, <1>9, <1>11, <1>12 DEF SortInv, ScanInv, FoundExact

\* One more iterator stands at the target.
LEMMA MatchesStep ==
  ASSUME Inv, Matches
  PROVE  Inv'
<1> USE DEF Inv
<1>1. /\ pc = "compare" /\ pc' = "compare" /\ k <= Len(iters)
      /\ iters[k] # <<>> /\ Head(iters[k]) = target /\ k' = k + 1
      /\ live' = live /\ keys' = keys /\ containers' = containers /\ sorted' = sorted
      /\ tags' = tags /\ found' = found
      /\ iters' = iters /\ primary' = primary /\ target' = target
  BY DEF Matches, archVars, tagVars
<1>2. k \in DOMAIN iters /\ k \in Nat /\ DOMAIN iters = 1 .. Len(iters) /\ Len(iters) \in Nat
  BY <1>1 DEF TypeOK
<1>3. iters[k] \in Seq(Index) /\ Ascending(iters[k])
  <2>1. iters \in Seq(Seq(Index))
    BY DEF TypeOK
  <2> QED
    BY <2>1, <1>1, <1>2 DEF ItersInv
<1>4. target \in Items(iters[k])
  BY <1>1, <1>3, TailItems, TagIntersectionAssumption
<1>5. TypeOK'
  BY <1>1, <1>2 DEF TypeOK
<1>6. FlagHonest' /\ Registered'
  BY <1>1 DEF FlagHonest, Registered
<1>7. Wanted' = Wanted /\ \A a : AllLeft(a)' = AllLeft(a)
  BY <1>1 DEF Wanted, AllLeft
<1>8. ItersInv'
  BY <1>1, <1>7 DEF ItersInv
<1>9. CompareInv'
  <2>1. \A i \in DOMAIN iters : i < k + 1 => target \in Items(iters[i])
    BY <1>1, <1>2, <1>4 DEF CompareInv
  <2> QED
    BY <1>1, <1>2, <1>7, <2>1 DEF CompareInv
<1> QED
  BY <1>1, <1>5, <1>6, <1>8, <1>9 DEF SortInv, ScanInv, FoundExact

\* An iterator past the target shows that the target lacks its tag.
LEMMA MismatchStep ==
  ASSUME Inv, Mismatch
  PROVE  Inv'
<1> USE DEF Inv
<1>1. /\ pc = "compare" /\ pc' = "scan" /\ k <= Len(iters)
      /\ iters[k] # <<>> /\ Head(iters[k]) > target
      /\ live' = live /\ keys' = keys /\ containers' = containers /\ sorted' = sorted
      /\ tags' = tags /\ found' = found
      /\ k' = k /\ iters' = iters /\ primary' = primary /\ target' = target
  BY DEF Mismatch, archVars, tagVars, scanVars
<1>2. k \in DOMAIN iters
  BY <1>1 DEF TypeOK
<1>3. iters[k] \in Seq(Index) /\ Ascending(iters[k]) /\ target \in Index
  BY <1>1, <1>2 DEF ItersInv, TypeOK
<1>4. ~AllLeft(target)
  <2>1. /\ Head(iters[k]) \in Index
        /\ Items(iters[k]) = Items(Tail(iters[k])) \cup {Head(iters[k])}
        /\ \A a \in Items(Tail(iters[k])) : Head(iters[k]) < a
        /\ Tail(iters[k]) \in Seq(Index)
    BY <1>1, <1>3, TailItems, TagIntersectionAssumption
  <2>2. Items(Tail(iters[k])) \subseteq Index
    BY <2>1 DEF Items
  <2>3. \A a \in Index : a \in Nat
    BY TagIntersectionAssumption
  <2>4. ASSUME target \in Items(Tail(iters[k]))
        PROVE  FALSE
    <3>1. Head(iters[k]) < target /\ Head(iters[k]) > target
      BY <2>1, <2>4, <1>1
    <3> QED
      BY <3>1, <2>1, <2>3, <1>3
  <2>5. target # Head(iters[k])
    BY <1>1, <1>3, <2>3
  <2>6. target \notin Items(iters[k])
    BY <2>1, <2>4, <2>5
  <2> QED
    BY <1>2, <2>6 DEF AllLeft
<1>5. TypeOK' /\ FlagHonest' /\ Registered'
  BY <1>1 DEF TypeOK, FlagHonest, Registered
<1>6. Wanted' = Wanted /\ \A a : AllLeft(a)' = AllLeft(a)
  BY <1>1 DEF Wanted, AllLeft
<1>7. ItersInv'
  BY <1>1, <1>6 DEF ItersInv
<1>8. ScanInv'
  <2>1. Items(found) \subseteq Index /\ Items(primary) \subseteq Index
    BY DEF TypeOK, Items
  <2>2. \A a \in Items(found), b \in Items(primary) : a < b
    <3> SUFFICES ASSUME NEW a \in Items(found), NEW b \in Items(primary)
                 PROVE  a < b
      OBVIOUS
    <3>1. a < target /\ target < b
      BY <1>1 DEF CompareInv
    <3>2. a \in Nat /\ b \in Nat /\ target \in Nat
      BY <2>1, <1>3, TagIntersectionAssumption
    <3> QED
      BY <3>1, <3>2
  <2> QED
    BY <1>1, <1>4, <1>6, <2>2 DEF ScanInv, CompareInv
<1> QED
  BY <1>1, <1>5, <1>7, <1>8 DEF SortInv, CompareInv, FoundExact

\* When every iterator stands at the target, it has all the tags.
LEMMA ReportStep ==
  ASSUME Inv, Report
  PROVE  Inv'
<1> DEFINE n == Len(tags)
<1> USE DEF Inv
<1>1. /\ pc = "compare" /\ pc' = "scan" /\ k > Len(iters)
      /\ found' = Append(found, target)
      /\ live' = live /\ keys' = keys /\ containers' = containers /\ sorted' = sorted
      /\ tags' = tags
      /\ k' = k /\ iters' = iters /\ primary' = primary /\ target' = target
  BY DEF Report, archVars, tagVars, scanVars
<1>2. /\ tags \in Seq(Tag) /\ tags # <<>> /\ Len(iters) = n - 1
      /\ n \in Nat \ {0} /\ DOMAIN tags = 1 .. n /\ DOMAIN iters = 1 .. n - 1
      /\ k \in Nat /\ found \in Seq(Index) /\ target \in Index
  BY <1>1 DEF TypeOK, ItersInv
<1>3. \A i \in 1 .. n : target \in Items(containers[tags[i]])
  <2> TAKE i \in 1 .. n
  <2>1. CASE i = n
    BY <2>1, <1>1 DEF CompareInv
  <2>2. CASE i # n
    <3>1. i \in DOMAIN iters /\ i < k
      BY <2>2, <1>1, <1>2
    <3>2. target \in Items(iters[i]) /\ Items(iters[i]) \subseteq Items(containers[tags[i]])
      BY <3>1, <1>1 DEF CompareInv, ItersInv
    <3> QED
      BY <3>2
  <2> QED
    BY <2>1, <2>2
<1>4. target \in Wanted
  <2>1. \A i \in 1 .. n : target \in live /\ tags[i] \in keys[target]
    BY <1>2, <1>3 DEF Registered
  <2> QED
    BY <2>1, <1>2 DEF Wanted, Items
<1>5. found' \in Seq(Index) /\ Items(found') = Items(found) \cup {target}
  BY <1>1, <1>2, AppendItems
<1>6. \A a \in Items(found) : a < target
  BY <1>1 DEF CompareInv
<1>7. Ascending(found')
  <2>1. /\ Ascending(found)
        /\ \A i \in DOMAIN found : found[i] < target
    BY <1>1, <1>6 DEF ItersInv, Items
  <2>2. /\ DOMAIN found = 1 .. Len(found) /\ Len(found) \in Nat
        /\ DOMAIN found' = 1 .. Len(found) + 1
        /\ \A i \in 1 .. Len(found) : found'[i] = found[i]
        /\ found'[Len(found) + 1] = target
    BY <1>1, <1>2
  <2> QED
    BY <2>1, <2>2 DEF Ascending
<1>8. TypeOK' /\ FlagHonest' /\ Registered'
  BY <1>1, <1>5 DEF TypeOK, FlagHonest, Registered
<1>9. Wanted' = Wanted /\ \A a : AllLeft(a)' = AllLeft(a)
  BY <1>1 DEF Wanted, AllLeft
<1>10. ItersInv'
  <2>1. Items(found') \subseteq Wanted
    BY <1>1, <1>4, <1>5 DEF ItersInv
  <2> QED
    BY <1>1, <1>7, <1>9, <2>1 DEF ItersInv
<1>11. ScanInv'
  <2>1. Items(found) \subseteq Index /\ Items(primary) \subseteq Index
    BY DEF TypeOK, Items
  <2>2. ASSUME NEW a \in Items(found'), NEW b \in Items(primary)
        PROVE  a < b
    <3>1. (a < target \/ a = target) /\ target < b
      BY <1>1, <1>5, <1>6 DEF CompareInv
    <3>2. a \in Nat /\ b \in Nat /\ target \in Nat
      BY <2>1, <1>2, <1>5, TagIntersectionAssumption
    <3> QED
      BY <3>1, <3>2
  <2>3. \A a \in Wanted : a \in Items(found') \/ (a \in Items(primary) /\ AllLeft(a))
    BY <1>1, <1>5 DEF CompareInv
  <2> QED
    BY <1>1, <1>9, <2>2, <2>3 DEF ScanInv
<1> QED
  BY <1>1, <1>8, <1>10, <1>11 DEF SortInv, CompareInv, FoundExact

\* The locals of a search end with it.
LEMMA ReturnStep ==
  ASSUME Inv, Return
  PROVE  Inv'
<1> USE DEF Inv, Return, archVars, tagVars
<1>1. TypeOK'
  <2>1. NoTarget \in Index
    BY TagIntersectionAssumption DEF NoTarget
  <2> QED
    BY <2>1 DEF TypeOK
<1>2. FlagHonest' /\ Registered'
  BY DEF FlagHonest, Registered
<1> QED
  BY <1>1, <1>2, IdleInv

\* The invariant reads the variables of the specification only.
LEMMA StutterStep ==
  ASSUME Inv, UNCHANGED vars
  PROVE  Inv'
<1>1. /\ live' = live /\ keys' = keys /\ containers' = containers /\ sorted' = sorted
      /\ pc' = pc /\ tags' = tags /\ found' = found
      /\ k' = k /\ iters' = iters /\ primary' = primary /\ target' = target
  BY DEF vars, archVars, tagVars, scanVars
<1>2. Wanted' = Wanted /\ \A a : AllLeft(a)' = AllLeft(a)
  BY <1>1 DEF Wanted, AllLeft
<1>3. TypeOK' /\ FlagHonest' /\ Registered'
  BY <1>1 DEF Inv, TypeOK, FlagHonest, Registered
<1>4. SortInv' /\ ItersInv' /\ ScanInv' /\ CompareInv' /\ FoundExact'
  BY <1>1, <1>2 DEF Inv, SortInv, ItersInv, ScanInv, CompareInv, FoundExact
<1> QED
  BY <1>3, <1>4 DEF Inv

\* Every step of the system keeps the invariant.
LEMMA InvStep == Inv /\ [Next]_vars => Inv'
<1> SUFFICES ASSUME Inv, [Next]_vars
             PROVE  Inv'
  OBVIOUS
<1>1. CASE \E a \in Index, S \in SUBSET Tag : Create(a, S)
  BY <1>1, CreateStep
<1>2. CASE \E a \in Index : Remove(a)
  BY <1>2, RemoveStep
<1>3. CASE \E n \in 0 .. MaxTags : \E asked \in [1 .. n -> Tag] : Begin(asked)
  BY <1>3, BeginStep
<1>4. CASE SearchStep
  BY <1>4, SortContainerStep, CollectStep, NextPrimaryStep, ScanEndsStep, SkipStep,
     MatchesStep, MismatchStep, ReportStep DEF SearchStep
<1>5. CASE Return
  BY <1>5, ReturnStep
<1>6. CASE UNCHANGED vars
  BY <1>6, StutterStep
<1> QED
  BY <1>1, <1>2, <1>3, <1>4, <1>5, <1>6 DEF Next

-----------------------------------------------------------------------------
(* The theorems.                                                           *)

\* The invariant of the containers and of the search holds in every behaviour.
THEOREM Invariant == Spec => []Inv
BY InvInit, InvStep, PTL DEF Spec

\* A container is sorted whenever its mark says so: enumerate_tag_intersection may
\* skip the sort.
THEOREM FlagTheorem == Spec => []FlagHonest
<1>1. Inv => FlagHonest
  BY DEF Inv
<1> QED
  BY <1>1, Invariant, PTL

\* enumerate_tag_intersection reports exactly the archetypes with all the tags asked
\* for, once each.
THEOREM SearchTheorem == Spec => []FoundExact
<1>1. Inv => FoundExact
  BY DEF Inv
<1> QED
  BY <1>1, Invariant, PTL

-----------------------------------------------------------------------------
(* The search goes down.                                                   *)

\* What is left to the other iterators, element by element.
Places(s) == UNION {{i} \X DOMAIN s[i] : i \in DOMAIN s}

LEMMA PlacesFinite ==
  ASSUME NEW s \in Seq(Seq(Index))
  PROVE  IsFiniteSet(Places(s)) /\ Cardinality(Places(s)) \in Nat
<1> DEFINE R == {{i} \X DOMAIN s[i] : i \in DOMAIN s}
           f == [i \in DOMAIN s |-> {i} \X DOMAIN s[i]]
<1>1. DOMAIN s = 1 .. Len(s) /\ Len(s) \in Nat
  OBVIOUS
<1>2. IsFiniteSet(DOMAIN s)
  BY <1>1, FS_Interval
<1>3. f \in Surjection(DOMAIN s, R)
  BY DEF Surjection
<1>4. IsFiniteSet(R)
  <2> HIDE DEF R, f
  <2> QED
    BY <1>2, <1>3, FS_Surjection
<1>5. ASSUME NEW i \in DOMAIN s
      PROVE  IsFiniteSet({i} \X DOMAIN s[i])
  <2>1. s[i] \in Seq(Index)
    OBVIOUS
  <2>2. DOMAIN s[i] = 1 .. Len(s[i]) /\ Len(s[i]) \in Nat
    BY <2>1
  <2>3. IsFiniteSet(1 .. Len(s[i]))
    BY <2>2, FS_Interval
  <2>4. IsFiniteSet({i})
    BY FS_Singleton
  <2> QED
    BY <2>2, <2>3, <2>4, FS_Product
<1>6. \A P \in R : IsFiniteSet(P)
  BY <1>5
<1>7. IsFiniteSet(UNION R)
  <2> HIDE DEF R
  <2> QED
    BY <1>4, <1>6, FS_UNION
<1> QED
  BY <1>7, FS_CardinalityType DEF Places

\* An iterator which advances leaves less.
LEMMA PlacesShrink ==
  ASSUME NEW s \in Seq(Seq(Index)), NEW n \in 1 .. Len(s), s[n] # <<>>
  PROVE  Cardinality(Places([s EXCEPT ![n] = Tail(s[n])])) < Cardinality(Places(s))
<1> DEFINE t == [s EXCEPT ![n] = Tail(s[n])]
<1>1. s[n] \in Seq(Index) /\ Len(s[n]) \in Nat \ {0} /\ DOMAIN s[n] = 1 .. Len(s[n])
  OBVIOUS
<1>2. Tail(s[n]) \in Seq(Index) /\ DOMAIN Tail(s[n]) = 1 .. Len(s[n]) - 1
  BY <1>1
<1>3. t \in Seq(Seq(Index)) /\ DOMAIN t = DOMAIN s
  BY <1>2
<1>4. \A i \in DOMAIN s : DOMAIN t[i] \subseteq DOMAIN s[i]
  BY <1>1, <1>2
<1>5. Places(t) \subseteq Places(s)
  BY <1>3, <1>4 DEF Places
<1>6. <<n, Len(s[n])>> \in Places(s) /\ <<n, Len(s[n])>> \notin Places(t)
  <2>1. n \in DOMAIN s /\ t[n] = Tail(s[n]) /\ Len(s[n]) \in DOMAIN s[n] /\ Len(s[n]) \notin DOMAIN t[n]
    BY <1>1, <1>2
  <2> HIDE DEF t
  <2> QED
    BY <2>1 DEF Places
<1> HIDE DEF t
<1>7. Places(t) \in SUBSET Places(s) /\ Places(t) # Places(s)
  BY <1>5, <1>6
<1>8. Cardinality(Places(t)) <= Cardinality(Places(s)) /\ Cardinality(Places(t)) # Cardinality(Places(s))
  BY <1>7, PlacesFinite, FS_Subset
<1>9. Cardinality(Places(t)) < Cardinality(Places(s))
  BY <1>3, <1>8, PlacesFinite
<1> QED
  BY <1>9 DEF t

\* The loops of the search stay within their bounds.
WithinBounds ==
  /\ pc = "sort" => k <= Len(tags) + 1
  /\ pc = "compare" => k <= Len(iters) + 1

LEMMA SearchGoesDown ==
  ASSUME Inv, SearchStep
  PROVE  WithinBounds' /\
         \/ LoopsLeft' < LoopsLeft
         \/ LoopsLeft' = LoopsLeft /\ TargetsLeft' < TargetsLeft
         \/ LoopsLeft' = LoopsLeft /\ TargetsLeft' = TargetsLeft /\ ItemsLeft' < ItemsLeft
         \/ /\ LoopsLeft' = LoopsLeft /\ TargetsLeft' = TargetsLeft /\ ItemsLeft' = ItemsLeft
            /\ ChecksLeft' < ChecksLeft
<1> USE DEF WithinBounds
<1>0. TypeOK
  BY DEF Inv
<1>1. CASE SortContainer
  <2>1. /\ pc = "sort" /\ pc' = "sort" /\ k <= Len(tags) /\ k' = k + 1
        /\ tags' = tags /\ primary' = primary /\ iters' = iters
    BY <1>1 DEF SortContainer
  <2>2. Len(tags) \in Nat /\ k \in Nat
    BY <1>0 DEF TypeOK
  <2> QED
    BY <2>1, <2>2 DEF LoopsLeft, TargetsLeft, ItemsLeft, ChecksLeft
<1>2. CASE Collect \/ ScanEnds
  BY <1>2 DEF Collect, ScanEnds, LoopsLeft
<1>3. CASE NextPrimary
  <2>1. /\ pc = "scan" /\ pc' = "compare" /\ primary # <<>> /\ primary' = Tail(primary)
        /\ k' = 1 /\ iters' = iters
    BY <1>3 DEF NextPrimary
  <2>2. Len(primary) \in Nat \ {0} /\ Len(primary') = Len(primary) - 1 /\ Len(iters) \in Nat
    BY <1>0, <2>1 DEF TypeOK
  <2> QED
    BY <2>1, <2>2 DEF LoopsLeft, TargetsLeft
<1>4. CASE Skip
  <2>1. /\ pc = "compare" /\ pc' = pc /\ k <= Len(iters) /\ k' = k /\ primary' = primary
        /\ iters[k] # <<>> /\ iters' = [iters EXCEPT ![k] = Tail(iters[k])]
    BY <1>4 DEF Skip
  <2>2. k \in 1 .. Len(iters) /\ Len(iters') = Len(iters) /\ iters \in Seq(Seq(Index))
    BY <1>0, <2>1 DEF TypeOK
  <2>3. ItemsLeft' < ItemsLeft
    <3>1. ItemsLeft = Cardinality(Places(iters))
      BY DEF ItemsLeft, Places
    <3>2. ItemsLeft' = Cardinality(Places(iters'))
      BY DEF ItemsLeft, Places
    <3>3. Cardinality(Places([iters EXCEPT ![k] = Tail(iters[k])])) < Cardinality(Places(iters))
      BY <2>1, <2>2, PlacesShrink
    <3> QED
      BY <2>1, <3>1, <3>2, <3>3
  <2> QED
    BY <2>1, <2>2, <2>3 DEF LoopsLeft, TargetsLeft
<1>5. CASE Matches
  <2>1. /\ pc = "compare" /\ pc' = pc /\ k <= Len(iters) /\ k' = k + 1
        /\ primary' = primary /\ iters' = iters
    BY <1>5 DEF Matches
  <2>2. Len(iters) \in Nat /\ k \in Nat
    BY <1>0 DEF TypeOK
  <2> QED
    BY <2>1, <2>2 DEF LoopsLeft, TargetsLeft, ItemsLeft, ChecksLeft
<1>6. CASE Mismatch \/ Report
  <2>1. pc = "compare" /\ pc' = "scan" /\ primary' = primary
    BY <1>6 DEF Mismatch, Report, scanVars
  <2>2. Len(primary) \in Nat
    BY <1>0 DEF TypeOK
  <2> QED
    BY <2>1, <2>2 DEF LoopsLeft, TargetsLeft
<1> QED
  BY <1>1, <1>2, <1>3, <1>4, <1>5, <1>6 DEF SearchStep

\* Going down, four counts in this order, comes to an end.
LEMMA NoEndlessDescent ==
  ~ \E f \in [Nat -> [1 .. 4 -> Nat]] : \A n \in Nat : Lower(f[n + 1], f[n])
<1> DEFINE R == OpToRel(<, Nat)
           L == LexProductOrdering(R, Nat, 4)
           V == [1 .. 4 -> Nat]
<1>1. IsWellFoundedOn(L, V)
  <2>1. IsWellFoundedOn(R, Nat)
    BY NatLessThanWellFounded
  <2> HIDE DEF R
  <2> QED
    BY <2>1, WFLexProductOrdering
<1>2. ASSUME NEW x \in V, NEW y \in V, Lower(x, y)
      PROVE  <<x, y>> \in L
  <2>1. PICK j \in 1 .. 4 : x[j] < y[j] /\ \A i \in 1 .. j - 1 : x[i] = y[i]
    BY <1>2 DEF Lower
  <2>2. x[j] \in Nat /\ y[j] \in Nat
    OBVIOUS
  <2>3. <<x[j], y[j]>> \in R
    BY <2>1, <2>2 DEF OpToRel
  <2> HIDE DEF R
  <2> QED
    BY <2>1, <2>3 DEF LexProductOrdering
<1> HIDE DEF L
<1>3. SUFFICES ASSUME NEW f \in [Nat -> V], \A n \in Nat : Lower(f[n + 1], f[n])
               PROVE  FALSE
  OBVIOUS
<1>4. ASSUME NEW n \in Nat
      PROVE  <<f[n + 1], f[n]>> \in L
  <2>1. n + 1 \in Nat
    OBVIOUS
  <2> HIDE DEF V
  <2>2. f[n] \in V /\ f[n + 1] \in V
    BY <2>1
  <2> QED
    BY <1>2, <1>3, <2>2
<1> QED
  BY <1>1, <1>3, <1>4 DEF IsWellFoundedOn

-----------------------------------------------------------------------------

\* Each step of a search makes less what is left of it, in the order of four counts
\* which allows no endless descent: the loops of enumerate_tag_intersection take a
\* bounded number of steps.
THEOREM AdvancesTheorem == Spec => SearchAdvances
<1>1. ASSUME Inv, Inv', SearchStep
      PROVE  Left' \in [1 .. 4 -> Nat] /\ Lower(Left', Left)
  <2>1. TypeOK' /\ WithinBounds'
    BY <1>1, SearchGoesDown DEF Inv
  <2>2. Left' \in [1 .. 4 -> Nat]
    <3>1. LoopsLeft' \in Nat /\ TargetsLeft' \in Nat /\ ChecksLeft' \in Nat
      BY <2>1 DEF TypeOK, WithinBounds, LoopsLeft, TargetsLeft, ChecksLeft
    <3>2. ItemsLeft' \in Nat
      <4>1. ItemsLeft' = Cardinality(Places(iters'))
        BY DEF ItemsLeft, Places
      <4> QED
        BY <2>1, <4>1, PlacesFinite DEF TypeOK
    <3> QED
      BY <3>1, <3>2 DEF Left
  <2>3. /\ Left = <<LoopsLeft, TargetsLeft, ItemsLeft, ChecksLeft>>
        /\ Left' = <<LoopsLeft', TargetsLeft', ItemsLeft', ChecksLeft'>>
    BY DEF Left
  <2>4. /\ Left[1] = LoopsLeft /\ Left[2] = TargetsLeft /\ Left[3] = ItemsLeft /\ Left[4] = ChecksLeft
        /\ Left'[1] = LoopsLeft' /\ Left'[2] = TargetsLeft' /\ Left'[3] = ItemsLeft' /\ Left'[4] = ChecksLeft'
    BY <2>3
  <2>5. \/ Left'[1] < Left[1]
        \/ Left'[1] = Left[1] /\ Left'[2] < Left[2]
        \/ Left'[1] = Left[1] /\ Left'[2] = Left[2] /\ Left'[3] < Left[3]
        \/ Left'[1] = Left[1] /\ Left'[2] = Left[2] /\ Left'[3] = Left[3] /\ Left'[4] < Left[4]
    BY <1>1, <2>4, SearchGoesDown
  <2>6. Lower(Left', Left)
    BY <2>5 DEF Lower
  <2> QED
    BY <2>2, <2>6
<1>2. Inv /\ Inv' /\ [Next]_vars => [SearchStep => Left' \in [1 .. 4 -> Nat] /\ Lower(Left', Left)]_vars
  BY <1>1
<1> QED
  BY <1>2, Invariant, PTL DEF Spec, SearchAdvances
=============================================================================
