--------------------------- MODULE DispatchProofs ---------------------------
(***************************************************************************)
(* The three parts of a frame.  BehaviorsOrdered, for any number of        *)
(* behaviours and dependencies: the order which drive computes is          *)
(* topological, and it panics only if there is none.  VisitedExact, for    *)
(* any layout of the heaps: a query which runs to its end takes every      *)
(* occupied slot once.  HandledOnce, for any number of events and rounds:  *)
(* a drain gives each event to each behaviour which asks for it, once.     *)
(***************************************************************************)
EXTENDS Dispatch, FiniteSetTheorems, WellFoundedInduction, TLAPS

Behavior == [dep_count : Nat, resolves : SUBSET Dependency, depends : SUBSET Dependency]

\* The behaviours among B which resolve d, and the dependencies of b which some of
\* them resolve.
Resolving(bs, B, d) == {b \in B : d \in bs[b].resolves}
Awaited(bs, B, b) == {d \in bs[b].depends : Resolving(bs, B, d) # {}}

\* The behaviours which are not in the order q yet.
Rest(bs, q) == {b \in 1 .. Len(bs) : \A i \in 1 .. Len(q) : q[i] # b}

\* What the list knows of its behaviours is right.
Counted(bs, deps) ==
  /\ \A b \in 1 .. Len(bs) : bs[b].dep_count = Cardinality(bs[b].depends)
  /\ \A d \in Dependency :
       /\ deps[d].dependents = {b \in 1 .. Len(bs) : d \in bs[b].depends}
       /\ deps[d].resolvers = Cardinality(Resolving(bs, 1 .. Len(bs), d))

\* Whoever is in the order q comes once, and after all who resolve a dependency of his.
Prefix(bs, q) ==
  /\ q \in Seq(1 .. Len(bs))
  /\ \A i, j \in 1 .. Len(q) : q[i] = q[j] => i = j
  /\ \A j \in 1 .. Len(q) : \A d \in bs[q[j]].depends : \A b \in Resolving(bs, 1 .. Len(bs), d) :
       \E i \in 1 .. Len(q) : i < j /\ q[i] = b

\* The counters of the sort are those of the behaviours which are left.
Progress(bs, counts, left, ready, q) ==
  /\ Prefix(bs, q)
  /\ \A b \in 1 .. Len(bs) : counts[b] = Cardinality(Awaited(bs, Rest(bs, q), b))
  /\ \A d \in Dependency : left[d] = Cardinality(Resolving(bs, Rest(bs, q), d))
  /\ ready = {b \in Rest(bs, q) : Awaited(bs, Rest(bs, q), b) = {}}

Orders(bs) ==
  {o \in SetToSeqs(DOMAIN bs) :
     \A i, j \in DOMAIN o : bs[o[j]].depends \cap bs[o[i]].resolves # {} => i < j}

Running(counts, left, ready, q) ==
  [state |-> "running", behavior_counts |-> counts, resolvers |-> left,
   ready |-> ready, toposorted |-> q]

SortExact(bs, s) ==
  \/ s.state = "none"
  \/ s.state = "panic" /\ Orders(bs) = {}
  \/ /\ s = Running(s.behavior_counts, s.resolvers, s.ready, s.toposorted)
     /\ Progress(bs, s.behavior_counts, s.resolvers, s.ready, s.toposorted)

\* The invariant of a list which nothing was merged into.
ListInv ==
  /\ behaviors \in Seq(Behavior)
  /\ Counted(behaviors, dependents_on)
  /\ SortExact(behaviors, sort)
  /\ behaviors_topos # NoOrder => behaviors_topos \in Orders(behaviors)

BehaviorInv == ~ extended => ListInv

-----------------------------------------------------------------------------
(* The sets which are counted are finite.                                  *)

LEMMA Parts ==
  ASSUME NEW bs \in Seq(Behavior)
  PROVE  /\ Len(bs) \in Nat /\ DOMAIN bs = 1 .. Len(bs)
         /\ IsFiniteSet(1 .. Len(bs)) /\ Cardinality(1 .. Len(bs)) = Len(bs)
         /\ \A b \in 1 .. Len(bs) : /\ bs[b] \in Behavior
                                    /\ bs[b].depends \in SUBSET Dependency
                                    /\ bs[b].resolves \in SUBSET Dependency
                                    /\ IsFiniteSet(bs[b].depends)
<1>1. Len(bs) \in Nat /\ DOMAIN bs = 1 .. Len(bs) /\ \A b \in 1 .. Len(bs) : bs[b] \in Behavior
  OBVIOUS
<1>2. IsFiniteSet(1 .. Len(bs)) /\ Cardinality(1 .. Len(bs)) = Len(bs)
  <2>1. 1 \in Int /\ Len(bs) \in Int
    BY <1>1
  <2>2. /\ IsFiniteSet(1 .. Len(bs))
        /\ Cardinality(1 .. Len(bs)) = IF 1 > Len(bs) THEN 0 ELSE Len(bs) - 1 + 1
    BY <2>1, FS_Interval
  <2> QED
    BY <1>1, <2>2
<1>3. ASSUME NEW b \in 1 .. Len(bs)
      PROVE  /\ bs[b].depends \in SUBSET Dependency
             /\ bs[b].resolves \in SUBSET Dependency
             /\ IsFiniteSet(bs[b].depends)
  <2>1. bs[b].depends \in SUBSET Dependency /\ bs[b].resolves \in SUBSET Dependency
    BY <1>1 DEF Behavior
  <2> QED
    BY <2>1, BehaviorAssumption, FS_Subset
<1> QED
  BY <1>1, <1>2, <1>3

\* A set with nothing in it counts zero.
LEMMA Counting ==
  ASSUME NEW S, IsFiniteSet(S), NEW T, T \subseteq S
  PROVE  IsFiniteSet(T) /\ Cardinality(T) \in Nat /\ (Cardinality(T) = 0 <=> T = {})
<1>1. IsFiniteSet(T)
  BY FS_Subset
<1> QED
  BY <1>1, FS_CardinalityType, FS_EmptySet

LEMMA Finite ==
  ASSUME NEW bs \in Seq(Behavior), NEW B, B \subseteq 1 .. Len(bs)
  PROVE  /\ \A d : LET R == Resolving(bs, B, d)
                   IN IsFiniteSet(R) /\ Cardinality(R) \in Nat /\ (Cardinality(R) = 0 <=> R = {})
         /\ \A b \in 1 .. Len(bs) :
              LET A == Awaited(bs, B, b)
              IN IsFiniteSet(A) /\ Cardinality(A) \in Nat /\ (Cardinality(A) = 0 <=> A = {})
<1>1. ASSUME NEW d
      PROVE  LET R == Resolving(bs, B, d)
             IN IsFiniteSet(R) /\ Cardinality(R) \in Nat /\ (Cardinality(R) = 0 <=> R = {})
  <2>1. Resolving(bs, B, d) \subseteq 1 .. Len(bs)
    BY DEF Resolving
  <2>2. IsFiniteSet(1 .. Len(bs))
    BY Parts
  <2> QED
    BY <2>1, <2>2, Counting
<1>2. ASSUME NEW b \in 1 .. Len(bs)
      PROVE  LET A == Awaited(bs, B, b)
             IN IsFiniteSet(A) /\ Cardinality(A) \in Nat /\ (Cardinality(A) = 0 <=> A = {})
  <2>1. Awaited(bs, B, b) \subseteq bs[b].depends
    BY DEF Awaited
  <2>2. IsFiniteSet(bs[b].depends)
    BY Parts
  <2> QED
    BY <2>1, <2>2, Counting
<1> QED
  BY <1>1, <1>2

\* What is taken out of a set is taken from its count.
LEMMA TakenOut ==
  ASSUME NEW S, IsFiniteSet(S), NEW T, T \subseteq S
  PROVE  Cardinality(S \ T) = Cardinality(S) - Cardinality(T)
<1>1. S \cap T = T
  OBVIOUS
<1> QED
  BY <1>1, FS_Difference

-----------------------------------------------------------------------------
(* The sort.                                                               *)

LEMMA RestOfNone ==
  ASSUME NEW bs \in Seq(Behavior)
  PROVE  Rest(bs, <<>>) = 1 .. Len(bs) /\ Prefix(bs, <<>>)
<1>1. Len(<<>>) = 0 /\ 1 .. 0 = {} /\ <<>> \in Seq(1 .. Len(bs))
  OBVIOUS
<1> QED
  BY <1>1 DEF Rest, Prefix

\* The counters the sort begins with leave out the dependencies nobody resolves.
LEMMA BeginOK ==
  ASSUME NEW bs \in Seq(Behavior), NEW deps, Counted(bs, deps),
         NEW free, free = {d \in Dependency : deps[d].resolvers = 0},
         NEW counts,
         counts = [b \in DOMAIN bs |->
                     bs[b].dep_count - Cardinality({d \in free : b \in deps[d].dependents})],
         NEW left, left = [d \in Dependency |-> deps[d].resolvers],
         NEW ready, ready = {b \in DOMAIN bs : counts[b] = 0}
  PROVE  Progress(bs, counts, left, ready, <<>>)
<1> DEFINE N == 1 .. Len(bs)
<1>1. /\ DOMAIN bs = N
      /\ \A b \in N : bs[b].depends \in SUBSET Dependency /\ IsFiniteSet(bs[b].depends)
  BY Parts
<1>2. Rest(bs, <<>>) = N /\ Prefix(bs, <<>>)
  BY RestOfNone
<1> HIDE DEF N
<1>3. \A d \in Dependency : /\ deps[d].dependents = {b \in N : d \in bs[b].depends}
                            /\ deps[d].resolvers = Cardinality(Resolving(bs, N, d))
  BY DEF Counted, N
<1>4. /\ \A d \in Dependency : Cardinality(Resolving(bs, N, d)) = 0 <=> Resolving(bs, N, d) = {}
      /\ \A b \in N : Cardinality(Awaited(bs, N, b)) = 0 <=> Awaited(bs, N, b) = {}
  BY Finite DEF N
<1>5. ASSUME NEW b \in N PROVE counts[b] = Cardinality(Awaited(bs, N, b))
  <2> DEFINE D == bs[b].depends
             F == {d \in free : b \in deps[d].dependents}
  <2>1. F = {d \in D : Resolving(bs, N, d) = {}}
    BY <1>1, <1>3, <1>4
  <2>2. F \subseteq D /\ Awaited(bs, N, b) = D \ F
    BY <2>1 DEF Awaited
  <2>3. IsFiniteSet(D) /\ bs[b].dep_count = Cardinality(D)
    BY <1>1 DEF Counted, N
  <2>4. counts[b] = bs[b].dep_count - Cardinality(F)
    BY <1>1
  <2> HIDE DEF D, F
  <2> QED
    BY <2>2, <2>3, <2>4, TakenOut
<1>6. \A d \in Dependency : left[d] = Cardinality(Resolving(bs, N, d))
  BY <1>3
<1>7. ready = {b \in N : Awaited(bs, N, b) = {}}
  BY <1>1, <1>4, <1>5
<1> QED
  BY <1>2, <1>5, <1>6, <1>7 DEF Progress, N

\* Nobody who is in the order already waits for anything.
LEMMA DoneFree ==
  ASSUME NEW bs \in Seq(Behavior), NEW q, Prefix(bs, q), NEW j \in 1 .. Len(q)
  PROVE  q[j] \in 1 .. Len(bs) /\ q[j] \notin Rest(bs, q) /\ Awaited(bs, Rest(bs, q), q[j]) = {}
<1>1. q[j] \in 1 .. Len(bs)
  BY DEF Prefix
<1>2. ASSUME NEW d \in bs[q[j]].depends, NEW b \in Resolving(bs, Rest(bs, q), d) PROVE FALSE
  <2>1. b \in Resolving(bs, 1 .. Len(bs), d) /\ b \in Rest(bs, q)
    BY DEF Resolving, Rest
  <2>2. PICK i \in 1 .. Len(q) : q[i] = b
    BY <2>1 DEF Prefix
  <2> QED
    BY <2>1, <2>2 DEF Rest
<1> QED
  BY <1>1, <1>2 DEF Awaited, Rest

\* One more behaviour at the end of the order.
LEMMA Longer ==
  ASSUME NEW bs \in Seq(Behavior), NEW q, Prefix(bs, q), NEW b \in Rest(bs, q),
         Awaited(bs, Rest(bs, q), b) = {}
  PROVE  Prefix(bs, Append(q, b)) /\ Rest(bs, Append(q, b)) = Rest(bs, q) \ {b}
<1> DEFINE r == Append(q, b)
<1>1. /\ q \in Seq(1 .. Len(bs)) /\ b \in 1 .. Len(bs) /\ \A i \in 1 .. Len(q) : q[i] # b
      /\ \A i, j \in 1 .. Len(q) : q[i] = q[j] => i = j
  BY DEF Prefix, Rest
<1>2. /\ r \in Seq(1 .. Len(bs)) /\ Len(r) = Len(q) + 1 /\ Len(q) \in Nat /\ r[Len(q) + 1] = b
      /\ \A i \in 1 .. Len(q) : r[i] = q[i]
      /\ \A i \in 1 .. Len(r) : i \in 1 .. Len(q) \/ i = Len(q) + 1
      /\ \A i \in 1 .. Len(q) : i \in 1 .. Len(r)
  BY <1>1
<1> HIDE DEF r
<1>3. \A i, j \in 1 .. Len(r) : r[i] = r[j] => i = j
  BY <1>1, <1>2
<1>4. ASSUME NEW j \in 1 .. Len(r), NEW d \in bs[r[j]].depends,
             NEW c \in Resolving(bs, 1 .. Len(bs), d)
      PROVE  \E i \in 1 .. Len(r) : i < j /\ r[i] = c
  <2>1. CASE j \in 1 .. Len(q)
    <3>1. PICK i \in 1 .. Len(q) : i < j /\ q[i] = c
      BY <2>1, <1>2 DEF Prefix
    <3> QED
      BY <3>1, <1>2
  <2>2. CASE j = Len(q) + 1
    <3>1. d \in bs[b].depends
      BY <2>2, <1>2
    <3>2. c \notin Rest(bs, q)
      BY <3>1 DEF Awaited, Resolving
    <3>3. PICK i \in 1 .. Len(q) : q[i] = c
      BY <3>2 DEF Rest, Resolving
    <3>4. i < j
      BY <2>2, <1>2
    <3> QED
      BY <3>3, <3>4, <1>2
  <2> QED
    BY <2>1, <2>2, <1>2
<1>5. Prefix(bs, r)
  BY <1>2, <1>3, <1>4 DEF Prefix
<1>6. ASSUME NEW c PROVE c \in Rest(bs, r) <=> c \in Rest(bs, q) \ {b}
  <2>1. ASSUME c \in Rest(bs, r) PROVE c \in Rest(bs, q) \ {b}
    <3>1. Len(q) + 1 \in 1 .. Len(r)
      BY <1>2
    <3>2. c # b /\ c \in 1 .. Len(bs)
      BY <2>1, <3>1, <1>2 DEF Rest
    <3>3. \A i \in 1 .. Len(q) : q[i] # c
      BY <2>1, <1>2 DEF Rest
    <3> QED
      BY <3>2, <3>3 DEF Rest
  <2>2. ASSUME c \in Rest(bs, q) \ {b} PROVE c \in Rest(bs, r)
    <3>1. c \in 1 .. Len(bs) /\ c # b /\ \A i \in 1 .. Len(q) : q[i] # c
      BY <2>2 DEF Rest
    <3>2. \A i \in 1 .. Len(r) : r[i] # c
      BY <3>1, <1>2
    <3> QED
      BY <3>1, <3>2 DEF Rest
  <2> QED
    BY <2>1, <2>2
<1> QED
  BY <1>5, <1>6 DEF r

\* Whoever is ready resolves dependencies which the list knows, and is still
\* counted among those who resolve them: the sort does not panic over them.
LEMMA NoUnderflow ==
  ASSUME NEW bs \in Seq(Behavior), NEW deps, Counted(bs, deps),
         NEW counts, NEW left, NEW ready, NEW q, Progress(bs, counts, left, ready, q),
         NEW b \in ready, NEW d \in bs[b].resolves
  PROVE  deps[d].resolvers > 0 /\ left[d] # 0
<1> DEFINE N == 1 .. Len(bs)
           R == Rest(bs, q)
<1>1. b \in R /\ R \subseteq N
  BY DEF Progress, Rest
<1>2. d \in Dependency
  BY <1>1, Parts
<1>3. b \in Resolving(bs, R, d) /\ b \in Resolving(bs, N, d)
  BY <1>1 DEF Resolving
<1>4. left[d] = Cardinality(Resolving(bs, R, d)) /\ deps[d].resolvers = Cardinality(Resolving(bs, N, d))
  BY <1>2 DEF Progress, Counted
<1>5. /\ Cardinality(Resolving(bs, R, d)) \in Nat /\ Cardinality(Resolving(bs, R, d)) # 0
      /\ Cardinality(Resolving(bs, N, d)) \in Nat /\ Cardinality(Resolving(bs, N, d)) # 0
  <2>1. N \subseteq N
    OBVIOUS
  <2> HIDE DEF N, R
  <2>2. /\ Cardinality(Resolving(bs, R, d)) \in Nat
        /\ Cardinality(Resolving(bs, R, d)) = 0 <=> Resolving(bs, R, d) = {}
    BY <1>1, Finite DEF N
  <2>3. /\ Cardinality(Resolving(bs, N, d)) \in Nat
        /\ Cardinality(Resolving(bs, N, d)) = 0 <=> Resolving(bs, N, d) = {}
    BY <2>1, Finite DEF N
  <2> QED
    BY <1>3, <2>2, <2>3
<1> QED
  BY <1>4, <1>5

\* How many of the dependencies D hold b up.
HeldUp(deps, D, b) == Cardinality({d \in D : b \in deps[d].dependents})

\* What b being done does to the counters.
Noted(bs, deps, counts, left, ready, b, counts2, left2, ready2) ==
  \E done :
    /\ \A d \in Dependency : left2[d] = left[d] - (IF d \in bs[b].resolves THEN 1 ELSE 0)
    /\ \A d : d \in done <=> d \in bs[b].resolves /\ left2[d] = 0
    /\ \A c \in 1 .. Len(bs) : counts2[c] = counts[c] - HeldUp(deps, done, c)
    /\ \A c : c \in ready2 <=> \/ c \in ready /\ c # b
                               \/ c \in 1 .. Len(bs) /\ counts2[c] = 0 /\ counts[c] > 0

\* One behaviour is ready no more: what the counters say of those left is right again.
LEMMA Propagated ==
  ASSUME NEW bs \in Seq(Behavior), NEW deps, Counted(bs, deps),
         NEW counts, NEW left, NEW ready, NEW q, Progress(bs, counts, left, ready, q),
         NEW b \in ready, NEW counts2, NEW left2, NEW ready2,
         Noted(bs, deps, counts, left, ready, b, counts2, left2, ready2)
  PROVE  Progress(bs, counts2, left2, ready2, Append(q, b))
<1>0. PICK done :
    /\ \A d \in Dependency : left2[d] = left[d] - (IF d \in bs[b].resolves THEN 1 ELSE 0)
    /\ \A d : d \in done <=> d \in bs[b].resolves /\ left2[d] = 0
    /\ \A c \in 1 .. Len(bs) : counts2[c] = counts[c] - HeldUp(deps, done, c)
    /\ \A c : c \in ready2 <=> \/ c \in ready /\ c # b
                               \/ c \in 1 .. Len(bs) /\ counts2[c] = 0 /\ counts[c] > 0
  BY DEF Noted
<1> DEFINE N == 1 .. Len(bs)
           R == Rest(bs, q)
           S == R \ {b}
<1>1. /\ DOMAIN bs = N
      /\ \A c \in N : bs[c].depends \in SUBSET Dependency /\ bs[c].resolves \in SUBSET Dependency
  BY Parts
<1>2. /\ Prefix(bs, q) /\ b \in R /\ R \subseteq N /\ Awaited(bs, R, b) = {}
      /\ ready = {c \in R : Awaited(bs, R, c) = {}}
      /\ \A c \in N : counts[c] = Cardinality(Awaited(bs, R, c))
      /\ \A d \in Dependency : left[d] = Cardinality(Resolving(bs, R, d))
  BY DEF Progress, Rest
<1>3. Prefix(bs, Append(q, b)) /\ Rest(bs, Append(q, b)) = S
  BY <1>2, Longer
<1>4. \A c \in N \ R : Awaited(bs, R, c) = {}
  <2>1. SUFFICES ASSUME NEW c \in N, c \notin R PROVE Awaited(bs, R, c) = {}
    OBVIOUS
  <2>2. PICK j \in 1 .. Len(q) : q[j] = c
    BY <2>1 DEF Rest
  <2> QED
    BY <2>2, <1>2, DoneFree
<1>5. ASSUME NEW d
      PROVE  /\ Resolving(bs, S, d) = Resolving(bs, R, d) \ {b}
             /\ Cardinality(Resolving(bs, S, d)) =
                  Cardinality(Resolving(bs, R, d)) - (IF d \in bs[b].resolves THEN 1 ELSE 0)
  <2> DEFINE all == Resolving(bs, R, d)
             others == Resolving(bs, S, d)
  <2>1. R \subseteq 1 .. Len(bs) /\ b \in R
    BY <1>2
  <2> HIDE DEF R
  <2>2. others = all \ {b} /\ (b \in all <=> d \in bs[b].resolves)
    BY <2>1 DEF Resolving
  <2>3. IsFiniteSet(all) /\ Cardinality(all) \in Nat
    BY <2>1, Finite
  <2> HIDE DEF all, others
  <2>4. Cardinality(all \ {b}) = IF b \in all THEN Cardinality(all) - 1 ELSE Cardinality(all)
    BY <2>3, FS_RemoveElement
  <2>5. Cardinality(others) = Cardinality(all) - (IF d \in bs[b].resolves THEN 1 ELSE 0)
    BY <2>2, <2>3, <2>4
  <2> QED
    BY <2>2, <2>5 DEF all, others
<1>6. S \subseteq N
  BY <1>2
<1>7. \A d \in Dependency : deps[d].dependents = {c \in N : d \in bs[c].depends}
  BY DEF Counted
<1>8. /\ \A d : Cardinality(Resolving(bs, S, d)) = 0 <=> Resolving(bs, S, d) = {}
      /\ \A c \in N : /\ IsFiniteSet(Awaited(bs, R, c)) /\ Cardinality(Awaited(bs, R, c)) \in Nat
                      /\ Cardinality(Awaited(bs, R, c)) = 0 <=> Awaited(bs, R, c) = {}
                      /\ Cardinality(Awaited(bs, S, c)) = 0 <=> Awaited(bs, S, c) = {}
  BY <1>2, <1>6, Finite
<1>9. \A d \in Dependency : left2[d] = Cardinality(Resolving(bs, S, d))
  BY <1>0, <1>2, <1>5
<1>10. done = {d \in bs[b].resolves : Resolving(bs, S, d) = {}}
  <2>1. bs[b].resolves \in SUBSET Dependency
    BY <1>1, <1>2
  <2> HIDE DEF S, R, N
  <2> QED
    BY <2>1, <1>0, <1>8, <1>9
<1> HIDE DEF N, R, S
<1>11. \A c \in N : /\ counts2[c] = Cardinality(Awaited(bs, S, c))
                    /\ Awaited(bs, S, c) \subseteq Awaited(bs, R, c)
  <2>1. SUFFICES ASSUME NEW c \in N
                 PROVE  /\ counts2[c] = Cardinality(Awaited(bs, S, c))
                        /\ Awaited(bs, S, c) \subseteq Awaited(bs, R, c)
    OBVIOUS
  <2> DEFINE F == {d \in done : c \in deps[d].dependents}
  <2>2. bs[c].depends \in SUBSET Dependency /\ bs[b].resolves \in SUBSET Dependency
    BY <1>1, <1>2
  <2>3. ASSUME NEW d \in F PROVE d \in Awaited(bs, R, c) /\ d \notin Awaited(bs, S, c)
    <3>1. d \in bs[b].resolves /\ Resolving(bs, S, d) = {} /\ d \in bs[c].depends
      BY <1>7, <1>10, <2>2
    <3>2. b \in Resolving(bs, R, d)
      BY <3>1, <1>2 DEF Resolving
    <3> QED
      BY <3>1, <3>2 DEF Awaited
  <2>4. ASSUME NEW d \in Awaited(bs, R, c), d \notin F PROVE d \in Awaited(bs, S, c)
    <3>1. d \in bs[c].depends /\ Resolving(bs, R, d) # {}
      BY <2>4 DEF Awaited
    <3>2. CASE d \in bs[b].resolves
      <4>1. d \notin done
        BY <2>2, <2>4, <3>1, <1>7
      <4> QED
        BY <4>1, <3>1, <3>2, <1>10 DEF Awaited
    <3>3. CASE d \notin bs[b].resolves
      <4>1. b \notin Resolving(bs, R, d)
        BY <3>3 DEF Resolving
      <4> QED
        BY <4>1, <3>1, <1>5 DEF Awaited
    <3> QED
      BY <3>2, <3>3
  <2>5. Awaited(bs, S, c) \subseteq Awaited(bs, R, c)
    BY <1>5 DEF Awaited
  <2> HIDE DEF F
  <2>6. F \subseteq Awaited(bs, R, c) /\ Awaited(bs, S, c) = Awaited(bs, R, c) \ F
    BY <2>3, <2>4, <2>5
  <2>7. counts2[c] = counts[c] - Cardinality(F)
    BY <1>0 DEF F, HeldUp, N
  <2>8. Cardinality(Awaited(bs, R, c) \ F) = Cardinality(Awaited(bs, R, c)) - Cardinality(F)
    BY <2>6, <1>8, TakenOut
  <2> QED
    BY <2>5, <2>6, <2>7, <2>8, <1>2
<1>12. ready2 = {c \in S : Awaited(bs, S, c) = {}}
  <2>1. ASSUME NEW c \in ready2 PROVE c \in S /\ Awaited(bs, S, c) = {}
    <3>1. CASE c \in ready \ {b}
      BY <3>1, <1>2, <1>11 DEF S
    <3>2. CASE c \in N /\ counts2[c] = 0 /\ counts[c] > 0
      <4>1. Awaited(bs, S, c) = {} /\ Awaited(bs, R, c) # {}
        BY <3>2, <1>2, <1>8, <1>11
      <4> QED
        BY <4>1, <3>2, <1>2, <1>4 DEF S
    <3> QED
      BY <3>1, <3>2, <1>0 DEF N
  <2>2. ASSUME NEW c \in S, Awaited(bs, S, c) = {} PROVE c \in ready2
    <3>1. c \in N /\ c \in R /\ c # b /\ counts2[c] = 0
      BY <2>2, <1>2, <1>8, <1>11 DEF S
    <3>2. CASE counts[c] = 0
      BY <3>1, <3>2, <1>0, <1>2, <1>8
    <3>3. CASE counts[c] # 0
      <4>1. counts[c] > 0
        BY <3>1, <3>3, <1>2, <1>8
      <4> QED
        BY <4>1, <3>1, <1>0 DEF N
    <3> QED
      BY <3>2, <3>3
  <2> QED
    BY <2>1, <2>2
<1> QED
  BY <1>3, <1>9, <1>11, <1>12 DEF Progress, N

LEMMA Earliest ==
  ASSUME NEW A \in SUBSET Nat, A # {}
  PROVE  \E m \in A : \A a \in A : m <= a
<1> DEFINE R == {xy \in Nat \X Nat : xy[1] < xy[2]}
<1>1. IsWellFoundedOn(R, Nat)
  BY NatLessThanWellFounded DEF OpToRel
<1>2. PICK m \in A : \A a \in A : ~ (<<a, m>> \in R)
  <2> HIDE DEF R
  <2> QED
    BY <1>1, WFMin
<1>3. \A a \in A : a \in Nat /\ m \in Nat /\ ~ (a < m)
  BY <1>2
<1> QED
  BY <1>3

\* An order has each behaviour in it once.
LEMMA OrderIs ==
  ASSUME NEW bs \in Seq(Behavior)
  PROVE  /\ Orders(bs) =
              {o \in [1 .. Len(bs) -> 1 .. Len(bs)] :
                 /\ \A i, j \in 1 .. Len(bs) : o[i] = o[j] => i = j
                 /\ \A i, j \in 1 .. Len(bs) :
                      bs[o[j]].depends \cap bs[o[i]].resolves # {} => i < j}
         /\ \A o \in Orders(bs) : \A b \in 1 .. Len(bs) : \E i \in 1 .. Len(bs) : o[i] = b
<1> DEFINE N == 1 .. Len(bs)
<1>1. DOMAIN bs = N /\ IsFiniteSet(N) /\ Cardinality(N) = Len(bs)
  BY Parts
<1>2. SetToSeqs(N) = {o \in [N -> N] : \A i, j \in N : i # j => o[i] # o[j]}
  BY <1>1 DEF SetToSeqs
<1> HIDE DEF N
<1>3. Orders(bs) = {o \in [N -> N] : /\ \A i, j \in N : o[i] = o[j] => i = j
                                     /\ \A i, j \in N :
                                          bs[o[j]].depends \cap bs[o[i]].resolves # {} => i < j}
  <2>1. ASSUME NEW o \in [N -> N]
        PROVE  DOMAIN o = N /\ ((\A i, j \in N : i # j => o[i] # o[j])
                                   <=> \A i, j \in N : o[i] = o[j] => i = j)
    OBVIOUS
  <2>2. Orders(bs) = {o \in SetToSeqs(N) : \A i, j \in DOMAIN o :
                        bs[o[j]].depends \cap bs[o[i]].resolves # {} => i < j}
    BY <1>1 DEF Orders
  <2> QED
    BY <1>2, <2>1, <2>2
<1>4. ASSUME NEW o \in Orders(bs), NEW b \in N PROVE \E i \in N : o[i] = b
  <2>1. o \in Injection(N, N)
    BY <1>3 DEF Injection, IsInjective
  <2>2. o \in Surjection(N, N)
    BY <1>1, <2>1, FS_Injection
  <2> QED
    BY <2>2 DEF Surjection
<1> QED
  BY <1>3, <1>4 DEF N

\* If those left all wait for one another, there is no order: the first of them
\* in it waits for somebody who comes later.
LEMMA NoneLeftOver ==
  ASSUME NEW bs \in Seq(Behavior), NEW counts, NEW left, NEW q, Progress(bs, counts, left, {}, q),
         NEW b \in 1 .. Len(bs), counts[b] > 0
  PROVE  Orders(bs) = {}
<1> DEFINE N == 1 .. Len(bs)
           R == Rest(bs, q)
<1>1. /\ R \subseteq N /\ \A c \in R : Awaited(bs, R, c) # {}
      /\ counts[b] = Cardinality(Awaited(bs, R, b))
  BY DEF Progress, Rest
<1>2. Cardinality(Awaited(bs, R, b)) = 0 <=> Awaited(bs, R, b) = {}
  BY <1>1, Finite
<1>3. R # {}
  <2>1. Awaited(bs, R, b) # {}
    BY <1>1, <1>2
  <2> HIDE DEF R
  <2> QED
    BY <2>1 DEF Awaited, Resolving
<1> HIDE DEF N, R
<1>4. ASSUME NEW o \in Orders(bs) PROVE FALSE
  <2> DEFINE P == {i \in N : o[i] \in R}
  <2>1. /\ \A c \in N : \E i \in N : o[i] = c
        /\ \A i, j \in N : bs[o[j]].depends \cap bs[o[i]].resolves # {} => i < j
    BY OrderIs DEF N
  <2>2. P \in SUBSET Nat /\ P # {}
    <3>1. PICK c \in R : c \in N
      BY <1>1, <1>3
    <3>2. PICK k \in N : o[k] = c
      BY <2>1, <3>1
    <3> QED
      BY <3>1, <3>2 DEF N
  <2>3. PICK i \in P : \A k \in P : i <= k
    <3> HIDE DEF P
    <3> QED
      BY <2>2, Earliest
  <2>4. PICK d : d \in bs[o[i]].depends /\ Resolving(bs, R, d) # {}
    BY <1>1 DEF Awaited
  <2>5. PICK c \in R : d \in bs[c].resolves
    BY <2>4 DEF Resolving
  <2>6. PICK k \in N : o[k] = c
    BY <1>1, <2>1
  <2>7. k \in P /\ k < i
    BY <2>1, <2>4, <2>5, <2>6
  <2> QED
    BY <2>2, <2>3, <2>7
<1> QED
  BY <1>4

\* If nobody is left, the sort has found an order.
LEMMA AllInOrder ==
  ASSUME NEW bs \in Seq(Behavior), NEW counts, NEW left, NEW q, Progress(bs, counts, left, {}, q),
         \A b \in 1 .. Len(bs) : ~ (counts[b] > 0)
  PROVE  q \in Orders(bs)
<1> DEFINE N == 1 .. Len(bs)
           R == Rest(bs, q)
           M == 1 .. Len(q)
<1>1. /\ R \subseteq N /\ \A c \in R : Awaited(bs, R, c) # {}
      /\ \A c \in N : counts[c] = Cardinality(Awaited(bs, R, c))
  BY DEF Progress, Rest
<1>2. \A c \in N : /\ Cardinality(Awaited(bs, R, c)) \in Nat
                   /\ Cardinality(Awaited(bs, R, c)) = 0 <=> Awaited(bs, R, c) = {}
  BY <1>1, Finite
<1>3. R = {}
  <2> HIDE DEF R, N
  <2>1. ASSUME NEW c \in R PROVE FALSE
    <3>1. c \in N /\ ~ (counts[c] > 0)
      BY <1>1 DEF N
    <3> QED
      BY <3>1, <1>1, <1>2
  <2> QED
    BY <2>1
<1>4. /\ q \in Seq(N) /\ \A i, j \in M : q[i] = q[j] => i = j
      /\ \A j \in M : \A d \in bs[q[j]].depends : \A b \in Resolving(bs, N, d) :
           \E i \in M : i < j /\ q[i] = b
  BY DEF Progress, Prefix
<1>5. \A b \in N : \E i \in M : q[i] = b
  BY <1>3 DEF Rest
<1>6. q \in [M -> N] /\ Len(q) \in Nat
  BY <1>4
<1>7. /\ IsFiniteSet(N) /\ Cardinality(N) = Len(bs) /\ Len(bs) \in Nat
      /\ IsFiniteSet(M) /\ Cardinality(M) = Len(q)
  <2>1. IsFiniteSet(M) /\ Cardinality(M) = IF 1 > Len(q) THEN 0 ELSE Len(q) - 1 + 1
    <3>1. 1 \in Int /\ Len(q) \in Int
      BY <1>6
    <3> QED
      BY <3>1, FS_Interval
  <2> QED
    BY <1>6, <2>1, Parts
<1> HIDE DEF N, M, R
<1>8. Cardinality(M) = Cardinality(N)
  <2>1. q \in Injection(M, N) /\ q \in Surjection(M, N)
    BY <1>4, <1>5, <1>6 DEF Injection, IsInjective, Surjection
  <2>2. Cardinality(M) = Cardinality(N) <=> q \in Surjection(M, N)
    BY <1>7, <2>1, FS_Injection
  <2> QED
    BY <2>1, <2>2
<1>9. M = N
  BY <1>7, <1>8 DEF M, N
<1>10. ASSUME NEW i \in N, NEW j \in N, bs[q[j]].depends \cap bs[q[i]].resolves # {}
       PROVE  i < j
  <2>1. PICK d : d \in bs[q[j]].depends /\ d \in bs[q[i]].resolves
    BY <1>10
  <2>2. q[i] \in Resolving(bs, N, d)
    BY <2>1, <1>6, <1>9 DEF Resolving
  <2>3. PICK k \in M : k < j /\ q[k] = q[i]
    BY <1>4, <1>9, <2>1, <2>2
  <2> QED
    BY <2>3, <1>4, <1>9
<1>11. q \in [N -> N]
  BY <1>6, <1>9
<1>12. Orders(bs) = {o \in [N -> N] : /\ \A i, j \in N : o[i] = o[j] => i = j
                                      /\ \A i, j \in N :
                                           bs[o[j]].depends \cap bs[o[i]].resolves # {} => i < j}
  BY OrderIs DEF N
<1> QED
  BY <1>4, <1>9, <1>10, <1>11, <1>12

-----------------------------------------------------------------------------
(* The list.                                                               *)

LEMMA NothingPushed ==
  ASSUME NEW deps, deps = [d \in Dependency |-> [dependents |-> {}, resolvers |-> 0]]
  PROVE  <<>> \in Seq(Behavior) /\ Counted(<<>>, deps)
<1>1. Len(<<>>) = 0 /\ 1 .. 0 = {} /\ <<>> \in Seq(Behavior)
  OBVIOUS
<1>2. \A d \in Dependency : Resolving(<<>>, 1 .. Len(<<>>), d) = {}
  BY <1>1 DEF Resolving
<1>3. \A d \in Dependency : deps[d].dependents = {} /\ deps[d].resolvers = 0
  OBVIOUS
<1> QED
  BY <1>1, <1>2, <1>3, FS_EmptySet DEF Counted

\* A behaviour is pushed to the list bs, with its dependencies known as in deps.
Pushed(bs, deps, depends, resolves, bs2, deps2) ==
  /\ bs2 = Append(bs, OrderedBehavior(depends, resolves))
  /\ \A d \in Dependency :
       /\ deps2[d].dependents =
            deps[d].dependents \cup (IF d \in depends THEN {Len(bs) + 1} ELSE {})
       /\ deps2[d].resolvers = deps[d].resolvers + (IF d \in resolves THEN 1 ELSE 0)

\* Dependents and resolvers are those of the longer list.
LEMMA OneMore ==
  ASSUME NEW bs \in Seq(Behavior), NEW deps, Counted(bs, deps),
         NEW depends \in SUBSET Dependency, NEW resolves \in SUBSET Dependency,
         NEW bs2, NEW deps2, Pushed(bs, deps, depends, resolves, bs2, deps2)
  PROVE  bs2 \in Seq(Behavior) /\ Counted(bs2, deps2)
<1> DEFINE new == OrderedBehavior(depends, resolves)
           N == 1 .. Len(bs)
           n == Len(bs) + 1
<1>1. /\ new \in Behavior /\ new.dep_count = Cardinality(depends)
      /\ new.depends = depends /\ new.resolves = resolves
  <2>1. Cardinality(depends) \in Nat
    BY BehaviorAssumption, FS_Subset, FS_CardinalityType
  <2> QED
    BY <2>1 DEF OrderedBehavior, Behavior
<1> HIDE DEF new
<1>2. /\ bs2 \in Seq(Behavior) /\ Len(bs2) = n /\ bs2[n] = new
      /\ \A b \in N : bs2[b] = bs[b]
      /\ 1 .. Len(bs2) = N \cup {n} /\ n \notin N
  BY <1>1 DEF new, Pushed
<1>3. \A d \in Dependency : /\ deps[d].dependents = {b \in N : d \in bs[b].depends}
                            /\ deps[d].resolvers = Cardinality(Resolving(bs, N, d))
  BY DEF Counted
<1>4. \A b \in N : bs[b].dep_count = Cardinality(bs[b].depends)
  BY DEF Counted
<1> HIDE DEF N, n
<1>5. \A b \in 1 .. Len(bs2) : bs2[b].dep_count = Cardinality(bs2[b].depends)
  BY <1>1, <1>2, <1>4
<1>6. ASSUME NEW d \in Dependency
      PROVE  /\ deps2[d].dependents = {b \in 1 .. Len(bs2) : d \in bs2[b].depends}
             /\ deps2[d].resolvers = Cardinality(Resolving(bs2, 1 .. Len(bs2), d))
  <2> DEFINE old == Resolving(bs, N, d)
  <2>1. /\ deps2[d].dependents = deps[d].dependents \cup (IF d \in depends THEN {n} ELSE {})
        /\ deps2[d].resolvers = deps[d].resolvers + (IF d \in resolves THEN 1 ELSE 0)
    BY DEF n, Pushed
  <2>2. deps2[d].dependents = {b \in 1 .. Len(bs2) : d \in bs2[b].depends}
    <3>1. CASE d \in depends
      BY <3>1, <2>1, <1>1, <1>2, <1>3
    <3>2. CASE d \notin depends
      BY <3>2, <2>1, <1>1, <1>2, <1>3
    <3> QED
      BY <3>1, <3>2
  <2>3. IsFiniteSet(old) /\ Cardinality(old) \in Nat /\ n \notin old
    <3>1. IsFiniteSet(old) /\ Cardinality(old) \in Nat
      BY Finite DEF N
    <3> QED
      BY <3>1, <1>2 DEF Resolving
  <2>4. Resolving(bs2, 1 .. Len(bs2), d) = IF d \in resolves THEN old \cup {n} ELSE old
    BY <1>1, <1>2 DEF Resolving
  <2> HIDE DEF old
  <2>5. Cardinality(old \cup {n}) = Cardinality(old) + 1
    BY <2>3, FS_AddElement
  <2>6. deps[d].resolvers = Cardinality(old)
    BY <1>3 DEF old
  <2>7. deps2[d].resolvers = Cardinality(Resolving(bs2, 1 .. Len(bs2), d))
    BY <2>1, <2>3, <2>4, <2>5, <2>6
  <2> QED
    BY <2>2, <2>7
<1> QED
  BY <1>2, <1>5, <1>6 DEF Counted

-----------------------------------------------------------------------------
(* The actions.                                                            *)

LEMMA PushListInv ==
  ASSUME ListInv, sort = NoSort,
         NEW depends \in SUBSET Dependency, NEW resolves \in SUBSET Dependency,
         Push(depends, resolves)
  PROVE  ListInv'
<1>1. behaviors' \in Seq(Behavior) /\ Counted(behaviors', dependents_on')
  <2>1. behaviors \in Seq(Behavior) /\ Counted(behaviors, dependents_on)
    BY DEF ListInv
  <2>2. Pushed(behaviors, dependents_on, depends, resolves, behaviors', dependents_on')
    BY DEF Push, Pushed
  <2>3. depends \in SUBSET Dependency /\ resolves \in SUBSET Dependency
    OBVIOUS
  <2> QED
    BY ONLY <2>1, <2>2, <2>3, OneMore
<1>2. SortExact(behaviors', sort')
  BY DEF Push, SortExact, NoSort
<1>3. behaviors_topos' = NoOrder
  BY DEF Push, Invalidated
<1> QED
  BY <1>1, <1>2, <1>3 DEF ListInv

LEMMA SortBeginListInv ==
  ASSUME ListInv, SortBegin
  PROVE  ListInv'
<1> DEFINE free == {d \in Dependency : dependents_on[d].resolvers = 0}
           counts == [b \in DOMAIN behaviors |-> behaviors[b].dep_count - Blocked(b, free)]
           left == [d \in Dependency |-> dependents_on[d].resolvers]
           ready == {b \in DOMAIN behaviors : counts[b] = 0}
<1>1. sort' = Running(counts, left, ready, <<>>)
  BY DEF SortBegin, Running
<1>2. Progress(behaviors, counts, left, ready, <<>>)
  <2>1. counts = [b \in DOMAIN behaviors |-> behaviors[b].dep_count
                    - Cardinality({d \in free : b \in dependents_on[d].dependents})]
    BY DEF Blocked
  <2>2. behaviors \in Seq(Behavior) /\ Counted(behaviors, dependents_on)
    BY DEF ListInv
  <2> HIDE DEF counts, ready
  <2>3. ready = {b \in DOMAIN behaviors : counts[b] = 0}
    BY DEF ready
  <2>4. left = [d \in Dependency |-> dependents_on[d].resolvers]
    OBVIOUS
  <2> HIDE DEF left
  <2>5. free = {d \in Dependency : dependents_on[d].resolvers = 0}
    OBVIOUS
  <2> HIDE DEF free
  <2> QED
    BY ONLY <2>1, <2>2, <2>3, <2>4, <2>5, BeginOK
<1> HIDE DEF counts, left, ready
<1>3. SortExact(behaviors, sort')
  BY <1>1, <1>2 DEF SortExact, Running
<1> QED
  BY <1>3 DEF ListInv, SortBegin

LEMMA PropagateListInv ==
  ASSUME ListInv, NEW b, Propagate(b)
  PROVE  ListInv'
<1> DEFINE counts == sort.behavior_counts
           left == sort.resolvers
           ready == sort.ready
           q == sort.toposorted
           left2 == [d \in Dependency |->
                       left[d] - (IF d \in behaviors[b].resolves THEN 1 ELSE 0)]
           done == {d \in behaviors[b].resolves : left2[d] = 0}
           counts2 == [c \in DOMAIN behaviors |-> counts[c] - Blocked(c, done)]
           ready2 == (ready \ {b}) \cup {c \in DOMAIN behaviors :
                        counts2[c] = 0 /\ counts[c] > 0}
<1>1. /\ behaviors \in Seq(Behavior) /\ Counted(behaviors, dependents_on)
      /\ SortExact(behaviors, sort) /\ sort.state = "running" /\ b \in ready
  BY DEF ListInv, Propagate
<1>2. sort = Running(counts, left, ready, q) /\ Progress(behaviors, counts, left, ready, q)
  BY <1>1 DEF SortExact
<1>3. \A d \in behaviors[b].resolves : Known(d) /\ left[d] # 0
  <2>1. Progress(behaviors, counts, left, ready, q) /\ b \in ready
    BY <1>1, <1>2
  <2> HIDE DEF counts, left, ready, q
  <2>2. ASSUME NEW d \in behaviors[b].resolves
        PROVE  dependents_on[d].resolvers > 0 /\ left[d] # 0
    BY ONLY <1>1, <2>1, d \in behaviors[b].resolves, NoUnderflow
  <2> QED
    BY <2>2 DEF Known
<1>4. sort' = Running(counts2, left2, ready2, Append(q, b))
  <2>1. sort' = [sort EXCEPT !.behavior_counts = counts2, !.resolvers = left2,
                             !.ready = ready2, !.toposorted = Append(q, b)]
    BY <1>3 DEF Propagate
  <2> HIDE DEF counts2, left2, ready2, counts, left, ready, q
  <2> QED
    BY <2>1, <1>2 DEF Running
<1>5. Progress(behaviors, counts2, left2, ready2, Append(q, b))
  <2>1. /\ Progress(behaviors, counts, left, ready, q) /\ b \in ready
        /\ behaviors \in Seq(Behavior) /\ Counted(behaviors, dependents_on)
    BY <1>1, <1>2
  <2> HIDE DEF counts, left, ready, q
  <2>2. Noted(behaviors, dependents_on, counts, left, ready, b, counts2, left2, ready2)
    <3>1. \A c \in 1 .. Len(behaviors) : counts2[c] = counts[c] - HeldUp(dependents_on, done, c)
      BY <2>1, Parts DEF Blocked, HeldUp
    <3>2. \A c : c \in ready2 <=> \/ c \in ready /\ c # b
                                  \/ c \in 1 .. Len(behaviors) /\ counts2[c] = 0 /\ counts[c] > 0
      BY <2>1, Parts
    <3> HIDE DEF counts2, ready2
    <3>3. \A d : d \in done <=> d \in behaviors[b].resolves /\ left2[d] = 0
      OBVIOUS
    <3> HIDE DEF done
    <3> QED
      BY <3>1, <3>2, <3>3 DEF Noted
  <2> HIDE DEF counts2, left2, ready2
  <2> QED
    BY ONLY <2>1, <2>2, Propagated
<1> HIDE DEF counts2, left2, ready2, q
<1>6. SortExact(behaviors, sort')
  BY <1>4, <1>5 DEF SortExact, Running
<1> QED
  BY <1>6 DEF ListInv, Propagate

LEMMA SortEndListInv ==
  ASSUME ListInv, SortEnd
  PROVE  ListInv'
<1> DEFINE counts == sort.behavior_counts
           left == sort.resolvers
           q == sort.toposorted
<1>1. /\ behaviors \in Seq(Behavior) /\ SortExact(behaviors, sort) /\ sort.state = "running"
      /\ sort.ready = {} /\ DOMAIN behaviors = 1 .. Len(behaviors)
  BY DEF ListInv, SortEnd
<1>2. Progress(behaviors, counts, left, {}, q)
  BY <1>1 DEF SortExact
<1>3. CASE \E b \in DOMAIN behaviors : counts[b] > 0
  <2>1. sort'.state = "panic" /\ UNCHANGED <<behaviors, dependents_on, behaviors_topos>>
    BY <1>3 DEF SortEnd
  <2>2. PICK b \in 1 .. Len(behaviors) : counts[b] > 0
    BY <1>1, <1>3
  <2>3. Orders(behaviors) = {}
    <3> HIDE DEF counts, left, q
    <3> QED
      BY <1>1, <1>2, <2>2, NoneLeftOver
  <2> QED
    BY <2>1, <2>3 DEF ListInv, SortExact
<1>4. CASE ~ \E b \in DOMAIN behaviors : counts[b] > 0
  <2>1. sort' = NoSort /\ behaviors_topos' = q /\ UNCHANGED <<behaviors, dependents_on>>
    BY <1>4 DEF SortEnd
  <2>2. \A b \in 1 .. Len(behaviors) : ~ (counts[b] > 0)
    BY <1>1, <1>4
  <2>3. q \in Orders(behaviors)
    <3> HIDE DEF counts, left, q
    <3> QED
      BY <1>1, <1>2, <2>2, AllInOrder
  <2> QED
    BY <2>1, <2>3 DEF ListInv, SortExact, NoSort
<1> QED
  BY <1>3, <1>4

LEMMA BehaviorInit ==
  ASSUME Init
  PROVE  BehaviorInv
<1>1. /\ behaviors = <<>> /\ sort = NoSort /\ behaviors_topos = NoOrder
      /\ dependents_on = [d \in Dependency |-> [dependents |-> {}, resolvers |-> 0]]
  BY DEF Init, BehaviorsInit
<1>2. behaviors \in Seq(Behavior) /\ Counted(behaviors, dependents_on)
  BY <1>1, NothingPushed
<1>3. SortExact(behaviors, sort)
  BY <1>1 DEF SortExact, NoSort
<1> QED
  BY <1>1, <1>2, <1>3 DEF BehaviorInv, ListInv

LEMMA ListUnchanged ==
  ASSUME BehaviorInv, UNCHANGED behaviorVars
  PROVE  BehaviorInv'
BY DEF BehaviorInv, ListInv, behaviorVars

\* Only what is registered and the sort change the list.
LEMMA WhoChangesTheList ==
  ASSUME [Next]_dispatchVars
  PROVE  Register \/ Sort \/ UNCHANGED behaviorVars
<1>1. CASE QueryStep
  BY <1>1 DEF QueryStep
<1>2. CASE DrainStep
  BY <1>2 DEF DrainStep, BeginDrain, FirstCall, RunBehavior, DeadTarget, SkipEvent,
              HandleEvent, NextCall
<1>3. CASE KeepEvents \/ ClearEvents
  BY <1>3 DEF KeepEvents, ClearEvents, NextFrame
<1>4. CASE UNCHANGED dispatchVars
  BY <1>4 DEF dispatchVars
<1> QED
  BY <1>1, <1>2, <1>3, <1>4 DEF Next, Step

LEMMA RegisterListInv ==
  ASSUME BehaviorInv, Register
  PROVE  BehaviorInv'
<1>1. sort = NoSort
  BY DEF Register
<1>2. CASE \E kind \in Kinds : Push(kind[1], kind[2])
  <2>1. PICK kind \in Kinds : Push(kind[1], kind[2])
    BY <1>2
  <2>2. kind[1] \in SUBSET Dependency /\ kind[2] \in SUBSET Dependency
    BY DispatchAssumption
  <2>3. extended' = extended
    BY <2>1 DEF Push
  <2> QED
    BY <1>1, <2>1, <2>2, <2>3, PushListInv DEF BehaviorInv
<1>3. CASE \E kind \in Merged : Extend(kind[1], kind[2])
  BY <1>3 DEF Extend, BehaviorInv
<1> QED
  BY <1>2, <1>3 DEF Register

LEMMA SortListInv ==
  ASSUME BehaviorInv, Sort
  PROVE  BehaviorInv'
<1>1. SortStep /\ extended' = extended
  BY DEF Sort, SortStep, SortBegin, SortEnd, Propagate
<1> QED
  BY <1>1, SortBeginListInv, PropagateListInv, SortEndListInv DEF SortStep, BehaviorInv

\* The list, while nothing was merged into it, has counted what its behaviours
\* depend on and resolve, a sort under way knows what is left of that, and its
\* outcome is an order or a panic for want of one.
THEOREM ListTheorem == Spec => []BehaviorInv
<1>1. BehaviorInv /\ [Next]_dispatchVars => BehaviorInv'
  BY WhoChangesTheList, RegisterListInv, SortListInv, ListUnchanged
<1> QED
  BY BehaviorInit, <1>1, PTL DEF Spec

\* BehaviorsOrdered, for any behaviours and dependencies: drive runs each
\* behaviour once and after all those which resolve what it depends on, also
\* after a push to a list already driven, and it panics over cyclic dependencies
\* only if there is no such order.
THEOREM OrderTheorem == Spec => []BehaviorsOrdered
<1>1. ValidOrders = Orders(behaviors)
  BY DEF ValidOrders, Orders
<1>2. BehaviorInv => BehaviorsOrdered
  <2>1. SortExact(behaviors, sort) /\ sort.state = "panic" => Orders(behaviors) = {}
    BY DEF SortExact, Running
  <2> QED
    BY <1>1, <2>1 DEF BehaviorInv, ListInv, BehaviorsOrdered
<1> QED
  BY ListTheorem, <1>2, PTL

-----------------------------------------------------------------------------
(* Flattened sequences.                                                    *)

\* f[n] is the concatenation of the first n sequences.
Flattens(f, seqs, n) ==
  \A i \in 1 .. n : f[i] = IF i = 1 THEN seqs[i] ELSE f[i - 1] \o seqs[i]

\* Element k of F is element col[k] of the sequence row[k], for every element of the first
\* n sequences once.
Placed(F, seqs, n, row, col) ==
  /\ \A k \in 1 .. Len(F) : col[k] \in 1 .. Len(seqs[row[k]]) /\ F[k] = seqs[row[k]][col[k]]
  /\ \A k, l \in 1 .. Len(F) : row[k] = row[l] /\ col[k] = col[l] => k = l
  /\ \A i \in 1 .. n : \A j \in 1 .. Len(seqs[i]) :
       \E k \in 1 .. Len(F) : row[k] = i /\ col[k] = j

\* The elements of F are those of the first n sequences, each from a place of its own.
Located(F, seqs, n) ==
  \E row \in [1 .. Len(F) -> 1 .. n], col \in [1 .. Len(F) -> Nat] : Placed(F, seqs, n, row, col)

LEMMA FlatteningExists ==
  ASSUME NEW seqs, NEW m \in Nat
  PROVE  \E f : f = [i \in 1 .. m |-> f[i]] /\ Flattens(f, seqs, m)
<1> DEFINE Has(n) == \E f : f = [i \in 1 .. n |-> f[i]] /\ Flattens(f, seqs, n)
           A == {n \in Nat : ~ Has(n)}
<1>1. Has(0)
  <2> DEFINE f == [i \in 1 .. 0 |-> 0]
  <2>1. 1 .. 0 = {}
    OBVIOUS
  <2>2. f = [i \in 1 .. 0 |-> f[i]]
    OBVIOUS
  <2>3. Flattens(f, seqs, 0)
    BY <2>1 DEF Flattens
  <2> QED
    BY <2>2, <2>3
<1>2. ASSUME NEW n \in Nat \ {0}, Has(n - 1) PROVE Has(n)
  <2>1. PICK f : f = [i \in 1 .. n - 1 |-> f[i]] /\ Flattens(f, seqs, n - 1)
    BY <1>2
  <2> DEFINE new == IF n = 1 THEN seqs[n] ELSE f[n - 1] \o seqs[n]
             g == [i \in 1 .. n |-> IF i = n THEN new ELSE f[i]]
  <2>2. g = [i \in 1 .. n |-> g[i]]
    OBVIOUS
  <2>3. g[n] = new /\ \A i \in 1 .. n : i # n => i \in 1 .. n - 1 /\ g[i] = f[i]
    OBVIOUS
  <2> HIDE DEF g
  <2>4. ASSUME NEW i \in 1 .. n PROVE g[i] = IF i = 1 THEN seqs[i] ELSE g[i - 1] \o seqs[i]
    <3>1. CASE i = n
      <4>1. n # 1 => n - 1 \in 1 .. n /\ n - 1 # n
        OBVIOUS
      <4>2. n # 1 => g[n - 1] = f[n - 1]
        BY <4>1, <2>3
      <4> QED
        BY <3>1, <4>2, <2>3
    <3>2. CASE i # n
      <4>1. i \in 1 .. n - 1 /\ g[i] = f[i] /\ (i # 1 => i - 1 \in 1 .. n /\ i - 1 # n)
        BY <3>2, <2>3
      <4>2. i # 1 => g[i - 1] = f[i - 1]
        BY <4>1, <2>3
      <4>3. f[i] = IF i = 1 THEN seqs[i] ELSE f[i - 1] \o seqs[i]
        BY <4>1, <2>1 DEF Flattens
      <4> QED
        BY <4>1, <4>2, <4>3
    <3> QED
      BY <3>1, <3>2
  <2> QED
    BY <2>2, <2>4 DEF Flattens
<1> HIDE DEF Has
<1>3. A = {}
  <2>1. SUFFICES ASSUME A # {} PROVE FALSE
    OBVIOUS
  <2>2. PICK n \in A : \A a \in A : n <= a
    <3>1. A \in SUBSET Nat
      OBVIOUS
    <3> HIDE DEF A
    <3> QED
      BY <3>1, <2>1, Earliest
  <2>3. n # 0 /\ n \in Nat /\ ~ Has(n)
    BY <2>2, <1>1
  <2>4. n - 1 \in Nat /\ n - 1 \notin A
    BY <2>2, <2>3
  <2> QED
    BY <2>3, <2>4, <1>2
<1>4. Has(m)
  BY <1>3
<1> QED
  BY <1>4 DEF Has

LEMMA FlattenIs ==
  ASSUME NEW seqs, Len(seqs) \in Nat \ {0}
  PROVE  \E f : Flattens(f, seqs, Len(seqs)) /\ FlattenSeq(seqs) = f[Len(seqs)]
<1> DEFINE n == Len(seqs)
           f == CHOOSE f : f = [i \in 1 .. n |-> IF i = 1 THEN seqs[i] ELSE f[i - 1] \o seqs[i]]
<1>1. FlattenSeq(seqs) = f[n]
  BY DEF FlattenSeq
<1>2. PICK g : g = [i \in 1 .. n |-> g[i]] /\ Flattens(g, seqs, n)
  BY FlatteningExists
<1>3. g = [i \in 1 .. n |-> IF i = 1 THEN seqs[i] ELSE g[i - 1] \o seqs[i]]
  BY <1>2 DEF Flattens
<1>4. f = [i \in 1 .. n |-> IF i = 1 THEN seqs[i] ELSE f[i - 1] \o seqs[i]]
  BY <1>3
<1> HIDE DEF f
<1>5. Flattens(f, seqs, n)
  BY <1>4 DEF Flattens
<1> QED
  BY <1>1, <1>5


LEMMA Joined ==
  ASSUME NEW X, NEW u \in Seq(X), NEW v \in Seq(X)
  PROVE  /\ u \o v \in Seq(X) /\ Len(u) \in Nat /\ Len(v) \in Nat
         /\ Len(u \o v) = Len(u) + Len(v)
         /\ \A k \in 1 .. Len(u) + Len(v) :
              (u \o v)[k] = IF k <= Len(u) THEN u[k] ELSE v[k - Len(u)]
OBVIOUS

\* One sequence more.
LEMMA LocatedMore ==
  ASSUME NEW X, NEW seqs \in Seq(Seq(X)), NEW n \in Nat, n + 1 \in 1 .. Len(seqs),
         NEW F \in Seq(X), n # 0 => Located(F, seqs, n), n = 0 => F = <<>>
  PROVE  F \o seqs[n + 1] \in Seq(X) /\ Located(F \o seqs[n + 1], seqs, n + 1)
<1> DEFINE s == seqs[n + 1]
           G == F \o s
<1>1. s \in Seq(X)
  OBVIOUS
<1>2. /\ G \in Seq(X) /\ Len(F) \in Nat /\ Len(s) \in Nat /\ Len(G) = Len(F) + Len(s)
      /\ \A k \in 1 .. Len(G) : G[k] = IF k <= Len(F) THEN F[k] ELSE s[k - Len(F)]
  BY <1>1
<1>3. \E row \in [1 .. Len(F) -> 1 .. n], col \in [1 .. Len(F) -> Nat] :
        /\ \A k \in 1 .. Len(F) : col[k] \in 1 .. Len(seqs[row[k]]) /\ F[k] = seqs[row[k]][col[k]]
        /\ \A k, l \in 1 .. Len(F) : row[k] = row[l] /\ col[k] = col[l] => k = l
        /\ \A i \in 1 .. n : \A j \in 1 .. Len(seqs[i]) :
             \E k \in 1 .. Len(F) : row[k] = i /\ col[k] = j
  <2>1. CASE n = 0
    <3> DEFINE none == [k \in 1 .. Len(F) |-> 0]
    <3>1. 1 .. Len(F) = {} /\ 1 .. n = {}
      BY <2>1
    <3>2. none \in [1 .. Len(F) -> 1 .. n] /\ none \in [1 .. Len(F) -> Nat]
      BY <3>1
    <3> QED
      BY <3>1, <3>2
  <2>2. CASE n # 0
    BY <2>2 DEF Located, Placed
  <2> QED
    BY <2>1, <2>2
<1>4. PICK row \in [1 .. Len(F) -> 1 .. n], col \in [1 .. Len(F) -> Nat] :
        /\ \A k \in 1 .. Len(F) : col[k] \in 1 .. Len(seqs[row[k]]) /\ F[k] = seqs[row[k]][col[k]]
        /\ \A k, l \in 1 .. Len(F) : row[k] = row[l] /\ col[k] = col[l] => k = l
        /\ \A i \in 1 .. n : \A j \in 1 .. Len(seqs[i]) :
             \E k \in 1 .. Len(F) : row[k] = i /\ col[k] = j
  BY <1>3
<1> DEFINE row2 == [k \in 1 .. Len(G) |-> IF k <= Len(F) THEN row[k] ELSE n + 1]
           col2 == [k \in 1 .. Len(G) |-> IF k <= Len(F) THEN col[k] ELSE k - Len(F)]
<1> HIDE DEF G, s
<1>5. \A k \in 1 .. Len(G) :
        IF k <= Len(F) THEN k \in 1 .. Len(F) /\ row2[k] = row[k] /\ row2[k] \in 1 .. n
                            /\ col2[k] = col[k] /\ G[k] = F[k]
        ELSE k - Len(F) \in 1 .. Len(s) /\ row2[k] = n + 1 /\ col2[k] = k - Len(F)
             /\ G[k] = s[k - Len(F)]
  <2>1. SUFFICES ASSUME NEW k \in 1 .. Len(G)
        PROVE IF k <= Len(F) THEN k \in 1 .. Len(F) /\ row2[k] = row[k] /\ row2[k] \in 1 .. n
                            /\ col2[k] = col[k] /\ G[k] = F[k]
              ELSE k - Len(F) \in 1 .. Len(s) /\ row2[k] = n + 1 /\ col2[k] = k - Len(F)
                   /\ G[k] = s[k - Len(F)]
    BY Zenon
  <2>2. /\ row2[k] = IF k <= Len(F) THEN row[k] ELSE n + 1
        /\ col2[k] = IF k <= Len(F) THEN col[k] ELSE k - Len(F)
    OBVIOUS
  <2> HIDE DEF row2, col2
  <2>3. CASE k <= Len(F)
    <3>1. k \in 1 .. Len(F)
      BY <2>3, <1>2
    <3> QED
      BY <3>1, <2>2, <2>3, <1>2
  <2>4. CASE ~ (k <= Len(F))
    <3>1. k - Len(F) \in 1 .. Len(s)
      BY <2>4, <1>2
    <3> QED
      BY <3>1, <2>2, <2>4, <1>2
  <2> QED
    BY <2>3, <2>4
<1>6. row2 \in [1 .. Len(G) -> 1 .. n + 1] /\ col2 \in [1 .. Len(G) -> Nat]
  BY <1>2
<1> HIDE DEF row2, col2
<1>7. ASSUME NEW k \in 1 .. Len(G)
      PROVE  col2[k] \in 1 .. Len(seqs[row2[k]]) /\ G[k] = seqs[row2[k]][col2[k]]
  <2>1. CASE k <= Len(F)
    <3>1. k \in 1 .. Len(F) /\ row2[k] = row[k] /\ col2[k] = col[k] /\ G[k] = F[k]
      BY <2>1, <1>5
    <3> QED
      BY <3>1, <1>4
  <2>2. CASE ~ (k <= Len(F))
    <3>1. k - Len(F) \in 1 .. Len(s) /\ row2[k] = n + 1 /\ col2[k] = k - Len(F)
          /\ G[k] = s[k - Len(F)]
      BY <2>2, <1>5
    <3> QED
      BY <3>1 DEF s
  <2> QED
    BY <2>1, <2>2
<1>8. ASSUME NEW k \in 1 .. Len(G), NEW l \in 1 .. Len(G), row2[k] = row2[l], col2[k] = col2[l]
      PROVE  k = l
  <2>1. CASE k <= Len(F) /\ l <= Len(F)
    <3>1. k \in 1 .. Len(F) /\ l \in 1 .. Len(F) /\ row[k] = row[l] /\ col[k] = col[l]
      BY <2>1, <1>5, <1>8
    <3> QED
      BY <3>1, <1>4
  <2>2. CASE ~ (k <= Len(F)) /\ ~ (l <= Len(F))
    BY <2>2, <1>2, <1>5, <1>8
  <2>3. CASE k <= Len(F) /\ ~ (l <= Len(F))
    <3>1. row2[k] \in 1 .. n /\ row2[l] = n + 1
      BY <2>3, <1>5
    <3>2. row2[k] # n + 1
      BY <3>1
    <3> QED
      BY <3>1, <3>2, <1>8
  <2>4. CASE ~ (k <= Len(F)) /\ l <= Len(F)
    <3>1. row2[l] \in 1 .. n /\ row2[k] = n + 1
      BY <2>4, <1>5
    <3>2. row2[l] # n + 1
      BY <3>1
    <3> QED
      BY <3>1, <3>2, <1>8
  <2> QED
    BY <2>1, <2>2, <2>3, <2>4
<1>9. ASSUME NEW i \in 1 .. n + 1, NEW j \in 1 .. Len(seqs[i])
      PROVE  \E k \in 1 .. Len(G) : row2[k] = i /\ col2[k] = j
  <2>1. CASE i = n + 1
    <3>1. j \in 1 .. Len(s)
      BY <2>1 DEF s
    <3>2. Len(F) + j \in 1 .. Len(G) /\ ~ (Len(F) + j <= Len(F)) /\ (Len(F) + j) - Len(F) = j
      BY <3>1, <1>2
    <3> QED
      BY <3>2, <2>1, <1>5
  <2>2. CASE i # n + 1
    <3>1. i \in 1 .. n
      BY <2>2
    <3>2. PICK k \in 1 .. Len(F) : row[k] = i /\ col[k] = j
      BY ONLY <3>1, <1>4, j \in 1 .. Len(seqs[i]), Zenon
    <3>3. k \in 1 .. Len(G) /\ k <= Len(F)
      BY <1>2
    <3> QED
      BY <3>2, <3>3, <1>5
  <2> QED
    BY <2>1, <2>2
<1>10. Located(G, seqs, n + 1)
  <2>1. \A k \in 1 .. Len(G) : col2[k] \in 1 .. Len(seqs[row2[k]]) /\ G[k] = seqs[row2[k]][col2[k]]
    BY <1>7
  <2>2. \A k, l \in 1 .. Len(G) : row2[k] = row2[l] /\ col2[k] = col2[l] => k = l
    BY <1>8
  <2>3. \A i \in 1 .. n + 1 : \A j \in 1 .. Len(seqs[i]) :
          \E k \in 1 .. Len(G) : row2[k] = i /\ col2[k] = j
    BY <1>9
  <2>4. Placed(G, seqs, n + 1, row2, col2)
    <3> HIDE DEF row2, col2, G
    <3> QED
      BY ONLY <2>1, <2>2, <2>3, Zenon DEF Placed
  <2> QED
    <3> HIDE DEF row2, col2, G
    <3> QED
      BY ONLY <1>6, <2>4, Zenon DEF Located
<1> QED
  BY <1>2, <1>10 DEF G, s

\* A flattened sequence has the elements of the sequences, each from a place of its own.
LEMMA Flat ==
  ASSUME NEW X, NEW seqs \in Seq(Seq(X))
  PROVE  FlattenSeq(seqs) \in Seq(X) /\ Located(FlattenSeq(seqs), seqs, Len(seqs))
<1>1. CASE Len(seqs) = 0
  <2>1. FlattenSeq(seqs) = <<>> /\ Len(<<>>) = 0 /\ <<>> \in Seq(X) /\ 1 .. 0 = {}
    BY <1>1 DEF FlattenSeq
  <2> DEFINE none == [k \in 1 .. 0 |-> 0]
  <2>2. none \in [1 .. 0 -> 1 .. 0] /\ none \in [1 .. 0 -> Nat]
    BY <2>1
  <2>3. Located(<<>>, seqs, 0)
    BY <2>1, <2>2 DEF Located, Placed
  <2> QED
    BY <1>1, <2>1, <2>3
<1>2. CASE Len(seqs) # 0
  <2>1. Len(seqs) \in Nat \ {0}
    BY <1>2
  <2>2. PICK f : Flattens(f, seqs, Len(seqs)) /\ FlattenSeq(seqs) = f[Len(seqs)]
    BY <2>1, FlattenIs
  <2> DEFINE Good(n) == f[n] \in Seq(X) /\ Located(f[n], seqs, n)
             A == {n \in 1 .. Len(seqs) : ~ Good(n)}
  <2>3. ASSUME NEW n \in Nat, n + 1 \in 1 .. Len(seqs), n # 0 => Good(n) PROVE Good(n + 1)
    <3> DEFINE F == IF n = 0 THEN <<>> ELSE f[n]
    <3>1. F \in Seq(X) /\ (n # 0 => Located(F, seqs, n)) /\ (n = 0 => F = <<>>)
      BY <2>3
    <3>2. F \o seqs[n + 1] \in Seq(X) /\ Located(F \o seqs[n + 1], seqs, n + 1)
      <4> HIDE DEF F
      <4> QED
        BY <2>3, <3>1, LocatedMore
    <3>3. f[n + 1] = F \o seqs[n + 1]
      <4>1. f[n + 1] = IF n + 1 = 1 THEN seqs[n + 1] ELSE f[(n + 1) - 1] \o seqs[n + 1]
        BY <2>2, <2>3 DEF Flattens
      <4>2. (n + 1) - 1 = n /\ (n + 1 = 1 <=> n = 0) /\ seqs[n + 1] \in Seq(X)
        BY <2>3
      <4>3. <<>> \o seqs[n + 1] = seqs[n + 1]
        BY <4>2
      <4> QED
        BY <4>1, <4>2, <4>3
    <3> HIDE DEF F
    <3> QED
      BY <3>2, <3>3
  <2> HIDE DEF Good
  <2>4. A = {}
    <3>1. SUFFICES ASSUME A # {} PROVE FALSE
      OBVIOUS
    <3>2. PICK n \in A : \A a \in A : n <= a
      <4>1. A \in SUBSET Nat
        OBVIOUS
      <4> HIDE DEF A
      <4> QED
        BY <4>1, <3>1, Earliest
    <3>3. n - 1 \in Nat /\ (n - 1) + 1 = n /\ n \in 1 .. Len(seqs) /\ ~ Good(n)
      BY <3>2
    <3>4. n - 1 # 0 => n - 1 \in 1 .. Len(seqs) /\ n - 1 \notin A
      BY <3>2, <3>3
    <3>5. n - 1 # 0 => Good(n - 1)
      BY <3>4
    <3> QED
      BY <3>3, <3>5, <2>3
  <2>5. Good(Len(seqs))
    BY <2>1, <2>4
  <2> QED
    BY <2>2, <2>5 DEF Good
<1> QED
  BY <1>1, <1>2


-----------------------------------------------------------------------------
(* Numbers.                                                                *)

LEMMA Times ==
  ASSUME NEW x \in Int, NEW y \in Int, NEW B \in Nat \ {0}, x < y
  PROVE  x * B + B <= y * B
<1>1. (y - x - 1) \in Nat /\ (y - x - 1) * B \in Nat
  OBVIOUS
<1>2. (y - x - 1) * B = y * B - x * B - B
  OBVIOUS
<1>3. x * B \in Int /\ y * B \in Int
  OBVIOUS
<1> QED
  BY <1>1, <1>2, <1>3

LEMMA Division ==
  ASSUME NEW n \in Nat, NEW B \in Nat \ {0}
  PROVE  /\ n \div B \in Nat /\ n % B \in 0 .. B - 1
         /\ (n \div B) * B \in Nat /\ n = (n \div B) * B + (n % B)
OBVIOUS

LEMMA QuotientUnique ==
  ASSUME NEW B \in Nat \ {0}, NEW q \in Int, NEW r \in 0 .. B - 1,
         NEW q2 \in Int, NEW r2 \in 0 .. B - 1, q * B + r = q2 * B + r2
  PROVE  q = q2 /\ r = r2
<1>1. q * B \in Int /\ q2 * B \in Int
  OBVIOUS
<1>2. CASE q < q2
  <2>1. q * B + B <= q2 * B
    BY <1>2, Times
  <2> QED
    BY <1>1, <2>1
<1>3. CASE q2 < q
  <2>1. q2 * B + B <= q * B
    BY <1>3, Times
  <2> QED
    BY <1>1, <2>1
<1>4. CASE q = q2
  BY <1>1, <1>4
<1> QED
  BY <1>2, <1>3, <1>4


-----------------------------------------------------------------------------
(* The blocks of a walk.                                                   *)

Block == [whole : BOOLEAN, places : Seq(Place)]

\* The blocks of s are those of S: no place in two of them, nor twice in one.
Covers(s, S) ==
  /\ s \in Seq(Block)
  /\ \A i \in 1 .. Len(s) : IsInjective(s[i].places)
  /\ \A i, j \in 1 .. Len(s) : \A p \in Range(s[i].places) : p \in Range(s[j].places) => i = j
  /\ \A p : p \in S <=> \E i \in 1 .. Len(s) : p \in Range(s[i].places)

LEMMA FlattenCovers ==
  ASSUME NEW seqs \in Seq(Seq(Block)), NEW S, \A i \in 1 .. Len(seqs) : Covers(seqs[i], S[i]),
         \A i, j \in 1 .. Len(seqs) : \A p : p \in S[i] /\ p \in S[j] => i = j,
         NEW T, \A p : p \in T <=> \E i \in 1 .. Len(seqs) : p \in S[i]
  PROVE  Covers(FlattenSeq(seqs), T)
<1> DEFINE F == FlattenSeq(seqs)
<1>1. F \in Seq(Block) /\ Located(F, seqs, Len(seqs))
  BY Flat
<1> HIDE DEF F
<1>2. PICK row \in [1 .. Len(F) -> 1 .. Len(seqs)], col \in [1 .. Len(F) -> Nat] :
        /\ \A k \in 1 .. Len(F) : col[k] \in 1 .. Len(seqs[row[k]]) /\ F[k] = seqs[row[k]][col[k]]
        /\ \A k, l \in 1 .. Len(F) : row[k] = row[l] /\ col[k] = col[l] => k = l
        /\ \A i \in 1 .. Len(seqs) : \A j \in 1 .. Len(seqs[i]) :
             \E k \in 1 .. Len(F) : row[k] = i /\ col[k] = j
  BY <1>1 DEF Located, Placed
<1>3. ASSUME NEW k \in 1 .. Len(F)
      PROVE  row[k] \in 1 .. Len(seqs) /\ col[k] \in 1 .. Len(seqs[row[k]])
             /\ F[k] = seqs[row[k]][col[k]] /\ Covers(seqs[row[k]], S[row[k]])
  BY <1>2
<1>4. \A k \in 1 .. Len(F) : IsInjective(F[k].places)
  BY <1>3 DEF Covers
<1>5. ASSUME NEW k \in 1 .. Len(F), NEW p \in Range(F[k].places) PROVE p \in S[row[k]]
  BY <1>3, <1>5 DEF Covers
<1>6. ASSUME NEW k \in 1 .. Len(F), NEW l \in 1 .. Len(F),
             NEW p \in Range(F[k].places), p \in Range(F[l].places)
      PROVE  k = l
  <2>1. row[k] = row[l]
    BY <1>3, <1>5, <1>6
  <2>2. col[k] = col[l]
    <3> DEFINE s == seqs[row[k]]
    <3>1. /\ col[k] \in 1 .. Len(s) /\ col[l] \in 1 .. Len(s)
          /\ F[k] = s[col[k]] /\ F[l] = s[col[l]] /\ Covers(s, S[row[k]])
      BY <2>1, <1>3
    <3> HIDE DEF s
    <3>2. p \in Range(s[col[k]].places) /\ p \in Range(s[col[l]].places)
      BY <3>1, <1>6
    <3> QED
      BY <3>1, <3>2 DEF Covers
  <2> QED
    BY <2>1, <2>2, <1>2
<1>7. ASSUME NEW p, p \in T PROVE \E k \in 1 .. Len(F) : p \in Range(F[k].places)
  <2>1. PICK i \in 1 .. Len(seqs) : p \in S[i]
    BY <1>7
  <2>2. PICK j \in 1 .. Len(seqs[i]) : p \in Range(seqs[i][j].places)
    BY <2>1 DEF Covers
  <2>3. PICK k \in 1 .. Len(F) : row[k] = i /\ col[k] = j
    BY <1>2
  <2> QED
    BY <2>2, <2>3, <1>3
<1>8. ASSUME NEW k \in 1 .. Len(F), NEW p \in Range(F[k].places) PROVE p \in T
  BY <1>3, <1>5
<1>9. Covers(F, T)
  BY <1>1, <1>4, <1>6, <1>7, <1>8 DEF Covers
<1> QED
  BY <1>9 DEF F

InArch(a) == {p \in Occupied(info) : p[1] = a}
InHeap(a, h) == {p \in Occupied(info) : p[1] = a /\ p[2] = h}

\* How many entities are in the heap.
Filled(a, h) == IF IsLastHeap(a, h) THEN info[a].last_heap_len ELSE HeapLen

\* Whichever the heap, its blocks are those which are filled, the last perhaps in part.
LEMMA BlocksAre ==
  ASSUME info \in Layouts, NEW a \in Archetype, NEW h \in 0 .. info[a].heap_count - 1,
         NEW n, n = Filled(a, h), NEW full, full = n \div BlockSize,
         NEW rest, rest = n % BlockSize, NEW s, s = BlocksOf(a, h)
  PROVE  /\ n \in 1 .. HeapLen /\ full \in Nat /\ rest \in 0 .. BlockSize - 1
         /\ full * BlockSize \in Nat /\ n = full * BlockSize + rest
         /\ s = [b \in 1 .. full |-> [whole |-> TRUE, places |-> Places(a, h, b - 1, BlockSize)]]
                \o (IF rest > 0 THEN <<[whole |-> FALSE, places |-> Places(a, h, full, rest)]>>
                    ELSE <<>>)
<1> DEFINE B == BlockSize
           L == HeapLen
           most == L \div B
<1>1. B \in Nat \ {0} /\ L \in Nat \ {0} /\ L % B = 0
  BY QueryAssumption
<1>2. info[a].last_heap_len \in 1 .. L
  BY QueryAssumption
<1>3. n \in 1 .. L
  BY <1>1, <1>2 DEF Filled
<1> HIDE DEF B, L
<1>4. /\ full \in Nat /\ rest \in 0 .. B - 1 /\ full * B \in Nat /\ n = full * B + rest
      /\ most \in Nat /\ most * B \in Nat /\ L = most * B
  <2>1. n \in Nat /\ L \in Nat
    BY <1>1, <1>3
  <2>2. /\ n \div B \in Nat /\ n % B \in 0 .. B - 1
        /\ (n \div B) * B \in Nat /\ n = (n \div B) * B + (n % B)
    BY <1>1, <2>1, Division
  <2>3. most \in Nat /\ most * B \in Nat /\ L = most * B + (L % B)
    BY <1>1, <2>1, Division
  <2> QED
    BY <1>1, <2>1, <2>2, <2>3 DEF B
<1> HIDE DEF most
<1>5. full <= most
  <2>1. ~ (most < full)
    <3>1. SUFFICES ASSUME most < full PROVE FALSE
      OBVIOUS
    <3>2. most * B + B <= full * B
      BY <3>1, <1>1, <1>4, Times
    <3> QED
      BY <3>2, <1>1, <1>3, <1>4
  <2> QED
    BY <2>1, <1>4
<1>6. ~ IsLastHeap(a, h) => n = L /\ full = most /\ rest = 0 /\ Big \div B = most
  <2>1. SUFFICES ASSUME ~ IsLastHeap(a, h)
                 PROVE  n = L /\ full = most /\ rest = 0 /\ Big \div B = most
    OBVIOUS
  <2>2. n = L
    BY <2>1 DEF Filled, L
  <2>3. full = most /\ rest = 0
    BY <2>2, <1>1 DEF most, B
  <2>4. Big = most * B + (B - 1) /\ Big \in Nat
    <3>1. Big = L + B - 1
      BY DEF Big, L, B
    <3> QED
      BY <3>1, <1>1, <1>4
  <2>5. Big \div B \in Nat /\ Big % B \in 0 .. B - 1 /\ Big = (Big \div B) * B + (Big % B)
    BY <1>1, <2>4, Division
  <2>6. B - 1 \in 0 .. B - 1
    BY <1>1
  <2>7. Big \div B = most
    BY <1>1, <1>4, <2>4, <2>5, <2>6, QuotientUnique
  <2> QED
    BY <2>2, <2>3, <2>7
<1>7. CompleteBlocks(LenOrBig(a, h)) = full
  <2>1. CASE IsLastHeap(a, h)
    BY <2>1 DEF CompleteBlocks, LenOrBig, Filled
  <2>2. CASE ~ IsLastHeap(a, h)
    BY <2>2, <1>6 DEF CompleteBlocks, LenOrBig, B
  <2> QED
    BY <2>1, <2>2
<1>8. IsLastHeap(a, h) => LenOrBig(a, h) - full * B = rest
  BY <1>4, <1>1 DEF LenOrBig, Filled
<1> DEFINE there == IF full < most THEN full ELSE most
           tail == IF IsLastHeap(a, h) /\ LenOrBig(a, h) - full * B > 0
                   THEN <<[whole |-> FALSE, places |-> Places(a, h, full, LenOrBig(a, h) - full * B)]>>
                   ELSE <<>>
<1>9. there = full
  BY <1>4, <1>5
<1>10. tail = IF rest > 0 THEN <<[whole |-> FALSE, places |-> Places(a, h, full, rest)]>> ELSE <<>>
  <2>1. CASE IsLastHeap(a, h)
    BY <2>1, <1>8
  <2>2. CASE ~ IsLastHeap(a, h)
    BY <2>2, <1>6
  <2> QED
    BY <2>1, <2>2
<1>11. s = [b \in 1 .. there |-> [whole |-> TRUE, places |-> Places(a, h, b - 1, B)]] \o tail
  BY <1>7 DEF BlocksOf, most, L, B
<1> HIDE DEF there, tail
<1>12. s = [b \in 1 .. full |-> [whole |-> TRUE, places |-> Places(a, h, b - 1, B)]]
           \o (IF rest > 0 THEN <<[whole |-> FALSE, places |-> Places(a, h, full, rest)]>> ELSE <<>>)
  BY <1>9, <1>10, <1>11
<1> QED
  BY <1>3, <1>4, <1>12 DEF B, L


LEMMA HeapCovered ==
  ASSUME info \in Layouts, NEW a \in Archetype, NEW h \in 0 .. info[a].heap_count - 1
  PROVE  Covers(BlocksOf(a, h), InHeap(a, h))
<1> DEFINE B == BlockSize
           n == Filled(a, h)
           full == n \div BlockSize
           rest == n % BlockSize
           s == BlocksOf(a, h)
           len == IF rest > 0 THEN full + 1 ELSE full
           Size(b) == IF b <= full THEN B ELSE rest
<1>1. /\ n \in 1 .. HeapLen /\ full \in Nat /\ rest \in 0 .. B - 1
      /\ full * B \in Nat /\ n = full * B + rest
      /\ s = [b \in 1 .. full |-> [whole |-> TRUE, places |-> Places(a, h, b - 1, B)]]
             \o (IF rest > 0 THEN <<[whole |-> FALSE, places |-> Places(a, h, full, rest)]>>
                 ELSE <<>>)
  BY BlocksAre
<1>2. B \in Nat \ {0} /\ HeapLen \in Nat \ {0} /\ MaxHeaps \in Nat
  BY QueryAssumption
<1>3. /\ info[a].heap_count \in 1 .. MaxHeaps /\ info[a].last_heap_len \in 1 .. HeapLen
      /\ h \in 0 .. MaxHeaps - 1
  BY QueryAssumption
<1> HIDE DEF B, n, full, rest, s
<1>4. /\ len \in Nat
      /\ \A b \in 1 .. len :
           /\ b - 1 \in Nat /\ Size(b) \in 1 .. B
           /\ \/ b \in 1 .. full /\ b - 1 < full /\ Size(b) = B
              \/ b = full + 1 /\ b - 1 = full /\ Size(b) = rest /\ rest > 0
  <2>1. CASE rest > 0
    <3>1. len = full + 1 /\ rest \in 1 .. B
      BY <2>1, <1>1, <1>2
    <3>2. \A b \in 1 .. len : \/ b \in 1 .. full /\ b - 1 < full /\ b <= full
                              \/ b = full + 1 /\ b - 1 = full /\ ~ (b <= full)
      BY <3>1, <1>1
    <3>3. \A b \in 1 .. len : b - 1 \in Nat
      BY <3>1, <1>1
    <3> HIDE DEF len
    <3> QED
      BY <2>1, <3>1, <3>2, <3>3, <1>1, <1>2
  <2>2. CASE ~ (rest > 0)
    <3>1. len = full
      BY <2>2
    <3>2. \A b \in 1 .. len : b \in 1 .. full /\ b - 1 < full /\ b <= full /\ b - 1 \in Nat
      BY <3>1, <1>1
    <3> HIDE DEF len
    <3> QED
      BY <3>1, <3>2, <1>1, <1>2
  <2> QED
    BY <2>1, <2>2
<1>5. /\ full <= len /\ (rest > 0 => len = full + 1 /\ full + 1 \in 1 .. len /\ Size(full + 1) = rest)
      /\ (~ (rest > 0) => len = full) /\ \A b \in 1 .. full : b \in 1 .. len /\ Size(b) = B
  BY <1>1
<1> HIDE DEF len, Size
<1>6. ASSUME NEW b \in 1 .. len, NEW i \in 1 .. Size(b)
      PROVE  /\ (b - 1) * B \in Nat /\ i - 1 \in 0 .. B - 1
             /\ (b - 1) * B + i - 1 = (b - 1) * B + (i - 1)
             /\ (b - 1) * B + i - 1 \in 0 .. n - 1
  <2>1. (b - 1) * B \in Nat /\ i - 1 \in 0 .. B - 1 /\ i \in Nat
    BY <1>2, <1>4
  <2>2. CASE b \in 1 .. full /\ b - 1 < full /\ Size(b) = B
    <3>1. (b - 1) * B + B <= full * B
      <4>1. b - 1 \in Int /\ full \in Int /\ b - 1 < full
        BY <2>2, <1>1, <1>4
      <4> QED
        BY <4>1, <1>2, Times
    <3> DEFINE x == (b - 1) * B
               y == full * B
    <3>2. x \in Nat /\ y \in Nat /\ x + B <= y /\ n = y + rest /\ i - 1 < B
      BY <2>1, <3>1, <1>1, <1>2
    <3> HIDE DEF x, y
    <3>3. x + i - 1 = x + (i - 1) /\ x + i - 1 \in 0 .. n - 1
      BY <3>2, <2>1, <1>1, <1>2
    <3> QED
      BY <3>3, <2>1 DEF x
  <2>3. CASE b = full + 1 /\ b - 1 = full /\ Size(b) = rest /\ rest > 0
    <3>1. i \in 1 .. rest /\ b - 1 = full
      BY <2>3
    <3> DEFINE y == full * B
    <3>2. y \in Nat /\ n = y + rest
      BY <1>1
    <3> HIDE DEF y
    <3>3. y + i - 1 = y + (i - 1) /\ y + i - 1 \in 0 .. n - 1
      BY <3>1, <3>2, <1>1
    <3> QED
      BY <3>1, <3>3, <2>1 DEF y
  <2> QED
    BY <2>2, <2>3, <1>4
<1>7. \A k \in 0 .. n - 1 : <<a, h, k>> \in Place /\ <<a, h, k>> \in InHeap(a, h)
  <2>1. SUFFICES ASSUME NEW k \in 0 .. n - 1
                 PROVE  <<a, h, k>> \in Place /\ <<a, h, k>> \in InHeap(a, h)
    OBVIOUS
  <2>2. <<a, h, k>> \in Place
    <3>1. k \in 0 .. HeapLen - 1
      BY <1>1, <1>2
    <3> QED
      BY <3>1, <1>3 DEF Place
  <2>3. \/ h + 1 < info[a].heap_count
        \/ h + 1 = info[a].heap_count /\ k < info[a].last_heap_len
    <3>1. h \in Nat /\ info[a].heap_count \in Nat /\ h < info[a].heap_count
      BY <1>3
    <3>2. CASE h = info[a].heap_count - 1
      <4>1. n = info[a].last_heap_len
        BY <3>2 DEF n, Filled, IsLastHeap
      <4> QED
        BY <4>1, <3>1, <3>2, <1>1, <1>2, <1>3
    <3>3. CASE h # info[a].heap_count - 1
      BY <3>1, <3>3
    <3> QED
      BY <3>2, <3>3
  <2> QED
    BY <2>2, <2>3 DEF InHeap, Occupied
<1>8. ASSUME NEW p \in InHeap(a, h) PROVE \E k \in 0 .. n - 1 : p = <<a, h, k>>
  <2>1. p \in Place /\ p[1] = a /\ p[2] = h
    BY DEF InHeap, Occupied
  <2>2. p = <<a, h, p[3]>> /\ p[3] \in 0 .. HeapLen - 1
    BY <2>1 DEF Place
  <2>3. p[3] \in 0 .. n - 1
    BY <2>1, <2>2, <1>2, <1>3 DEF InHeap, Occupied, n, Filled, IsLastHeap
  <2> QED
    BY <2>2, <2>3
<1>9. \A b \in 1 .. len :
        /\ Places(a, h, b - 1, Size(b)) \in Seq(Place)
        /\ DOMAIN Places(a, h, b - 1, Size(b)) = 1 .. Size(b)
        /\ \A i \in 1 .. Size(b) : Places(a, h, b - 1, Size(b))[i] = <<a, h, (b - 1) * B + i - 1>>
  <2>1. SUFFICES ASSUME NEW b \in 1 .. len
                 PROVE  /\ Places(a, h, b - 1, Size(b)) \in Seq(Place)
                        /\ DOMAIN Places(a, h, b - 1, Size(b)) = 1 .. Size(b)
                        /\ \A i \in 1 .. Size(b) :
                             Places(a, h, b - 1, Size(b))[i] = <<a, h, (b - 1) * B + i - 1>>
    BY Zenon
  <2> DEFINE f == [i \in 1 .. Size(b) |-> <<a, h, (b - 1) * B + i - 1>>]
  <2>2. Places(a, h, b - 1, Size(b)) = f
    BY DEF Places, B
  <2>3. \A i \in 1 .. Size(b) : f[i] = <<a, h, (b - 1) * B + i - 1>> /\ f[i] \in Place
    BY <1>6, <1>7
  <2>4. f \in [1 .. Size(b) -> Place] /\ DOMAIN f = 1 .. Size(b)
    BY <2>3
  <2> HIDE DEF f
  <2>5. f \in Seq(Place)
    BY <2>4, <1>4
  <2> QED
    BY <2>2, <2>3, <2>4, <2>5
<1>14. /\ s \in Seq(Block) /\ Len(s) = len
       /\ \A b \in 1 .. len : s[b].places = Places(a, h, b - 1, Size(b))
  <2> DEFINE whole == [b \in 1 .. full |-> [whole |-> TRUE, places |-> Places(a, h, b - 1, B)]]
             part == [whole |-> FALSE, places |-> Places(a, h, full, rest)]
  <2>1. /\ Len(whole) = full /\ whole \in Seq(Block)
        /\ \A b \in 1 .. full : whole[b].places = Places(a, h, b - 1, Size(b))
    <3>1. \A b \in 1 .. full : /\ whole[b].places = Places(a, h, b - 1, Size(b))
                               /\ whole[b] \in Block
      <4>1. SUFFICES ASSUME NEW b \in 1 .. full
                     PROVE  whole[b].places = Places(a, h, b - 1, Size(b)) /\ whole[b] \in Block
        OBVIOUS
      <4>2. b \in 1 .. len /\ Size(b) = B
        BY <1>5
      <4>3. whole[b] = [whole |-> TRUE, places |-> Places(a, h, b - 1, Size(b))]
        BY <4>2
      <4>4. Places(a, h, b - 1, Size(b)) \in Seq(Place)
        BY <4>2, <1>9
      <4> QED
        BY <4>3, <4>4 DEF Block
    <3>2. whole = [b \in 1 .. full |-> whole[b]]
      OBVIOUS
    <3> HIDE DEF whole
    <3>3. whole \in [1 .. full -> Block]
      BY <3>1, <3>2
    <3>4. whole \in Seq(Block) /\ Len(whole) = full
      BY <3>3, <1>1
    <3> QED
      BY <3>1, <3>4
  <2>2. CASE rest > 0
    <3>1. s = whole \o <<part>> /\ len = full + 1
      BY <2>2, <1>1, <1>5
    <3>2. part \in Block /\ part.places = Places(a, h, (full + 1) - 1, Size(full + 1))
      <4>1. (full + 1) - 1 = full /\ full + 1 \in 1 .. len /\ Size(full + 1) = rest
        BY <2>2, <1>1, <1>5
      <4>2. Places(a, h, full, rest) \in Seq(Place)
        BY <4>1, <1>9
      <4> QED
        BY <4>1, <4>2 DEF Block
    <3> HIDE DEF whole, part
    <3>3. /\ s \in Seq(Block) /\ Len(s) = full + 1 /\ s[full + 1] = part
          /\ \A b \in 1 .. full : s[b] = whole[b]
      <4> DEFINE one == <<part>>
      <4>1. one \in Seq(Block) /\ Len(one) = 1 /\ one[1] = part
        BY <3>2
      <4> HIDE DEF one
      <4>2. /\ whole \o one \in Seq(Block) /\ Len(whole \o one) = full + 1
            /\ \A b \in 1 .. full + 1 :
                 (whole \o one)[b] = IF b <= full THEN whole[b] ELSE one[b - full]
        <5>1. whole \in Seq(Block) /\ one \in Seq(Block)
          BY <4>1, <2>1
        <5>2. /\ whole \o one \in Seq(Block) /\ Len(whole \o one) = Len(whole) + Len(one)
              /\ \A k \in 1 .. Len(whole) + Len(one) :
                   (whole \o one)[k] = IF k <= Len(whole) THEN whole[k] ELSE one[k - Len(whole)]
          BY ONLY <5>1, Joined
        <5> QED
          BY <5>2, <4>1, <2>1
      <4>3. /\ full + 1 \in 1 .. full + 1 /\ ~ (full + 1 <= full) /\ (full + 1) - full = 1
            /\ \A b \in 1 .. full : b \in 1 .. full + 1 /\ b <= full
        BY <1>1
      <4> QED
        BY <4>1, <4>2, <4>3, <3>1 DEF one
    <3>5. \A b \in 1 .. len : b \in 1 .. full \/ b = full + 1
      BY <3>1, <1>1
    <3> QED
      BY <3>1, <3>2, <3>3, <3>5, <2>1
  <2>3. CASE ~ (rest > 0)
    <3>1. s = whole \o <<>> /\ len = full
      BY <2>3, <1>1, <1>5
    <3> HIDE DEF whole
    <3>2. s = whole
      BY <3>1, <2>1
    <3> QED
      BY <3>1, <3>2, <2>1
  <2> QED
    BY <2>2, <2>3
<1>15. \A b \in 1 .. len :
        /\ DOMAIN s[b].places = 1 .. Size(b)
        /\ \A i \in 1 .. Size(b) : s[b].places[i] = <<a, h, (b - 1) * B + i - 1>>
  BY <1>9, <1>14
<1>10. \A b \in 1 .. len : IsInjective(s[b].places)
  <2>1. SUFFICES ASSUME NEW b \in 1 .. len, NEW i \in 1 .. Size(b), NEW j \in 1 .. Size(b),
                        s[b].places[i] = s[b].places[j]
                 PROVE  i = j
    BY <1>15 DEF IsInjective
  <2>2. (b - 1) * B + i - 1 = (b - 1) * B + j - 1
    BY <2>1, <1>15
  <2> QED
    BY <2>2, <1>6, <1>4
<1>11. ASSUME NEW b \in 1 .. len, NEW c \in 1 .. len, NEW p \in Range(s[b].places),
              p \in Range(s[c].places)
       PROVE  b = c
  <2>1. PICK i \in 1 .. Size(b) : p = <<a, h, (b - 1) * B + i - 1>>
    BY <1>15 DEF Range
  <2>2. PICK j \in 1 .. Size(c) : p = <<a, h, (c - 1) * B + j - 1>>
    BY <1>15, <1>11 DEF Range
  <2>3. (b - 1) * B + (i - 1) = (c - 1) * B + (j - 1)
    BY <2>1, <2>2, <1>6
  <2>4. i - 1 \in 0 .. B - 1 /\ j - 1 \in 0 .. B - 1 /\ b - 1 \in Int /\ c - 1 \in Int
    BY <1>4, <1>6
  <2>5. b - 1 = c - 1
    BY <2>3, <2>4, <1>2, QuotientUnique
  <2> QED
    BY <2>5, <1>4
<1>12. ASSUME NEW p \in InHeap(a, h) PROVE \E b \in 1 .. len : p \in Range(s[b].places)
  <2>1. PICK k \in 0 .. n - 1 : p = <<a, h, k>>
    BY <1>8
  <2> DEFINE q == k \div B
             r == k % B
  <2>2. q \in Nat /\ r \in 0 .. B - 1 /\ q * B \in Nat /\ k = q * B + r
    <3>1. k \in Nat
      BY <1>1
    <3> QED
      BY <3>1, <1>2, Division
  <2> HIDE DEF q, r
  <2>3. q <= full
    <3>1. ~ (full < q)
      <4>1. SUFFICES ASSUME full < q PROVE FALSE
        OBVIOUS
      <4>2. full * B + B <= q * B
        BY <4>1, <2>2, <1>1, <1>2, Times
      <4> DEFINE x == full * B
                 y == q * B
      <4>3. x \in Nat /\ y \in Nat /\ x + B <= y /\ n = x + rest /\ k = y + r
        BY <4>2, <2>2, <1>1
      <4> HIDE DEF x, y
      <4> QED
        BY <4>3, <2>2, <1>1, <1>2
    <3> QED
      BY <3>1, <2>2, <1>1
  <2>4. q = full => r < rest
    BY <2>2, <1>1
  <2>5. q + 1 \in 1 .. len /\ r + 1 \in 1 .. Size(q + 1)
    <3>1. CASE q = full
      BY <3>1, <2>2, <2>4, <1>1 DEF len, Size
    <3>2. CASE q # full
      BY <3>2, <2>2, <2>3, <1>1, <1>2 DEF len, Size
    <3> QED
      BY <3>1, <3>2
  <2>6. ((q + 1) - 1) * B + (r + 1) - 1 = k
    <3>1. (q + 1) - 1 = q
      BY <2>2
    <3> QED
      BY <3>1, <2>2
  <2>7. s[q + 1].places[r + 1] = p
    BY <2>1, <2>5, <2>6, <1>15
  <2> QED
    BY <2>5, <2>7, <1>15 DEF Range
<1>13. ASSUME NEW b \in 1 .. len, NEW p \in Range(s[b].places) PROVE p \in InHeap(a, h)
  <2>1. PICK i \in 1 .. Size(b) : p = <<a, h, (b - 1) * B + i - 1>>
    BY <1>15 DEF Range
  <2> QED
    BY <2>1, <1>6, <1>7
<1>16. Covers(s, InHeap(a, h))
  BY <1>14, <1>10, <1>11, <1>12, <1>13 DEF Covers
<1> QED
  BY <1>16 DEF s


LEMMA ArchetypeCovered ==
  ASSUME info \in Layouts, NEW a \in Archetype,
         NEW heaps, heaps = [h \in 1 .. info[a].heap_count |-> BlocksOf(a, h - 1)]
  PROVE  FlattenSeq(heaps) \in Seq(Block) /\ Covers(FlattenSeq(heaps), InArch(a))
<1> DEFINE n == info[a].heap_count
           S == [h \in 1 .. n |-> InHeap(a, h - 1)]
<1>1. n \in 1 .. MaxHeaps /\ MaxHeaps \in Nat
  BY QueryAssumption
<1>2. \A h \in 1 .. n : h - 1 \in 0 .. n - 1
  BY <1>1
<1>3. \A h \in 1 .. n : heaps[h] = BlocksOf(a, h - 1) /\ Covers(heaps[h], InHeap(a, h - 1))
  BY <1>2, HeapCovered
<1>4. heaps \in Seq(Seq(Block)) /\ Len(heaps) = n
  <2>1. \A h \in 1 .. n : heaps[h] \in Seq(Block)
    BY <1>3 DEF Covers
  <2>2. heaps \in [1 .. n -> Seq(Block)]
    <3> DEFINE SB == Seq(Block)
    <3>1. \A h \in 1 .. n : heaps[h] \in SB
      BY <2>1
    <3>2. heaps = [h \in 1 .. n |-> heaps[h]]
      OBVIOUS
    <3> HIDE DEF SB, n
    <3>3. heaps \in [1 .. n -> SB]
      BY <3>1, <3>2
    <3> QED
      BY <3>3 DEF SB
  <2> HIDE DEF n
  <2> DEFINE SB == Seq(Block)
  <2>3. heaps \in [1 .. n -> SB]
    BY <2>2
  <2> HIDE DEF SB
  <2>4. n \in Nat
    BY <1>1
  <2>5. heaps \in Seq(SB) /\ Len(heaps) = n
    BY ONLY <2>3, <2>4
  <2> QED
    BY <2>5 DEF SB
<1>5. \A h \in 1 .. n : S[h] = InHeap(a, h - 1)
  OBVIOUS
<1> HIDE DEF S, n
<1>6. \A h \in 1 .. Len(heaps) : Covers(heaps[h], S[h])
  BY <1>3, <1>4, <1>5
<1>7. ASSUME NEW h \in 1 .. Len(heaps), NEW k \in 1 .. Len(heaps), NEW p, p \in S[h] /\ p \in S[k]
      PROVE  h = k
  <2>1. p[2] = h - 1 /\ p[2] = k - 1
    BY <1>4, <1>5, <1>7 DEF InHeap
  <2> QED
    BY <2>1, <1>1, <1>4
<1>8. ASSUME NEW p, p \in InArch(a) PROVE \E h \in 1 .. Len(heaps) : p \in S[h]
  <2>1. p \in Occupied(info) /\ p \in Place /\ p[1] = a
    BY <1>8 DEF InArch, Occupied
  <2>2. p[2] \in 0 .. MaxHeaps - 1
    BY <2>1 DEF Place
  <2>3. p[2] + 1 < n \/ p[2] + 1 = n
    BY <2>1 DEF Occupied, n
  <2>4. p[2] + 1 \in 1 .. n /\ (p[2] + 1) - 1 = p[2]
    BY <2>2, <2>3, <1>1
  <2>5. p \in S[p[2] + 1]
    BY <2>1, <2>4, <1>5 DEF InHeap
  <2> QED
    BY <2>4, <2>5, <1>4
<1>9. ASSUME NEW h \in 1 .. Len(heaps), NEW p, p \in S[h] PROVE p \in InArch(a)
  <2>1. S[h] = InHeap(a, h - 1)
    BY <1>4, <1>5
  <2> QED
    BY <2>1, <1>9 DEF InHeap, InArch
<1>10. \A p : p \in InArch(a) <=> \E h \in 1 .. Len(heaps) : p \in S[h]
  BY <1>8, <1>9
<1>11. \A h, k \in 1 .. Len(heaps) : \A p : p \in S[h] /\ p \in S[k] => h = k
  BY <1>7
<1>12. heaps \in Seq(Seq(Block))
  BY <1>4
<1>13. Covers(FlattenSeq(heaps), InArch(a))
  BY ONLY <1>6, <1>10, <1>11, <1>12, FlattenCovers
<1> QED
  BY <1>13 DEF Covers

\* Whatever the order of the archetypes, the walk has each occupied place in it once.
LEMMA WalkCovers ==
  ASSUME info \in Layouts, NEW order \in SetToSeqs(Archetype)
  PROVE  Covers(Walk(order), Occupied(info))
<1> DEFINE n == Cardinality(Archetype)
           Heaps(i) == [h \in 1 .. info[order[i]].heap_count |-> BlocksOf(order[i], h - 1)]
           archs == [i \in DOMAIN order |-> FlattenSeq(Heaps(i))]
           S == [i \in 1 .. n |-> InArch(order[i])]
<1>1. IsFiniteSet(Archetype) /\ n \in Nat
  BY QueryAssumption, FS_CardinalityType
<1>2. /\ order \in [1 .. n -> Archetype] /\ DOMAIN order = 1 .. n
      /\ \A i, j \in 1 .. n : order[i] = order[j] => i = j
  BY DEF SetToSeqs
<1>3. \A a \in Archetype : \E i \in 1 .. n : order[i] = a
  <2>1. IsFiniteSet(1 .. n) /\ Cardinality(1 .. n) = n
    <3>1. 1 \in Int /\ n \in Int
      BY <1>1
    <3>2. IsFiniteSet(1 .. n) /\ Cardinality(1 .. n) = IF 1 > n THEN 0 ELSE n - 1 + 1
      BY <3>1, FS_Interval
    <3> QED
      BY <1>1, <3>2
  <2>2. order \in Injection(1 .. n, Archetype)
    BY <1>2 DEF Injection, IsInjective
  <2>3. Cardinality(1 .. n) = Cardinality(Archetype) <=> order \in Surjection(1 .. n, Archetype)
    BY <1>1, <2>2, FS_Injection
  <2>4. order \in Surjection(1 .. n, Archetype)
    BY <2>1, <2>3
  <2> QED
    BY <2>4 DEF Surjection
<1>4. Walk(order) = FlattenSeq(archs)
  BY DEF Walk
<1>5. \A i \in 1 .. n : archs[i] = FlattenSeq(Heaps(i)) /\ S[i] = InArch(order[i])
  BY <1>2
<1>6. ASSUME NEW i \in 1 .. n PROVE archs[i] \in Seq(Block) /\ Covers(archs[i], S[i])
  <2>1. order[i] \in Archetype
    BY <1>2
  <2>2. Covers(FlattenSeq(Heaps(i)), InArch(order[i])) /\ FlattenSeq(Heaps(i)) \in Seq(Block)
    BY <2>1, ArchetypeCovered
  <2> HIDE DEF Heaps, archs, S
  <2> QED
    BY <2>2, <1>5
<1>7. archs = [i \in 1 .. n |-> archs[i]]
  BY <1>2
<1> HIDE DEF archs, S, Heaps, n
<1>8. archs \in Seq(Seq(Block)) /\ Len(archs) = n
  <2> DEFINE SB == Seq(Block)
  <2>1. \A i \in 1 .. n : archs[i] \in SB
    BY <1>6
  <2> HIDE DEF SB
  <2>2. archs \in [1 .. n -> SB]
    BY <2>1, <1>7
  <2>3. archs \in Seq(SB) /\ Len(archs) = n
    BY <2>2, <1>1
  <2> QED
    BY <2>3 DEF SB
<1>9. \A i \in 1 .. Len(archs) : Covers(archs[i], S[i])
  BY <1>6, <1>8
<1>10. ASSUME NEW i \in 1 .. Len(archs), NEW j \in 1 .. Len(archs), NEW p,
              p \in S[i] /\ p \in S[j]
       PROVE  i = j
  <2>1. p[1] = order[i] /\ p[1] = order[j]
    BY <1>5, <1>8, <1>10 DEF InArch
  <2> QED
    BY <2>1, <1>2, <1>8
<1>11. \A p : p \in Occupied(info) <=> \E i \in 1 .. Len(archs) : p \in S[i]
  <2>1. ASSUME NEW p, p \in Occupied(info) PROVE \E i \in 1 .. Len(archs) : p \in S[i]
    <3>1. p[1] \in Archetype
      BY <2>1 DEF Occupied, Place
    <3>2. PICK i \in 1 .. n : order[i] = p[1]
      BY <3>1, <1>3
    <3> QED
      BY <2>1, <3>2, <1>5, <1>8 DEF InArch
  <2>2. ASSUME NEW i \in 1 .. Len(archs), NEW p, p \in S[i] PROVE p \in Occupied(info)
    BY <2>2, <1>5, <1>8 DEF InArch
  <2> QED
    BY <2>1, <2>2
<1>12. \A i, j \in 1 .. Len(archs) : \A p : p \in S[i] /\ p \in S[j] => i = j
  BY <1>10
<1>13. archs \in Seq(Seq(Block))
  BY <1>8
<1>14. Covers(FlattenSeq(archs), Occupied(info))
  BY ONLY <1>9, <1>11, <1>12, <1>13, FlattenCovers
<1> QED
  BY <1>4, <1>14


-----------------------------------------------------------------------------
(* The query.                                                              *)

LEMMA Popped ==
  ASSUME NEW X, NEW s \in Seq(X), s # <<>>
  PROVE  /\ Head(s) \in X /\ Tail(s) \in Seq(X) /\ Len(s) \in Nat \ {0}
         /\ Len(Tail(s)) = Len(s) - 1 /\ Head(s) = s[1]
         /\ \A i \in 1 .. Len(s) - 1 : Tail(s)[i] = s[i + 1]
         /\ \A i \in 1 .. Len(s) : i # 1 => i - 1 \in 1 .. Len(s) - 1 /\ Tail(s)[i - 1] = s[i]
         /\ Range(s) = Range(Tail(s)) \cup {Head(s)}
         /\ IsInjective(s) => IsInjective(Tail(s)) /\ Head(s) \notin Range(Tail(s))
<1>1. /\ Head(s) \in X /\ Tail(s) \in Seq(X) /\ Len(s) \in Nat \ {0}
      /\ Len(Tail(s)) = Len(s) - 1 /\ Head(s) = s[1]
  OBVIOUS
<1>2. \A i \in 1 .. Len(s) - 1 : Tail(s)[i] = s[i + 1] /\ i + 1 \in 1 .. Len(s) /\ i + 1 # 1
  BY <1>1
<1>3. \A i \in 1 .. Len(s) : i # 1 => i - 1 \in 1 .. Len(s) - 1 /\ (i - 1) + 1 = i
  BY <1>1
<1>4. \A i \in 1 .. Len(s) : i # 1 => i - 1 \in 1 .. Len(s) - 1 /\ Tail(s)[i - 1] = s[i]
  BY <1>2, <1>3
<1>5. DOMAIN s = 1 .. Len(s) /\ DOMAIN Tail(s) = 1 .. Len(s) - 1 /\ 1 \in 1 .. Len(s)
  BY <1>1
<1>6. Range(s) = Range(Tail(s)) \cup {Head(s)}
  <2>1. ASSUME NEW i \in 1 .. Len(s) PROVE s[i] \in Range(Tail(s)) \cup {Head(s)}
    <3>1. CASE i = 1
      BY <3>1, <1>1
    <3>2. CASE i # 1
      <4>1. i - 1 \in DOMAIN Tail(s) /\ Tail(s)[i - 1] = s[i]
        BY <3>2, <1>4, <1>5
      <4> QED
        BY <4>1 DEF Range
    <3> QED
      BY <3>1, <3>2
  <2>2. Head(s) \in Range(s) /\ \A i \in 1 .. Len(s) - 1 : Tail(s)[i] \in Range(s)
    BY <1>1, <1>2, <1>5 DEF Range
  <2> QED
    BY <2>1, <2>2, <1>5 DEF Range
<1>7. ASSUME IsInjective(s) PROVE IsInjective(Tail(s)) /\ Head(s) \notin Range(Tail(s))
  <2>1. ASSUME NEW i \in 1 .. Len(s) - 1, NEW j \in 1 .. Len(s) - 1, Tail(s)[i] = Tail(s)[j]
        PROVE  i = j
    <3>1. i + 1 = j + 1
      BY <1>2, <1>5, <1>7, <2>1 DEF IsInjective
    <3> QED
      BY <3>1
  <2>2. \A i \in 1 .. Len(s) - 1 : Tail(s)[i] # Head(s)
    BY <1>1, <1>2, <1>5, <1>7 DEF IsInjective
  <2> QED
    BY <2>1, <2>2, <1>5 DEF IsInjective, Range
<1> QED
  BY <1>1, <1>2, <1>4, <1>6, <1>7

LEMMA Added ==
  ASSUME NEW X, NEW s \in Seq(X), NEW x \in X
  PROVE  /\ Append(s, x) \in Seq(X) /\ Range(Append(s, x)) = Range(s) \cup {x}
         /\ IsInjective(s) /\ x \notin Range(s) => IsInjective(Append(s, x))
<1> DEFINE r == Append(s, x)
<1>1. /\ r \in Seq(X) /\ Len(s) \in Nat /\ DOMAIN r = 1 .. Len(s) + 1 /\ DOMAIN s = 1 .. Len(s)
      /\ r[Len(s) + 1] = x /\ \A i \in 1 .. Len(s) : r[i] = s[i]
      /\ \A i \in 1 .. Len(s) + 1 : i \in 1 .. Len(s) \/ i = Len(s) + 1
      /\ \A i \in 1 .. Len(s) : i \in 1 .. Len(s) + 1
      /\ Len(s) + 1 \in 1 .. Len(s) + 1
  OBVIOUS
<1> HIDE DEF r
<1>2. Range(r) = Range(s) \cup {x}
  BY <1>1 DEF Range
<1>3. IsInjective(s) /\ x \notin Range(s) => IsInjective(r)
  BY <1>1 DEF IsInjective, Range
<1> QED
  BY <1>1, <1>2, <1>3 DEF r

LEMMA NextBlock ==
  ASSUME NEW s, NEW S, Covers(s, S), s # <<>>,
         NEW q, q = Head(s).places
  PROVE  /\ q \in Seq(Place) /\ IsInjective(q) /\ Range(q) \subseteq S
         /\ Covers(Tail(s), S \ Range(q))
<1>1. s \in Seq(Block)
  BY DEF Covers
<1>2. /\ Head(s) \in Block /\ Tail(s) \in Seq(Block) /\ Len(s) \in Nat \ {0}
      /\ Len(Tail(s)) = Len(s) - 1 /\ Head(s) = s[1]
      /\ \A i \in 1 .. Len(s) - 1 : Tail(s)[i] = s[i + 1]
      /\ \A i \in 1 .. Len(s) : i # 1 => i - 1 \in 1 .. Len(s) - 1 /\ Tail(s)[i - 1] = s[i]
  BY <1>1, Popped
<1>3. 1 \in 1 .. Len(s) /\ \A i \in 1 .. Len(s) - 1 : i + 1 \in 1 .. Len(s) /\ i + 1 # 1
  BY <1>2
<1>4. q \in Seq(Place)
  BY <1>2 DEF Block
<1>5. IsInjective(q) /\ Range(q) \subseteq S
  BY <1>2, <1>3 DEF Covers
<1>6. \A i \in 1 .. Len(s) - 1 : IsInjective(Tail(s)[i].places)
  BY <1>2, <1>3 DEF Covers
<1>7. ASSUME NEW i \in 1 .. Len(s) - 1, NEW j \in 1 .. Len(s) - 1,
             NEW p \in Range(Tail(s)[i].places), p \in Range(Tail(s)[j].places)
      PROVE  i = j
  <2>1. p \in Range(s[i + 1].places) /\ p \in Range(s[j + 1].places)
    BY <1>2, <1>7
  <2>2. i + 1 = j + 1
    BY <2>1, <1>3 DEF Covers
  <2> QED
    BY <2>2
<1>8. ASSUME NEW p, p \in S \ Range(q)
      PROVE  \E i \in 1 .. Len(s) - 1 : p \in Range(Tail(s)[i].places)
  <2>1. PICK i \in 1 .. Len(s) : p \in Range(s[i].places)
    BY <1>8 DEF Covers
  <2>2. i # 1
    BY <2>1, <1>2, <1>8
  <2> QED
    BY <2>1, <2>2, <1>2
<1>9. ASSUME NEW i \in 1 .. Len(s) - 1, NEW p \in Range(Tail(s)[i].places)
      PROVE  p \in S \ Range(q)
  <2>1. p \in Range(s[i + 1].places)
    BY <1>2
  <2>2. p \in S
    BY <2>1, <1>3 DEF Covers
  <2>3. p \notin Range(s[1].places)
    BY <2>1, <1>3 DEF Covers
  <2> QED
    BY <2>2, <2>3, <1>2
<1> QED
  BY <1>2, <1>4, <1>5, <1>6, <1>7, <1>8, <1>9 DEF Covers

\* What is visited, in the current block and still to be walked are the occupied
\* places, each once.
Walking(done, now, later) ==
  /\ done \in Seq(Place) /\ IsInjective(done) /\ Range(done) \subseteq Occupied(info)
  /\ now \in Seq(Place) /\ IsInjective(now) /\ Range(now) \subseteq Occupied(info) \ Range(done)
  /\ Covers(later, (Occupied(info) \ Range(done)) \ Range(now))

QueryInv ==
  /\ info \in Layouts
  /\ query \in {"idle", "running", "continue", "break", "panic"}
  /\ query = "running" => Walking(visited, slots, todo)
  /\ IsInjective(visited) /\ Range(visited) \subseteq Occupied(info)
  /\ query = "continue" => Range(visited) = Occupied(info)
  /\ query \in {"idle", "continue", "break"} => slots = <<>>

LEMMA NothingVisited == <<>> \in Seq(Place) /\ IsInjective(<<>>) /\ Range(<<>>) = {}
<1>1. DOMAIN <<>> = {}
  OBVIOUS
<1> QED
  BY <1>1 DEF IsInjective, Range

LEMMA QueryBeginInv ==
  ASSUME QueryInv, QueryBegin
  PROVE  QueryInv'
<1>1. PICK order \in SetToSeqs(Archetype) : todo' = Walk(order)
  BY DEF QueryBegin
<1>2. /\ info \in Layouts /\ slots = <<>> /\ query' = "running" /\ visited' = <<>>
      /\ info' = info /\ slots' = <<>>
  BY DEF QueryInv, QueryBegin
<1>3. Covers(todo', Occupied(info))
  BY <1>1, <1>2, WalkCovers
<1>4. (Occupied(info) \ Range(<<>>)) \ Range(<<>>) = Occupied(info)
  BY NothingVisited
<1>5. Walking(visited', slots', todo')
  BY <1>2, <1>3, <1>4, NothingVisited DEF Walking
<1> QED
  BY <1>2, <1>5, NothingVisited DEF QueryInv, Walking

LEMMA EnterBlockInv ==
  ASSUME QueryInv, EnterBlock
  PROVE  QueryInv'
<1> DEFINE S == (Occupied(info) \ Range(visited)) \ Range(slots)
<1>1. /\ query = "running" /\ slots = <<>> /\ todo # <<>> /\ slots' = Head(todo).places
      /\ todo' = Tail(todo) /\ UNCHANGED <<info, visited, query>>
  BY DEF EnterBlock
<1>2. Walking(visited, slots, todo)
  BY <1>1 DEF QueryInv
<1>3. S = Occupied(info) \ Range(visited)
  BY <1>1, NothingVisited
<1>4. Covers(todo, S)
  BY <1>2 DEF Walking
<1> HIDE DEF S
<1>5. /\ slots' \in Seq(Place) /\ IsInjective(slots') /\ Range(slots') \subseteq S
      /\ Covers(todo', S \ Range(slots'))
  BY <1>1, <1>4, NextBlock
<1>6. Walking(visited, slots', todo')
  BY <1>2, <1>3, <1>5 DEF Walking
<1>7. Walking(visited, slots, todo)' <=> Walking(visited, slots', todo')
  BY <1>1 DEF Walking, Occupied, Covers, Block
<1> QED
  BY <1>1, <1>6, <1>7 DEF QueryInv, Occupied

LEMMA VisitInv ==
  ASSUME QueryInv, NEW p, NEW breaks, Visit(p, breaks)
  PROVE  QueryInv'
<1>1. /\ query = "running" /\ slots # <<>> /\ p = Head(slots) /\ visited' = Append(visited, p)
      /\ info' = info
      /\ \/ query' = "break" /\ slots' = <<>>
         \/ query' = query /\ todo' = todo /\ slots' = Tail(slots)
  BY DEF Visit
<1>2. Walking(visited, slots, todo) /\ info \in Layouts
  BY <1>1 DEF QueryInv
<1>3. /\ p \in Place /\ Tail(slots) \in Seq(Place) /\ Range(slots) = Range(Tail(slots)) \cup {p}
      /\ IsInjective(Tail(slots)) /\ p \notin Range(Tail(slots))
  <2>1. slots \in Seq(Place) /\ IsInjective(slots)
    BY <1>2 DEF Walking
  <2> QED
    BY <2>1, <1>1, Popped
<1>4. p \in Occupied(info) /\ p \notin Range(visited)
  BY <1>2, <1>3 DEF Walking
<1>5. /\ visited' \in Seq(Place) /\ Range(visited') = Range(visited) \cup {p}
      /\ IsInjective(visited')
  <2>1. visited \in Seq(Place) /\ IsInjective(visited)
    BY <1>2 DEF Walking
  <2> QED
    BY <2>1, <1>1, <1>3, <1>4, Added
<1>6. Range(visited') \subseteq Occupied(info)
  BY <1>2, <1>4, <1>5 DEF Walking
<1>7. (Occupied(info) \ Range(visited')) \ Range(Tail(slots)) =
        (Occupied(info) \ Range(visited)) \ Range(slots)
  BY <1>3, <1>5
<1>8. Walking(visited', Tail(slots), todo)
  BY <1>2, <1>3, <1>5, <1>6, <1>7 DEF Walking
<1>9. CASE query' = "break" /\ slots' = <<>>
  BY <1>1, <1>2, <1>5, <1>6, <1>9 DEF QueryInv, Occupied
<1>10. CASE query' = query /\ todo' = todo /\ slots' = Tail(slots)
  <2>1. Walking(visited, slots, todo)' <=> Walking(visited', Tail(slots), todo)
    BY <1>1, <1>10 DEF Walking, Occupied, Covers, Block
  <2> QED
    BY <2>1, <1>1, <1>2, <1>5, <1>6, <1>8, <1>10 DEF QueryInv, Occupied
<1> QED
  BY <1>1, <1>9, <1>10

LEMMA QueryEndInv ==
  ASSUME QueryInv, QueryEnd
  PROVE  QueryInv'
<1>1. /\ query = "running" /\ slots = <<>> /\ todo = <<>> /\ query' = "continue"
      /\ UNCHANGED <<info, slots, visited>>
  BY DEF QueryEnd
<1>2. Walking(visited, slots, todo)
  BY <1>1 DEF QueryInv
<1>3. ASSUME NEW p, p \in Occupied(info), p \notin Range(visited) PROVE FALSE
  <2>1. p \in (Occupied(info) \ Range(visited)) \ Range(slots)
    BY <1>1, <1>3, NothingVisited
  <2>2. \E i \in 1 .. Len(todo) : p \in Range(todo[i].places)
    BY <2>1, <1>2 DEF Walking, Covers
  <2>3. 1 .. Len(todo) = {}
    BY <1>1
  <2> QED
    BY <2>2, <2>3
<1>4. Range(visited) = Occupied(info)
  BY <1>2, <1>3 DEF Walking
<1> QED
  BY <1>1, <1>4 DEF QueryInv, Occupied

LEMMA QueryStopInv ==
  ASSUME QueryInv, BorrowPanics \/ QueryReturned
  PROVE  QueryInv'
<1>1. CASE BorrowPanics
  BY <1>1 DEF BorrowPanics, QueryInv, Occupied
<1>2. CASE QueryReturned
  BY <1>2, NothingVisited DEF QueryReturned, QueryInv, Occupied
<1> QED
  BY <1>1, <1>2

LEMMA QueryUnchanged ==
  ASSUME QueryInv, UNCHANGED <<info, todo, slots, visited, query>>
  PROVE  QueryInv'
BY DEF QueryInv, Walking, Occupied, Covers, Block

LEMMA WhoQueries ==
  ASSUME [Next]_dispatchVars
  PROVE  \/ QueryBegin \/ EnterBlock \/ QueryEnd \/ BorrowPanics \/ QueryReturned
         \/ \E p \in Place, breaks \in BOOLEAN : Visit(p, breaks)
         \/ UNCHANGED <<info, todo, slots, visited, query>>
<1>1. CASE QueryStep
  BY <1>1 DEF QueryStep, VisitEntity
<1>2. CASE DrainStep
  BY <1>2 DEF DrainStep, BeginDrain, FirstCall, RunBehavior, DeadTarget, SkipEvent,
              HandleEvent, NextCall, queryVars
<1>3. CASE Register \/ Sort
  BY <1>3 DEF Register, Sort, queryVars
<1>4. CASE KeepEvents \/ ClearEvents
  BY <1>4 DEF KeepEvents, ClearEvents, NextFrame
<1>5. CASE UNCHANGED dispatchVars
  BY <1>5 DEF dispatchVars, queryVars
<1> QED
  BY <1>1, <1>2, <1>3, <1>4, <1>5 DEF Next, Step

\* A query under way has visited some occupied places and has the others before
\* it, each once.
THEOREM QueryTheorem == Spec => []QueryInv
<1>1. Init => QueryInv
  BY NothingVisited DEF Init, QueryInit, QueryInv
<1>2. QueryInv /\ [Next]_dispatchVars => QueryInv'
  BY WhoQueries, QueryBeginInv, EnterBlockInv, VisitInv, QueryEndInv, QueryStopInv, QueryUnchanged
<1> QED
  BY <1>1, <1>2, PTL DEF Spec

\* VisitedExact, for any archetypes, any length of their heaps and of blocks, and
\* any places which are stuck: no place is visited twice, none without an entity,
\* and a query which was not stopped has visited every entity.
THEOREM VisitedTheorem == Spec => []VisitedExact
<1>1. QueryInv => VisitedExact
  BY DEF QueryInv, VisitedExact
<1> QED
  BY QueryTheorem, <1>1, PTL

-----------------------------------------------------------------------------
(* The events of a drain.                                                  *)

EventList == [events : Seq(Nat), process_list : [QueryKey -> Nat], owned : SUBSET Place]
Group == [version : Nat, events : [EventType -> EventList]]

\* The events of type t in one group, and how many of them behaviour k has taken.
Filed(g, t) == g.events[t].events
Position(g, t, k) == g.events[t].process_list[k]

\* Event n is in the group, and behaviour k has taken it.
Holds(g, t, n) == \E i \in 1 .. Len(Filed(g, t)) : Filed(g, t)[i] = n
Took(g, k, n) == \E i \in 1 .. Position(g, Handles[k], k) : Filed(g, Handles[k])[i] = n

\* It has taken all of its type.
TookAll(g, k) == Position(g, Handles[k], k) = Len(Filed(g, Handles[k]))

\* The lists of a group hold events of their type, none twice, and nobody has taken
\* more than there are.
GroupOK(g, ev) ==
  /\ g \in Group
  /\ \A t \in EventType :
       /\ \A i \in 1 .. Len(Filed(g, t)) : /\ Filed(g, t)[i] \in 1 .. Len(ev)
                                           /\ ev[Filed(g, t)[i]].type = t
       /\ \A i, j \in 1 .. Len(Filed(g, t)) : Filed(g, t)[i] = Filed(g, t)[j] => i = j
       /\ \A k \in QueryKey : Position(g, t, k) <= Len(Filed(g, t))

\* Every event fired is in one of the groups, and none in both.
FiledOnce(gr, ev) ==
  /\ \A side \in Side : GroupOK(gr[side], ev)
  /\ \A n \in 1 .. Len(ev) : \E side \in Side : Holds(gr[side], ev[n].type, n)
  /\ \A t \in EventType, n \in 1 .. Len(ev) :
       ~ (Holds(gr["primary"], t, n) /\ Holds(gr["secondary"], t, n))

ToHandle(ev, k) == {n \in 1 .. Len(ev) : ev[n].type = Handles[k] /\ ev[n].target[1] \in Wants[k]}

TookAny(gr, k, n) == \E side \in Side : Took(gr[side], k, n)

Among(evs, n) == \E i \in 1 .. Len(evs) : evs[i] = n

\* What behaviour k has handled it was to handle and has taken; what it has taken it has
\* handled, unless it is among those it is just going through.
Ledger(gr, ev, hd, br, run, evs) ==
  /\ hd \in [QueryKey -> [1 .. MaxEvents -> {0, 1}]]
  /\ \A k \in QueryKey : \A n \in 1 .. MaxEvents :
       /\ hd[k][n] = 1 => n \in ToHandle(ev, k) /\ TookAny(gr, k, n)
       /\ n \in ToHandle(ev, k) /\ TookAny(gr, k, n) =>
            br \/ hd[k][n] = 1 \/ (k = run /\ Among(evs, n))

\* Those it is going through come once, are of its type, are taken and not handled yet.
Batch(gr, ev, hd, run, evs) ==
  /\ run \in QueryKey
  /\ \A i \in 1 .. Len(evs) : /\ evs[i] \in 1 .. Len(ev)
                              /\ ev[evs[i]].type = Handles[run]
                              /\ TookAny(gr, run, evs[i]) /\ hd[run][evs[i]] = 0
  /\ \A i, j \in 1 .. Len(evs) : evs[i] = evs[j] => i = j

\* After the first call of the closure: nothing was fired into the side which is read;
\* if nothing was into the other side either, that one is done with.
Noticed(gr, reader, seen, keys) ==
  /\ gr[reader].version = seen[reader]
  /\ gr[Other(reader)].version >= seen[Other(reader)]
  /\ gr[Other(reader)].version = seen[Other(reader)] =>
       \A k \in keys : TookAll(gr[Other(reader)], k)

Keys == {behaviors_topos[i] : i \in 1 .. Len(behaviors_topos)}

DrainType ==
  [stage : {"none", "drive", "first", "second", "loop", "done", "broken", "panic"},
   reader : Side, seen : [Side -> Nat], left : Seq(QueryKey), running : QueryKey \cup {0},
   events : Seq(Nat)]

\* In a call of the closure, the behaviours called so far have taken all there is.
Rounds ==
  /\ drain \in DrainType
  /\ InDrain =>
       /\ behaviors_topos # NoOrder
       /\ \A k \in Keys : \/ \E i \in 1 .. Len(drain.left) : drain.left[i] = k
                          \/ TookAll(group[drain.reader], k)
       /\ drain.stage # "first" => Noticed(group, drain.reader, drain.seen, Keys)
       /\ drain.events # <<>> =>
            Batch(group, fired, handled, drain.running, drain.events)
  /\ drain.stage = "done" =>
       /\ behaviors_topos # NoOrder
       /\ \A side \in Side : \A k \in Keys : TookAll(group[side], k)
  /\ drain.stage \in {"none", "drive", "done"} => drain.events = <<>>
  /\ drain.stage = "broken" => broken

\* The behaviours of the order.
Ordered ==
  /\ behaviors \in Seq(Behavior) /\ Len(behaviors) <= MaxBehaviors
  /\ behaviors_topos # NoOrder => behaviors_topos \in Seq(QueryKey)
  /\ sort.state = "running" =>
       /\ sort = Running(sort.behavior_counts, sort.resolvers, sort.ready, sort.toposorted)
       /\ sort.toposorted \in Seq(QueryKey)

Event == [type : EventType, target : Place]

Events ==
  /\ fired \in Seq(Event) /\ Len(fired) <= MaxEvents
  /\ group \in [Side -> Group] /\ FiledOnce(group, fired)
  /\ broken \in BOOLEAN
  /\ Ledger(group, fired, handled, broken, drain.running, drain.events)

EventInv == Ordered /\ Events /\ Rounds

LEMMA Sides ==
  ASSUME NEW side \in Side
  PROVE  /\ Other(side) \in Side /\ Other(side) # side /\ Other(Other(side)) = side
         /\ \A s \in Side : s = side \/ s = Other(side)
BY DEF Side, Other

\* What an operation of a group does, read through its accessors.
Grows(g, g2, t, n) ==
  /\ g2 \in Group /\ g2.version = g.version + 1
  /\ \A u \in EventType : /\ Filed(g2, u) = IF u = t THEN Append(Filed(g, u), n) ELSE Filed(g, u)
                          /\ \A k \in QueryKey : Position(g2, u, k) = Position(g, u, k)

Takes(g, g2, t, k) ==
  /\ g2 \in Group /\ g2.version = g.version
  /\ \A u \in EventType :
       /\ Filed(g2, u) = Filed(g, u)
       /\ \A j \in QueryKey : Position(g2, u, j) = IF u = t /\ j = k THEN Len(Filed(g, u))
                                                   ELSE Position(g, u, j)

LEMMA GroupParts ==
  ASSUME NEW g \in Group, NEW t \in EventType
  PROVE  /\ g.version \in Nat /\ Filed(g, t) \in Seq(Nat) /\ Len(Filed(g, t)) \in Nat
         /\ \A k \in QueryKey : Position(g, t, k) \in Nat
         /\ g.events[t] \in EventList /\ g.events \in [EventType -> EventList]
BY DEF Group, EventList, Filed, Position

LEMMA FireGrows ==
  ASSUME NEW g \in Group, NEW t \in EventType, NEW n \in Nat
  PROVE  Grows(g, fire(g, t, n), t, n)
<1> DEFINE old == g.events[t]
           list == [old EXCEPT !.events = Append(@, n)]
           g2 == [version |-> g.version + 1, events |-> [g.events EXCEPT ![t] = list]]
<1>1. /\ g = [version |-> g.version, events |-> g.events]
      /\ old \in EventList /\ g.version \in Nat /\ g.events \in [EventType -> EventList]
  BY DEF Group
<1>2. /\ list \in EventList /\ list.events = Append(old.events, n)
      /\ list.process_list = old.process_list
  <2> HIDE DEF old
  <2>1. old = [events |-> old.events, process_list |-> old.process_list, owned |-> old.owned]
        /\ old.events \in Seq(Nat)
    BY <1>1 DEF EventList
  <2>2. Append(old.events, n) \in Seq(Nat)
    BY <2>1
  <2> QED
    BY <1>1, <2>1, <2>2 DEF EventList
<1>3. fire(g, t, n) = g2
  <2>1. fire(g, t, n) = [[g EXCEPT !.version = g.version + 1] EXCEPT !.events[t].events = Append(@, n)]
    BY DEF fire
  <2>2. [g EXCEPT !.version = g.version + 1] = [version |-> g.version + 1, events |-> g.events]
    BY <1>1
  <2> QED
    BY <2>1, <2>2
<1>4. g2 \in Group
  <2> HIDE DEF list
  <2> QED
    BY <1>1, <1>2 DEF Group
<1>5. \A u \in EventType : g2.events[u] = IF u = t THEN list ELSE g.events[u]
  BY <1>1
<1>6. g2.version = g.version + 1
  OBVIOUS
<1> HIDE DEF list, g2
<1> QED
  BY <1>2, <1>3, <1>4, <1>5, <1>6 DEF Grows, Filed, Position

LEMMA FireOwnedGrows ==
  ASSUME NEW g \in Group, NEW t \in EventType, NEW n \in Nat, NEW e \in Place
  PROVE  Grows(g, fire_owned(g, t, n, e), t, n)
<1> DEFINE h == fire(g, t, n)
           list == [h.events[t] EXCEPT !.owned = @ \cup {e}]
           g2 == [version |-> h.version, events |-> [h.events EXCEPT ![t] = list]]
<1>1. Grows(g, h, t, n)
  BY FireGrows
<1>2. fire_owned(g, t, n, e) = [h EXCEPT !.events[t].owned = @ \cup {e}]
  BY DEF fire_owned
<1> HIDE DEF h
<1>3. /\ h = [version |-> h.version, events |-> h.events]
      /\ h.events[t] \in EventList /\ h.version \in Nat /\ h.events \in [EventType -> EventList]
  BY <1>1 DEF Group, Grows
<1>4. list \in EventList /\ list.events = h.events[t].events
      /\ list.process_list = h.events[t].process_list
  BY <1>3 DEF EventList
<1>5. fire_owned(g, t, n, e) = g2
  BY <1>2, <1>3
<1> HIDE DEF list
<1>6. g2 \in Group
  BY <1>3, <1>4 DEF Group
<1>7. \A u \in EventType : g2.events[u] = IF u = t THEN list ELSE h.events[u]
  BY <1>3
<1> QED
  BY <1>1, <1>4, <1>5, <1>6, <1>7 DEF Grows, Filed, Position

LEMMA TakenTakes ==
  ASSUME NEW g \in Group, NEW t \in EventType, NEW k \in QueryKey
  PROVE  Takes(g, Taken(g, t, k), t, k)
<1> DEFINE m == Len(g.events[t].events)
           list == [g.events[t] EXCEPT !.process_list[k] = m]
           g2 == [version |-> g.version, events |-> [g.events EXCEPT ![t] = list]]
<1>1. /\ g = [version |-> g.version, events |-> g.events]
      /\ g.events[t] \in EventList /\ g.version \in Nat /\ g.events \in [EventType -> EventList]
  BY DEF Group
<1>2. m \in Nat
  BY <1>1 DEF EventList
<1>3. Taken(g, t, k) = g2
  BY <1>1 DEF Taken
<1> HIDE DEF m
<1>4. list \in EventList /\ list.events = g.events[t].events
      /\ \A j \in QueryKey : list.process_list[j] = IF j = k THEN m ELSE g.events[t].process_list[j]
  BY <1>1, <1>2 DEF EventList
<1> HIDE DEF list
<1>5. g2 \in Group
  BY <1>1, <1>4 DEF Group
<1>6. \A u \in EventType : g2.events[u] = IF u = t THEN list ELSE g.events[u]
  BY <1>1
<1> QED
  BY <1>3, <1>4, <1>5, <1>6 DEF Takes, Filed, Position, m

LEMMA Appended ==
  ASSUME NEW s \in Seq(Nat), NEW n \in Nat
  PROVE  /\ Append(s, n) \in Seq(Nat) /\ Len(Append(s, n)) = Len(s) + 1
         /\ \A i \in 1 .. Len(s) : Append(s, n)[i] = s[i]
         /\ Append(s, n)[Len(s) + 1] = n
OBVIOUS

\* One event more, at the end of the list of its type.
LEMMA GroupGrows ==
  ASSUME NEW ev \in Seq(Event), NEW e \in Event, NEW g, GroupOK(g, ev), NEW g2,
         Grows(g, g2, e.type, Len(ev) + 1)
  PROVE  /\ GroupOK(g2, Append(ev, e))
         /\ \A u \in EventType, n \in Nat :
              Holds(g2, u, n) <=> Holds(g, u, n) \/ (u = e.type /\ n = Len(ev) + 1)
         /\ \A k \in QueryKey, n \in Nat : Took(g2, k, n) <=> Took(g, k, n)
         /\ \A k \in QueryKey : Handles[k] \in EventType
<1> DEFINE N == Len(ev) + 1
           ev2 == Append(ev, e)
<1>1. e.type \in EventType /\ N \in Nat /\ g \in Group /\ g2 \in Group
  BY DEF Event, GroupOK, Grows
<1>2. \A n \in 1 .. Len(ev) : ev2[n] = ev[n] /\ n \in 1 .. Len(ev2) /\ n # N
  OBVIOUS
<1>3. ev2[N] = e /\ N \in 1 .. Len(ev2)
  OBVIOUS
<1>4. ASSUME NEW u \in EventType, u # e.type
      PROVE  Filed(g2, u) = Filed(g, u) /\ \A k \in QueryKey : Position(g2, u, k) = Position(g, u, k)
  BY <1>4 DEF Grows
<1>5. /\ Filed(g2, e.type) = Append(Filed(g, e.type), N)
      /\ \A k \in QueryKey : Position(g2, e.type, k) = Position(g, e.type, k)
  BY <1>1 DEF Grows
<1>6. \A u \in EventType : /\ Filed(g, u) \in Seq(Nat) /\ Len(Filed(g, u)) \in Nat
                           /\ \A k \in QueryKey : Position(g, u, k) \in Nat
  BY <1>1, GroupParts
<1>7. /\ Len(Filed(g2, e.type)) = Len(Filed(g, e.type)) + 1
      /\ \A i \in 1 .. Len(Filed(g, e.type)) : Filed(g2, e.type)[i] = Filed(g, e.type)[i]
      /\ Filed(g2, e.type)[Len(Filed(g, e.type)) + 1] = N
  BY <1>1, <1>5, <1>6, Appended
<1>8. \A k \in QueryKey : Handles[k] \in EventType
  BY DispatchAssumption
<1>9. ASSUME NEW u \in EventType
      PROVE  /\ \A i \in 1 .. Len(Filed(g, u)) : /\ Filed(g, u)[i] \in 1 .. Len(ev)
                                                 /\ ev[Filed(g, u)[i]].type = u
             /\ \A i, j \in 1 .. Len(Filed(g, u)) : Filed(g, u)[i] = Filed(g, u)[j] => i = j
             /\ \A k \in QueryKey : Position(g, u, k) <= Len(Filed(g, u))
  BY DEF GroupOK
<1> HIDE DEF N, ev2
<1>10. GroupOK(g2, ev2)
  <2>1. ASSUME NEW u \in EventType
        PROVE  /\ \A i \in 1 .. Len(Filed(g2, u)) : /\ Filed(g2, u)[i] \in 1 .. Len(ev2)
                                                    /\ ev2[Filed(g2, u)[i]].type = u
               /\ \A i, j \in 1 .. Len(Filed(g2, u)) : Filed(g2, u)[i] = Filed(g2, u)[j] => i = j
               /\ \A k \in QueryKey : Position(g2, u, k) <= Len(Filed(g2, u))
    <3>1. CASE u # e.type
      BY <3>1, <1>4, <1>9, <1>2
    <3>2. CASE u = e.type
      <4>1. ASSUME NEW i \in 1 .. Len(Filed(g2, u))
            PROVE  \/ i \in 1 .. Len(Filed(g, u)) /\ Filed(g2, u)[i] = Filed(g, u)[i]
                   \/ i = Len(Filed(g, u)) + 1 /\ Filed(g2, u)[i] = N
        BY <3>2, <1>6, <1>7
      <4>2. \A i \in 1 .. Len(Filed(g2, u)) : Filed(g2, u)[i] \in 1 .. Len(ev2)
                                              /\ ev2[Filed(g2, u)[i]].type = u
        BY <4>1, <1>9, <1>2, <1>3, <3>2
      <4>3. \A i \in 1 .. Len(Filed(g, u)) : Filed(g, u)[i] # N
        BY <1>9, <1>2
      <4>4. \A i, j \in 1 .. Len(Filed(g2, u)) : Filed(g2, u)[i] = Filed(g2, u)[j] => i = j
        BY <4>1, <4>3, <1>9
      <4>5. \A k \in QueryKey : Position(g2, u, k) <= Len(Filed(g2, u))
        BY <3>2, <1>5, <1>6, <1>7, <1>9
      <4> QED
        BY <4>2, <4>4, <4>5
    <3> QED
      BY <3>1, <3>2
  <2> QED
    BY <2>1, <1>1 DEF GroupOK
<1>11. ASSUME NEW u \in EventType, NEW n \in Nat
       PROVE  Holds(g2, u, n) <=> Holds(g, u, n) \/ (u = e.type /\ n = N)
  <2>1. CASE u # e.type
    BY <2>1, <1>4 DEF Holds
  <2>2. CASE u = e.type
    <3>1. \A i : i \in 1 .. Len(Filed(g2, u)) <=>
                   i \in 1 .. Len(Filed(g, u)) \/ i = Len(Filed(g, u)) + 1
      BY <2>2, <1>6, <1>7
    <3> QED
      BY <3>1, <2>2, <1>7 DEF Holds
  <2> QED
    BY <2>1, <2>2
<1>12. ASSUME NEW k \in QueryKey, NEW n \in Nat
       PROVE  Took(g2, k, n) <=> Took(g, k, n)
  <2>1. Position(g2, Handles[k], k) = Position(g, Handles[k], k)
    BY <1>4, <1>5, <1>8
  <2>2. \A i \in 1 .. Position(g, Handles[k], k) : Filed(g2, Handles[k])[i] = Filed(g, Handles[k])[i]
    <3>1. CASE Handles[k] # e.type
      BY <3>1, <1>4, <1>8
    <3>2. CASE Handles[k] = e.type
      <4>1. Position(g, Handles[k], k) \in Nat /\ Len(Filed(g, Handles[k])) \in Nat
            /\ Position(g, Handles[k], k) <= Len(Filed(g, Handles[k]))
        BY <1>6, <1>8, <1>9
      <4>2. \A i \in 1 .. Position(g, Handles[k], k) : i \in 1 .. Len(Filed(g, Handles[k]))
        BY <4>1
      <4> QED
        BY <3>2, <4>2, <1>7
    <3> QED
      BY <3>1, <3>2
  <2> QED
    BY <2>1, <2>2 DEF Took
<1> QED
  BY <1>8, <1>10, <1>11, <1>12 DEF N, ev2

LEMMA Typed ==
  ASSUME NEW ev \in Seq(Event)
  PROVE  \A n \in 1 .. Len(ev) : ev[n].type \in EventType /\ ev[n].target \in Place
<1>1. \A n \in 1 .. Len(ev) : ev[n] \in Event
  OBVIOUS
<1> QED
  BY <1>1 DEF Event

\* The events of a group are older than the one fired next.
LEMMA Older ==
  ASSUME NEW ev \in Seq(Event), NEW g, GroupOK(g, ev)
  PROVE  /\ \A n : \A u \in EventType : Holds(g, u, n) => n \in 1 .. Len(ev) /\ ev[n].type = u
         /\ \A n : \A k \in QueryKey : Took(g, k, n) => Holds(g, Handles[k], n)
<1>1. \A n : \A u \in EventType : Holds(g, u, n) => n \in 1 .. Len(ev) /\ ev[n].type = u
  BY DEF GroupOK, Holds
<1>2. ASSUME NEW k \in QueryKey, NEW n, Took(g, k, n) PROVE Holds(g, Handles[k], n)
  <2>1. Handles[k] \in EventType
    BY DispatchAssumption
  <2>2. Position(g, Handles[k], k) <= Len(Filed(g, Handles[k])) /\ g \in Group
    BY <2>1 DEF GroupOK
  <2>3. Position(g, Handles[k], k) \in Nat /\ Len(Filed(g, Handles[k])) \in Nat
    BY <2>1, <2>2, GroupParts
  <2>4. PICK i \in 1 .. Position(g, Handles[k], k) : Filed(g, Handles[k])[i] = n
    BY <1>2 DEF Took
  <2> QED
    BY <2>2, <2>3, <2>4 DEF Holds
<1> QED
  BY <1>1, <1>2

LEMMA GroupStays ==
  ASSUME NEW ev \in Seq(Event), NEW e \in Event, NEW g, GroupOK(g, ev)
  PROVE  GroupOK(g, Append(ev, e))
<1>1. \A n \in 1 .. Len(ev) : n \in 1 .. Len(Append(ev, e)) /\ Append(ev, e)[n] = ev[n]
  OBVIOUS
<1> QED
  BY <1>1 DEF GroupOK

\* What a behaviour fires into a side.
LEMMA FiledOnceGrows ==
  ASSUME NEW ev \in Seq(Event), NEW e \in Event, NEW gr \in [Side -> Group], FiledOnce(gr, ev),
         NEW side \in Side, NEW g2, Grows(gr[side], g2, e.type, Len(ev) + 1)
  PROVE  LET gr2 == [gr EXCEPT ![side] = g2]
         IN /\ gr2 \in [Side -> Group] /\ FiledOnce(gr2, Append(ev, e))
            /\ \A k \in QueryKey, n \in Nat : TookAny(gr2, k, n) <=> TookAny(gr, k, n)
<1> DEFINE gr2 == [gr EXCEPT ![side] = g2]
           ev2 == Append(ev, e)
           N == Len(ev) + 1
<1>1. \A s \in Side : GroupOK(gr[s], ev)
  BY DEF FiledOnce
<1>2. /\ GroupOK(g2, ev2)
      /\ \A u \in EventType, n \in Nat : Holds(g2, u, n) <=> Holds(gr[side], u, n) \/ (u = e.type /\ n = N)
      /\ \A k \in QueryKey, n \in Nat : Took(g2, k, n) <=> Took(gr[side], k, n)
  BY <1>1, GroupGrows
<1>3. \A s \in Side : GroupOK(gr[s], ev2)
  BY <1>1, GroupStays
<1>4. gr2 \in [Side -> Group] /\ \A s \in Side : gr2[s] = IF s = side THEN g2 ELSE gr[s]
  BY <1>2 DEF GroupOK
<1>5. /\ \A n \in 1 .. Len(ev) : ev2[n] = ev[n]
      /\ ev2[N] = e /\ N \in Nat /\ e.type \in EventType
      /\ \A n \in 1 .. Len(ev) : ev[n].type \in EventType
      /\ \A n : n \in 1 .. Len(ev2) <=> n \in 1 .. Len(ev) \/ n = N
      /\ \A n \in 1 .. Len(ev) : n # N /\ n \in Nat
  <2>1. Len(ev2) = N /\ N \in Nat /\ ev2[N] = e /\ \A n \in 1 .. Len(ev) : ev2[n] = ev[n]
    OBVIOUS
  <2>2. e.type \in EventType /\ \A n \in 1 .. Len(ev) : ev[n].type \in EventType
    BY Typed, e \in Event DEF Event
  <2>3. \A n : n \in 1 .. N <=> n \in 1 .. Len(ev) \/ n = N
    OBVIOUS
  <2>4. \A n \in 1 .. Len(ev) : n # N /\ n \in Nat
    OBVIOUS
  <2> HIDE DEF ev2, N
  <2> QED
    BY <2>1, <2>2, <2>3, <2>4
<1>6. \A n : \A u \in EventType : \A s \in Side : Holds(gr[s], u, n) => n \in 1 .. Len(ev)
  BY <1>1, Older
<1> HIDE DEF gr2, ev2, N
<1>7. \A s \in Side : GroupOK(gr2[s], ev2)
  BY <1>2, <1>3, <1>4
<1>8. \A s \in Side : \A u \in EventType, n \in Nat :
        Holds(gr2[s], u, n) <=> Holds(gr[s], u, n) \/ (s = side /\ u = e.type /\ n = N)
  BY <1>2, <1>4
<1>9. ASSUME NEW n \in 1 .. Len(ev2)
      PROVE  \E s \in Side : Holds(gr2[s], ev2[n].type, n)
  <2>1. CASE n = N
    BY <2>1, <1>5, <1>8
  <2>2. CASE n \in 1 .. Len(ev)
    <3>1. PICK s \in Side : Holds(gr[s], ev[n].type, n)
      BY <2>2 DEF FiledOnce
    <3> QED
      BY <2>2, <3>1, <1>5, <1>8
  <2> QED
    BY <2>1, <2>2, <1>5
<1>10. ASSUME NEW u \in EventType, NEW n \in 1 .. Len(ev2)
       PROVE  ~ (Holds(gr2["primary"], u, n) /\ Holds(gr2["secondary"], u, n))
  <2>1. "primary" \in Side /\ "secondary" \in Side
    BY DEF Side
  <2>2. CASE n = N
    <3>1. n \in Nat /\ ~ Holds(gr["primary"], u, n) /\ ~ Holds(gr["secondary"], u, n)
      BY <2>1, <2>2, <1>5, <1>6
    <3> QED
      BY <3>1, <2>1, <1>8
  <2>3. CASE n \in 1 .. Len(ev)
    <3>1. n # N /\ n \in Nat /\ ~ (Holds(gr["primary"], u, n) /\ Holds(gr["secondary"], u, n))
      BY <2>3, <1>5 DEF FiledOnce
    <3> QED
      BY <3>1, <2>1, <1>8
  <2> QED
    BY <2>2, <2>3, <1>5
<1>11. FiledOnce(gr2, ev2)
  BY <1>7, <1>9, <1>10 DEF FiledOnce
<1>12. \A k \in QueryKey, n \in Nat : TookAny(gr2, k, n) <=> TookAny(gr, k, n)
  BY <1>2, <1>4 DEF TookAny
<1> QED
  BY <1>4, <1>11, <1>12 DEF gr2, ev2

\* The books do not change by that.
LEMMA LedgerGrows ==
  ASSUME NEW ev \in Seq(Event), NEW e \in Event, NEW gr, NEW gr2, FiledOnce(gr, ev),
         \A k \in QueryKey, n \in Nat : TookAny(gr2, k, n) <=> TookAny(gr, k, n),
         NEW hd, NEW br, NEW run, NEW evs
  PROVE  /\ Ledger(gr, ev, hd, br, run, evs) => Ledger(gr2, Append(ev, e), hd, br, run, evs)
         /\ Batch(gr, ev, hd, run, evs) => Batch(gr2, Append(ev, e), hd, run, evs)
<1> DEFINE ev2 == Append(ev, e)
<1>1. \A n \in 1 .. Len(ev) : n \in 1 .. Len(ev2) /\ ev2[n] = ev[n] /\ n \in Nat
  OBVIOUS
<1>2. \A k \in QueryKey, n \in Nat : TookAny(gr, k, n) => n \in 1 .. Len(ev)
  <2>1. \A s \in Side : GroupOK(gr[s], ev)
    BY DEF FiledOnce
  <2>2. \A k \in QueryKey : Handles[k] \in EventType
    BY DispatchAssumption
  <2> QED
    BY <2>1, <2>2, Older DEF TookAny
<1> HIDE DEF ev2
<1>3. \A k : \A n \in 1 .. Len(ev) : n \in ToHandle(ev2, k) <=> n \in ToHandle(ev, k)
  BY <1>1 DEF ToHandle
<1>4. \A k, n : n \in ToHandle(ev, k) => n \in 1 .. Len(ev)
  BY DEF ToHandle
<1>5. ASSUME Ledger(gr, ev, hd, br, run, evs) PROVE Ledger(gr2, ev2, hd, br, run, evs)
  <2>1. ASSUME NEW k \in QueryKey, NEW n \in 1 .. MaxEvents
        PROVE  /\ hd[k][n] = 1 => n \in ToHandle(ev2, k) /\ TookAny(gr2, k, n)
               /\ n \in ToHandle(ev2, k) /\ TookAny(gr2, k, n) =>
                    br \/ hd[k][n] = 1 \/ (k = run /\ Among(evs, n))
    <3>1. /\ hd[k][n] = 1 => n \in ToHandle(ev, k) /\ TookAny(gr, k, n)
          /\ n \in ToHandle(ev, k) /\ TookAny(gr, k, n) =>
               br \/ hd[k][n] = 1 \/ (k = run /\ Among(evs, n))
      BY <1>5 DEF Ledger
    <3>2. n \in Nat
      BY DispatchAssumption
    <3> QED
      BY <3>1, <3>2, <1>2, <1>3, <1>4
  <2> QED
    BY <2>1, <1>5 DEF Ledger
<1>6. ASSUME Batch(gr, ev, hd, run, evs) PROVE Batch(gr2, ev2, hd, run, evs)
  BY <1>1, <1>6 DEF Batch
<1> QED
  BY <1>5, <1>6 DEF ev2

\* A behaviour takes what it has not taken.
LEMMA FiledOnceTakes ==
  ASSUME NEW ev \in Seq(Event), NEW gr \in [Side -> Group], FiledOnce(gr, ev), NEW side \in Side,
         NEW k \in QueryKey, NEW g2, Takes(gr[side], g2, Handles[k], k)
  PROVE  LET gr2 == [gr EXCEPT ![side] = g2]
         IN /\ gr2 \in [Side -> Group] /\ FiledOnce(gr2, ev)
            /\ \A j \in QueryKey : \A s \in Side : j # k \/ s # side =>
                 /\ TookAll(gr2[s], j) <=> TookAll(gr[s], j)
                 /\ \A n : Took(gr2[s], j, n) <=> Took(gr[s], j, n)
            /\ TookAll(g2, k)
            /\ \A n : Took(g2, k, n) <=> Holds(gr[side], Handles[k], n)
<1> DEFINE gr2 == [gr EXCEPT ![side] = g2]
           g == gr[side]
           t == Handles[k]
<1>1. \A s \in Side : GroupOK(gr[s], ev)
  BY DEF FiledOnce
<1>2. g \in Group /\ g2 \in Group /\ \A j \in QueryKey : Handles[j] \in EventType
  BY DispatchAssumption DEF Takes
<1>3. gr2 \in [Side -> Group] /\ \A s \in Side : gr2[s] = IF s = side THEN g2 ELSE gr[s]
  BY <1>2
<1>4. /\ \A u \in EventType : Filed(g2, u) = Filed(g, u)
      /\ \A u \in EventType : \A j \in QueryKey :
           Position(g2, u, j) = IF u = t /\ j = k THEN Len(Filed(g, u)) ELSE Position(g, u, j)
  BY DEF Takes
<1>5. \A u \in EventType : Len(Filed(g, u)) \in Nat
  BY <1>2, GroupParts
<1> HIDE DEF gr2, g, t
<1>6. GroupOK(g2, ev)
  <2>1. GroupOK(g, ev)
    BY <1>1 DEF g
  <2>2. ASSUME NEW u \in EventType, NEW j \in QueryKey
        PROVE  Position(g2, u, j) <= Len(Filed(g2, u))
    <3>1. Position(g, u, j) <= Len(Filed(g, u))
      BY <2>1 DEF GroupOK
    <3>2. CASE u = t /\ j = k
      BY <3>2, <1>4, <1>5
    <3>3. CASE ~ (u = t /\ j = k)
      BY <3>1, <3>3, <1>4
    <3> QED
      BY <3>2, <3>3
  <2> QED
    BY <2>1, <2>2, <1>2, <1>4 DEF GroupOK
<1>7. \A s \in Side : GroupOK(gr2[s], ev)
  BY <1>1, <1>3, <1>6
<1>8. \A s \in Side : \A u \in EventType : \A n : Holds(gr2[s], u, n) <=> Holds(gr[s], u, n)
  <2>1. \A u \in EventType : \A n : Holds(g2, u, n) <=> Holds(g, u, n)
    BY <1>4 DEF Holds
  <2> QED
    BY <2>1, <1>3 DEF g
<1>9. FiledOnce(gr2, ev)
  <2>1. \A n \in 1 .. Len(ev) : ev[n].type \in EventType =>
          \E s \in Side : Holds(gr2[s], ev[n].type, n)
    BY <1>8 DEF FiledOnce
  <2>2. \A n \in 1 .. Len(ev) : ev[n].type \in EventType
    BY Typed
  <2>3. "primary" \in Side /\ "secondary" \in Side
    BY DEF Side
  <2>4. \A u \in EventType, n \in 1 .. Len(ev) :
          ~ (Holds(gr2["primary"], u, n) /\ Holds(gr2["secondary"], u, n))
    BY <2>3, <1>8 DEF FiledOnce
  <2> QED
    BY <2>1, <2>2, <2>4, <1>7 DEF FiledOnce
<1>10. ASSUME NEW j \in QueryKey, j # k
       PROVE  /\ TookAll(g2, j) <=> TookAll(g, j)
              /\ \A n : Took(g2, j, n) <=> Took(g, j, n)
  BY <1>2, <1>4, <1>10 DEF TookAll, Took
<1>11. /\ TookAll(g2, k)
       /\ \A n : Took(g2, k, n) <=> Holds(g, t, n)
  BY <1>2, <1>4 DEF TookAll, Took, Holds, t
<1>12. \A j \in QueryKey : \A s \in Side : j # k \/ s # side =>
         /\ TookAll(gr2[s], j) <=> TookAll(gr[s], j)
         /\ \A n : Took(gr2[s], j, n) <=> Took(gr[s], j, n)
  BY <1>3, <1>10 DEF g
<1> QED
  BY <1>3, <1>9, <1>11, <1>12 DEF gr2, g, t

LEMMA OneSide ==
  ASSUME NEW ev \in Seq(Event), NEW gr, FiledOnce(gr, ev), NEW r \in Side, NEW s \in Side,
         NEW t \in EventType, NEW n, Holds(gr[r], t, n), Holds(gr[s], t, n)
  PROVE  r = s
<1>1. GroupOK(gr[r], ev)
  BY DEF FiledOnce
<1>2. n \in 1 .. Len(ev)
  BY <1>1, Older
<1> QED
  BY <1>2 DEF FiledOnce, Side

LEMMA Rested ==
  ASSUME NEW s \in Seq(Nat), NEW p \in Nat, p <= Len(s)
  PROVE  LET r == SubSeq(s, p + 1, Len(s))
         IN /\ r \in Seq(Nat) /\ Len(r) = Len(s) - p
            /\ \A i \in 1 .. Len(r) : p + i \in 1 .. Len(s) /\ r[i] = s[p + i]
            /\ \A j \in 1 .. Len(s) : j <= p \/ (j - p \in 1 .. Len(r) /\ r[j - p] = s[j])
<1> DEFINE r == SubSeq(s, p + 1, Len(s))
<1>1. r \in Seq(Nat) /\ Len(r) = Len(s) - p /\ \A i \in 1 .. Len(r) : r[i] = s[p + i]
  OBVIOUS
<1> HIDE DEF r
<1>2. \A i \in 1 .. Len(r) : p + i \in 1 .. Len(s)
  BY <1>1
<1>3. ASSUME NEW j \in 1 .. Len(s), ~ (j <= p) PROVE j - p \in 1 .. Len(r) /\ r[j - p] = s[j]
  <2>1. j - p \in 1 .. Len(r) /\ p + (j - p) = j
    BY <1>1, <1>3
  <2> QED
    BY <2>1, <1>1
<1> QED
  BY <1>1, <1>2, <1>3 DEF r

\* The query of a behaviour goes through what it had not taken before.
LEMMA LedgerTakes ==
  ASSUME NEW ev \in Seq(Event), Len(ev) <= MaxEvents,
         NEW gr \in [Side -> Group], FiledOnce(gr, ev), NEW side \in Side,
         NEW k \in QueryKey, NEW g2, Takes(gr[side], g2, Handles[k], k),
         NEW hd, NEW br, NEW run, Ledger(gr, ev, hd, br, run, <<>>)
  PROVE  LET gr2 == [gr EXCEPT ![side] = g2]
             evs == Untaken(gr[side], Handles[k], k)
         IN /\ evs \in Seq(Nat) /\ Ledger(gr2, ev, hd, br, k, evs)
            /\ Batch(gr2, ev, hd, k, evs)
<1> DEFINE gr2 == [gr EXCEPT ![side] = g2]
           t == Handles[k]
           L == Filed(gr[side], t)
           p == Position(gr[side], t, k)
           evs == SubSeq(L, p + 1, Len(L))
<1>1. Untaken(gr[side], t, k) = evs
  BY DEF Untaken, Filed, Position
<1>2. t \in EventType /\ GroupOK(gr[side], ev) /\ gr[side] \in Group
  BY DispatchAssumption DEF FiledOnce
<1>3. L \in Seq(Nat) /\ p \in Nat /\ p <= Len(L) /\ Len(L) \in Nat
  BY <1>2, GroupParts DEF GroupOK
<1>4. /\ \A i \in 1 .. Len(L) : L[i] \in 1 .. Len(ev) /\ ev[L[i]].type = t
      /\ \A i, j \in 1 .. Len(L) : L[i] = L[j] => i = j
  BY <1>2 DEF GroupOK
<1>5. /\ \A j \in QueryKey : \A s \in Side : j # k \/ s # side =>
           \A n : Took(gr2[s], j, n) <=> Took(gr[s], j, n)
      /\ \A n : Took(g2, k, n) <=> Holds(gr[side], t, n)
      /\ gr2[side] = g2
  BY FiledOnceTakes
<1>6. \A n : /\ Took(gr[side], k, n) <=> \E i \in 1 .. p : L[i] = n
             /\ Holds(gr[side], t, n) <=> \E i \in 1 .. Len(L) : L[i] = n
  BY DEF Took, Holds
<1> HIDE DEF gr2, L, p, t, evs
<1>7. /\ evs \in Seq(Nat) /\ Len(evs) = Len(L) - p
      /\ \A i \in 1 .. Len(evs) : p + i \in 1 .. Len(L) /\ evs[i] = L[p + i]
      /\ \A j \in 1 .. Len(L) : j <= p \/ (j - p \in 1 .. Len(evs) /\ evs[j - p] = L[j])
  BY <1>3, Rested DEF evs
<1>8. Len(evs) \in Nat
  BY <1>7
<1>9. \A i \in 1 .. Len(evs) : /\ evs[i] \in 1 .. Len(ev) /\ ev[evs[i]].type = t
                               /\ Holds(gr[side], t, evs[i]) /\ ~ Took(gr[side], k, evs[i])
  <2>1. ASSUME NEW i \in 1 .. Len(evs), NEW j \in 1 .. p, L[j] = evs[i] PROVE FALSE
    <3>1. j \in 1 .. Len(L) /\ p + i \in 1 .. Len(L) /\ L[j] = L[p + i]
      BY <1>3, <1>7, <2>1
    <3>2. j # p + i
      BY <1>3, <1>8
    <3> QED
      BY <3>1, <3>2, <1>4
  <2>2. ASSUME NEW i \in 1 .. Len(evs)
        PROVE  /\ evs[i] \in 1 .. Len(ev) /\ ev[evs[i]].type = t
               /\ Holds(gr[side], t, evs[i]) /\ ~ Took(gr[side], k, evs[i])
    <3>1. p + i \in 1 .. Len(L) /\ evs[i] = L[p + i]
      BY <1>7
    <3>2. evs[i] \in 1 .. Len(ev) /\ ev[evs[i]].type = t
      BY <3>1, <1>4
    <3>3. Holds(gr[side], t, evs[i])
      BY <3>1, <1>6
    <3> QED
      BY <3>2, <3>3, <2>1, <1>6
  <2> QED
    BY <2>2
<1>10. \A i \in 1 .. Len(evs) : ~ TookAny(gr, k, evs[i])
  <2>1. ASSUME NEW i \in 1 .. Len(evs), NEW s \in Side, Took(gr[s], k, evs[i]) PROVE FALSE
    <3>1. GroupOK(gr[s], ev)
      BY DEF FiledOnce
    <3>2. Holds(gr[s], t, evs[i])
      BY <2>1, <3>1, Older DEF t
    <3>3. Holds(gr[side], t, evs[i]) /\ ~ Took(gr[side], k, evs[i])
      BY <1>9
    <3> QED
      BY <2>1, <3>2, <3>3, <1>2, OneSide
  <2> QED
    BY <2>1 DEF TookAny
<1>11. \A j \in QueryKey : \A n : TookAny(gr, j, n) => TookAny(gr2, j, n)
  <2>1. ASSUME NEW j \in QueryKey, NEW n, NEW s \in Side, Took(gr[s], j, n) PROVE Took(gr2[s], j, n)
    <3>1. CASE j # k \/ s # side
      BY <2>1, <3>1, <1>5
    <3>2. CASE j = k /\ s = side
      <4>1. Holds(gr[side], t, n)
        BY <2>1, <3>2, <1>2, Older DEF t
      <4> QED
        BY <4>1, <3>2, <1>5
    <3> QED
      BY <3>1, <3>2
  <2> QED
    BY <2>1 DEF TookAny
<1>12. \A j \in QueryKey : \A n : TookAny(gr2, j, n) =>
         TookAny(gr, j, n) \/ (j = k /\ Among(evs, n))
  <2>1. ASSUME NEW j \in QueryKey, NEW n, NEW s \in Side, Took(gr2[s], j, n)
        PROVE  Took(gr[s], j, n) \/ (j = k /\ Among(evs, n))
    <3>1. CASE j # k \/ s # side
      BY <2>1, <3>1, <1>5
    <3>2. CASE j = k /\ s = side
      <4>1. PICK i \in 1 .. Len(L) : L[i] = n
        BY <2>1, <3>2, <1>5, <1>6
      <4>2. CASE i <= p
        <5>1. i \in 1 .. p
          BY <1>3, <4>2
        <5> QED
          BY <5>1, <4>1, <3>2, <1>6
      <4>3. CASE ~ (i <= p)
        BY <4>1, <4>3, <3>2, <1>7 DEF Among
      <4> QED
        BY <4>2, <4>3
    <3> QED
      BY <3>1, <3>2
  <2> QED
    BY <2>1 DEF TookAny
<1>13. \A i : ~ (i \in 1 .. Len(<<>>))
  OBVIOUS
<1>14. hd \in [QueryKey -> [1 .. MaxEvents -> {0, 1}]]
  BY DEF Ledger
<1>15. ASSUME NEW j \in QueryKey, NEW n \in 1 .. MaxEvents
       PROVE  /\ hd[j][n] = 1 => n \in ToHandle(ev, j) /\ TookAny(gr, j, n)
              /\ n \in ToHandle(ev, j) /\ TookAny(gr, j, n) => br \/ hd[j][n] = 1
  BY <1>13 DEF Ledger, Among
<1>16. Ledger(gr2, ev, hd, br, k, evs)
  <2>1. ASSUME NEW j \in QueryKey, NEW n \in 1 .. MaxEvents
        PROVE  /\ hd[j][n] = 1 => n \in ToHandle(ev, j) /\ TookAny(gr2, j, n)
               /\ n \in ToHandle(ev, j) /\ TookAny(gr2, j, n) =>
                    br \/ hd[j][n] = 1 \/ (j = k /\ Among(evs, n))
    BY <1>15, <1>11, <1>12
  <2> QED
    BY <2>1, <1>14 DEF Ledger
<1>17. Batch(gr2, ev, hd, k, evs)
  <2>1. ASSUME NEW i \in 1 .. Len(evs) PROVE TookAny(gr2, k, evs[i]) /\ hd[k][evs[i]] = 0
    <3>1. Took(gr2[side], k, evs[i])
      BY <1>5, <1>9
    <3>2. evs[i] \in 1 .. MaxEvents
      BY <1>9, DispatchAssumption
    <3>3. hd[k][evs[i]] \in {0, 1}
      BY <3>2, <1>14
    <3>4. hd[k][evs[i]] # 1
      BY <3>2, <1>10, <1>15
    <3> QED
      BY <3>1, <3>3, <3>4 DEF TookAny
  <2>2. \A i, j \in 1 .. Len(evs) : evs[i] = evs[j] => i = j
    <3>1. ASSUME NEW i \in 1 .. Len(evs), NEW j \in 1 .. Len(evs), evs[i] = evs[j] PROVE i = j
      <4>1. p + i = p + j
        BY <3>1, <1>4, <1>7
      <4> QED
        BY <4>1, <1>3, <1>8
    <3> QED
      BY <3>1
  <2> QED
    BY <2>1, <2>2, <1>9 DEF Batch, t
<1> QED
  BY <1>1, <1>7, <1>16, <1>17 DEF gr2, t

LEMMA HeadAndTail ==
  ASSUME NEW s \in Seq(Nat), s # <<>>
  PROVE  /\ Head(s) = s[1] /\ 1 \in 1 .. Len(s) /\ Tail(s) \in Seq(Nat) /\ Len(s) \in Nat
         /\ Len(Tail(s)) = Len(s) - 1
         /\ \A i \in 1 .. Len(Tail(s)) : i + 1 \in 1 .. Len(s) /\ Tail(s)[i] = s[i + 1] /\ i + 1 # 1
         /\ \A i \in 1 .. Len(s) : i = 1 \/ (i - 1 \in 1 .. Len(Tail(s)) /\ Tail(s)[i - 1] = s[i])
<1>1. /\ Head(s) = s[1] /\ Tail(s) \in Seq(Nat) /\ Len(s) \in Nat /\ Len(s) # 0
      /\ Len(Tail(s)) = Len(s) - 1
  OBVIOUS
<1>2. \A i \in 1 .. Len(s) - 1 : Tail(s)[i] = s[i + 1]
  OBVIOUS
<1>3. \A i \in 1 .. Len(Tail(s)) : i + 1 \in 1 .. Len(s) /\ Tail(s)[i] = s[i + 1] /\ i + 1 # 1
  BY <1>1, <1>2
<1>4. ASSUME NEW i \in 1 .. Len(s), i # 1
      PROVE  i - 1 \in 1 .. Len(Tail(s)) /\ Tail(s)[i - 1] = s[i]
  <2>1. i - 1 \in 1 .. Len(Tail(s)) /\ (i - 1) + 1 = i
    BY <1>1, <1>4
  <2> QED
    BY <2>1, <1>3
<1> QED
  BY <1>1, <1>3, <1>4

\* What is left of a batch after its first event, and of the books.
LEMMA BatchTail ==
  ASSUME NEW ev, NEW gr, NEW hd, NEW run, NEW evs \in Seq(Nat), evs # <<>>,
         Batch(gr, ev, hd, run, evs)
  PROVE  /\ Head(evs) \in 1 .. Len(ev) /\ ev[Head(evs)].type = Handles[run] /\ run \in QueryKey
         /\ TookAny(gr, run, Head(evs)) /\ hd[run][Head(evs)] = 0
         /\ Tail(evs) \in Seq(Nat) /\ Batch(gr, ev, hd, run, Tail(evs))
         /\ ~ Among(Tail(evs), Head(evs))
         /\ \A n : Among(evs, n) <=> n = Head(evs) \/ Among(Tail(evs), n)
<1> DEFINE rest == Tail(evs)
<1>1. /\ Head(evs) = evs[1] /\ 1 \in 1 .. Len(evs) /\ rest \in Seq(Nat) /\ Len(rest) = Len(evs) - 1
      /\ \A i \in 1 .. Len(rest) : i + 1 \in 1 .. Len(evs) /\ rest[i] = evs[i + 1] /\ i + 1 # 1
      /\ \A i \in 1 .. Len(evs) : i = 1 \/ (i - 1 \in 1 .. Len(rest) /\ rest[i - 1] = evs[i])
  BY HeadAndTail
<1>2. /\ run \in QueryKey
      /\ \A i \in 1 .. Len(evs) : /\ evs[i] \in 1 .. Len(ev)
                                  /\ ev[evs[i]].type = Handles[run]
                                  /\ TookAny(gr, run, evs[i]) /\ hd[run][evs[i]] = 0
      /\ \A i, j \in 1 .. Len(evs) : evs[i] = evs[j] => i = j
  BY DEF Batch
<1> HIDE DEF rest
<1>3. ~ Among(rest, Head(evs))
  BY <1>1, <1>2 DEF Among
<1>4. \A i, j \in 1 .. Len(rest) : rest[i] = rest[j] => i = j
  <2>1. ASSUME NEW i \in 1 .. Len(rest), NEW j \in 1 .. Len(rest), rest[i] = rest[j] PROVE i = j
    <3>1. i + 1 = j + 1
      BY <2>1, <1>1, <1>2
    <3>2. i \in Int /\ j \in Int
      OBVIOUS
    <3> QED
      BY <3>1, <3>2
  <2> QED
    BY <2>1
<1>5. Batch(gr, ev, hd, run, rest)
  <2>1. \A i \in 1 .. Len(rest) : /\ rest[i] \in 1 .. Len(ev)
                                  /\ ev[rest[i]].type = Handles[run]
                                  /\ TookAny(gr, run, rest[i]) /\ hd[run][rest[i]] = 0
    <3>1. ASSUME NEW i \in 1 .. Len(rest)
          PROVE  /\ rest[i] \in 1 .. Len(ev) /\ ev[rest[i]].type = Handles[run]
                 /\ TookAny(gr, run, rest[i]) /\ hd[run][rest[i]] = 0
      <4>1. i + 1 \in 1 .. Len(evs) /\ rest[i] = evs[i + 1]
        BY <1>1
      <4> QED
        BY <4>1, <1>2
    <3> QED
      BY <3>1
  <2> QED
    BY <2>1, <1>2, <1>4 DEF Batch
<1>6. \A n : Among(evs, n) <=> n = Head(evs) \/ Among(rest, n)
  BY <1>1 DEF Among
<1> QED
  BY <1>1, <1>2, <1>3, <1>5, <1>6 DEF rest

LEMMA LedgerSkips ==
  ASSUME NEW ev, NEW gr, NEW hd, NEW br, NEW run, NEW evs \in Seq(Nat), evs # <<>>,
         Batch(gr, ev, hd, run, evs), Ledger(gr, ev, hd, br, run, evs),
         ev[Head(evs)].target[1] \notin Wants[run]
  PROVE  Ledger(gr, ev, hd, br, run, Tail(evs))
<1>1. \A n : Among(evs, n) <=> n = Head(evs) \/ Among(Tail(evs), n)
  BY BatchTail
<1>2. Head(evs) \notin ToHandle(ev, run)
  BY DEF ToHandle
<1>3. ASSUME NEW k \in QueryKey, NEW n \in 1 .. MaxEvents
      PROVE  /\ hd[k][n] = 1 => n \in ToHandle(ev, k) /\ TookAny(gr, k, n)
             /\ n \in ToHandle(ev, k) /\ TookAny(gr, k, n) =>
                  br \/ hd[k][n] = 1 \/ (k = run /\ Among(Tail(evs), n))
  <2>1. /\ hd[k][n] = 1 => n \in ToHandle(ev, k) /\ TookAny(gr, k, n)
        /\ n \in ToHandle(ev, k) /\ TookAny(gr, k, n) =>
             br \/ hd[k][n] = 1 \/ (k = run /\ Among(evs, n))
    BY DEF Ledger
  <2> QED
    BY <2>1, <1>1, <1>2
<1>4. hd \in [QueryKey -> [1 .. MaxEvents -> {0, 1}]]
  BY DEF Ledger
<1> QED
  BY <1>3, <1>4 DEF Ledger

\* The body is called for the first event.
LEMMA LedgerHandles ==
  ASSUME NEW ev, Len(ev) \in Nat, Len(ev) <= MaxEvents,
         NEW gr, NEW hd, NEW br, NEW run, NEW evs \in Seq(Nat), evs # <<>>,
         Batch(gr, ev, hd, run, evs), Ledger(gr, ev, hd, br, run, evs),
         ev[Head(evs)].target[1] \in Wants[run]
  PROVE  LET hd2 == [hd EXCEPT ![run][Head(evs)] = @ + 1]
         IN /\ Ledger(gr, ev, hd2, br, run, Tail(evs)) /\ Batch(gr, ev, hd2, run, Tail(evs))
            /\ Ledger(gr, ev, hd2, TRUE, run, evs)
<1> DEFINE m == Head(evs)
           hd2 == [hd EXCEPT ![run][m] = @ + 1]
<1> HIDE DEF hd2
<1>1. /\ m \in 1 .. Len(ev) /\ ev[m].type = Handles[run] /\ run \in QueryKey
      /\ TookAny(gr, run, m) /\ hd[run][m] = 0
      /\ Tail(evs) \in Seq(Nat) /\ Batch(gr, ev, hd, run, Tail(evs))
  BY BatchTail
<1>10. ~ Among(Tail(evs), m)
  BY BatchTail
<1>11. \A n : Among(evs, n) <=> n = m \/ Among(Tail(evs), n)
  BY BatchTail
<1>2. m \in ToHandle(ev, run) /\ m \in 1 .. MaxEvents
  BY <1>1, DispatchAssumption DEF ToHandle
<1>3. hd \in [QueryKey -> [1 .. MaxEvents -> {0, 1}]]
  BY DEF Ledger
<1> HIDE DEF m
<1>4. hd2 \in [QueryKey -> [1 .. MaxEvents -> {0, 1}]] /\ hd2[run][m] = 1
  <2> DEFINE row == [hd[run] EXCEPT ![m] = 1]
  <2>1. hd[run] \in [1 .. MaxEvents -> {0, 1}]
    BY <1>1, <1>3
  <2>2. row \in [1 .. MaxEvents -> {0, 1}] /\ row[m] = 1
    BY <2>1, <1>2
  <2>3. hd2 = [hd EXCEPT ![run] = row]
    BY <1>1 DEF hd2
  <2> HIDE DEF row
  <2> QED
    BY <2>2, <2>3, <1>1, <1>3
<1>5. ASSUME NEW k \in QueryKey, NEW n, k # run \/ n # m PROVE hd2[k][n] = hd[k][n]
  BY <1>1, <1>3, <1>5 DEF hd2
<1>6. ASSUME NEW k \in QueryKey, NEW n \in 1 .. MaxEvents
      PROVE  /\ hd2[k][n] = 1 => n \in ToHandle(ev, k) /\ TookAny(gr, k, n)
             /\ n \in ToHandle(ev, k) /\ TookAny(gr, k, n) =>
                  br \/ hd2[k][n] = 1 \/ (k = run /\ Among(Tail(evs), n))
  <2>1. /\ hd[k][n] = 1 => n \in ToHandle(ev, k) /\ TookAny(gr, k, n)
        /\ n \in ToHandle(ev, k) /\ TookAny(gr, k, n) =>
             br \/ hd[k][n] = 1 \/ (k = run /\ Among(evs, n))
    BY DEF Ledger
  <2>2. CASE k = run /\ n = m
    BY <2>2, <1>1, <1>2, <1>4
  <2>3. CASE k # run \/ n # m
    BY <2>1, <2>3, <1>11, <1>5
  <2> QED
    BY <2>2, <2>3
<1>7. Ledger(gr, ev, hd2, br, run, Tail(evs))
  BY <1>4, <1>6 DEF Ledger
<1>8. Batch(gr, ev, hd2, run, Tail(evs))
  <2>1. \A i \in 1 .. Len(Tail(evs)) : hd2[run][Tail(evs)[i]] = hd[run][Tail(evs)[i]]
    BY <1>1, <1>10, <1>5 DEF Among
  <2> QED
    BY <2>1, <1>1 DEF Batch
<1>9. Ledger(gr, ev, hd2, TRUE, run, evs)
  BY <1>4, <1>6 DEF Ledger
<1> QED
  BY <1>7, <1>8, <1>9 DEF hd2, m

\* Nothing is underway, or it does not matter any more.
LEMMA LedgerClosed ==
  ASSUME NEW gr, NEW ev, NEW hd, NEW br \in BOOLEAN, NEW run, NEW evs,
         Ledger(gr, ev, hd, br, run, evs), evs = <<>> \/ br
  PROVE  \A run2 : Ledger(gr, ev, hd, br, run2, <<>>)
<1>1. \A n : evs = <<>> => ~ Among(evs, n)
  BY DEF Among
<1> QED
  BY <1>1 DEF Ledger

\* Books with nothing in them.
LEMMA NothingFiled ==
  ASSUME NEW gr \in [Side -> Group],
         \A side \in Side : \A t \in EventType :
           Filed(gr[side], t) = <<>> /\ \A k \in QueryKey : Position(gr[side], t, k) = 0
  PROVE  FiledOnce(gr, <<>>)
<1>1. Len(<<>>) = 0 /\ \A i : ~ (i \in 1 .. 0)
  OBVIOUS
<1>2. ASSUME NEW side \in Side PROVE GroupOK(gr[side], <<>>)
  BY <1>1 DEF GroupOK
<1> QED
  BY <1>1, <1>2 DEF FiledOnce

LEMMA NothingHandled ==
  ASSUME NEW gr, NEW br, NEW run, NEW evs
  PROVE  Ledger(gr, <<>>, [k \in QueryKey |-> [n \in 1 .. MaxEvents |-> 0]], br, run, evs)
<1> DEFINE hd == [k \in QueryKey |-> [n \in 1 .. MaxEvents |-> 0]]
<1>1. \A n, k : n \notin ToHandle(<<>>, k)
  BY DEF ToHandle
<1>2. hd \in [QueryKey -> [1 .. MaxEvents -> {0, 1}]]
  OBVIOUS
<1>3. \A k \in QueryKey : \A n \in 1 .. MaxEvents : hd[k][n] # 1
  OBVIOUS
<1> HIDE DEF hd
<1>4. Ledger(gr, <<>>, hd, br, run, evs)
  BY <1>1, <1>2, <1>3 DEF Ledger
<1> QED
  BY <1>4 DEF hd

LEMMA NoticedGrows ==
  ASSUME NEW gr \in [Side -> Group], NEW reader \in Side, NEW seen \in [Side -> Nat], NEW keys,
         Noticed(gr, reader, seen, keys), NEW g2, g2.version = gr[Other(reader)].version + 1
  PROVE  Noticed([gr EXCEPT ![Other(reader)] = g2], reader, seen, keys)
<1> DEFINE other == Other(reader)
           gr2 == [gr EXCEPT ![other] = g2]
<1>1. other \in Side /\ other # reader
  BY Sides
<1>2. gr2[other] = g2 /\ gr2[reader] = gr[reader]
  BY <1>1
<1>3. gr[other].version \in Nat /\ seen[other] \in Nat
  BY <1>1 DEF Group
<1>4. gr[other].version >= seen[other] /\ gr[reader].version = seen[reader]
  BY DEF Noticed
<1> HIDE DEF gr2
<1>5. gr2[other].version >= seen[other] /\ gr2[other].version # seen[other]
  BY <1>2, <1>3, <1>4
<1> QED
  BY <1>2, <1>4, <1>5 DEF Noticed, gr2

LEMMA NoticedTakes ==
  ASSUME NEW gr \in [Side -> Group], NEW reader \in Side, NEW seen \in [Side -> Nat], NEW keys,
         Noticed(gr, reader, seen, keys), NEW g2, g2.version = gr[reader].version
  PROVE  Noticed([gr EXCEPT ![reader] = g2], reader, seen, keys)
<1> DEFINE other == Other(reader)
           gr2 == [gr EXCEPT ![reader] = g2]
<1>1. other \in Side /\ other # reader
  BY Sides
<1>2. gr2[other] = gr[other] /\ gr2[reader] = g2
  BY <1>1
<1> HIDE DEF gr2
<1>3. gr2[reader].version = gr[reader].version
  BY <1>2
<1> QED
  BY <1>2, <1>3 DEF Noticed, gr2

LEMMA Draining ==
  ASSUME NEW stage \in {"none", "drive", "first", "second", "loop", "done", "broken", "panic"},
         NEW reader \in Side, NEW seen \in [Side -> Nat], NEW left \in Seq(QueryKey)
  PROVE  LET d == Drain(stage, reader, seen, left)
         IN /\ d \in DrainType /\ d.stage = stage /\ d.reader = reader /\ d.seen = seen
            /\ d.left = left /\ d.running = 0 /\ d.events = <<>>
BY DEF Drain, DrainType

LEMMA NoDraining ==
  /\ NoDrain \in DrainType /\ NoDrain.stage = "none" /\ NoDrain.events = <<>>
  /\ LET begun == [NoDrain EXCEPT !.stage = "drive"]
     IN begun \in DrainType /\ begun.stage = "drive" /\ begun.events = <<>>
<1> DEFINE seen == [side \in Side |-> 0]
           begun == [NoDrain EXCEPT !.stage = "drive"]
<1>1. "primary" \in Side /\ seen \in [Side -> Nat] /\ <<>> \in Seq(QueryKey)
  BY DEF Side
<1>2. /\ NoDrain = Drain("none", "primary", seen, <<>>)
      /\ begun = Drain("drive", "primary", seen, <<>>)
  BY DEF NoDrain, Drain
<1> HIDE DEF seen, begun
<1>3. \A stage \in {"none", "drive"} :
        LET d == Drain(stage, "primary", seen, <<>>)
        IN d \in DrainType /\ d.stage = stage /\ d.events = <<>>
  BY <1>1 DEF Drain, DrainType
<1>4. NoDrain \in DrainType /\ NoDrain.stage = "none" /\ NoDrain.events = <<>>
  BY <1>2, <1>3
<1>5. begun \in DrainType /\ begun.stage = "drive" /\ begun.events = <<>>
  BY <1>2, <1>3
<1> QED
  BY <1>4, <1>5 DEF begun

\* One event is fired into a side.
LEMMA Fired ==
  ASSUME fired \in Seq(Event), group \in [Side -> Group], FiledOnce(group, fired),
         NEW side \in Side, NEW entity \in Place, Fire(side, entity) \/ FireOwned(side, entity)
  PROVE  /\ fired' \in Seq(Event) /\ Len(fired') = Len(fired) + 1 /\ Len(fired') <= MaxEvents
         /\ \E e \in Event : fired' = Append(fired, e)
         /\ \E g2 : /\ group' = [group EXCEPT ![side] = g2]
                    /\ g2.version = group[side].version + 1
         /\ group' \in [Side -> Group] /\ FiledOnce(group', fired')
         /\ \A k \in QueryKey, n \in Nat : TookAny(group', k, n) <=> TookAny(group, k, n)
<1>1. PICK t \in EventType : \E g2 :
        /\ g2 \in {fire(group[side], t, Len(fired) + 1), fire_owned(group[side], t, Len(fired) + 1, entity)}
        /\ Firing(side, t, entity, g2)
  BY DEF Fire, FireOwned
<1>2. PICK g2 :
        /\ g2 \in {fire(group[side], t, Len(fired) + 1), fire_owned(group[side], t, Len(fired) + 1, entity)}
        /\ Firing(side, t, entity, g2)
  BY <1>1
<1> DEFINE e == [type |-> t, target |-> entity]
<1>3. /\ Len(fired) < MaxEvents /\ fired' = Append(fired, e)
      /\ group' = [group EXCEPT ![side] = g2]
  BY <1>2 DEF Firing
<1>4. e \in Event /\ e.type = t /\ group[side] \in Group /\ Len(fired) + 1 \in Nat
  BY DEF Event
<1> HIDE DEF e
<1>5. Grows(group[side], g2, t, Len(fired) + 1)
  BY <1>2, <1>4, FireGrows, FireOwnedGrows
<1>6. /\ fired' \in Seq(Event) /\ Len(fired') = Len(fired) + 1 /\ Len(fired') <= MaxEvents
  BY <1>3, <1>4, DispatchAssumption
<1>7. /\ group' \in [Side -> Group] /\ FiledOnce(group', fired')
      /\ \A k \in QueryKey, n \in Nat : TookAny(group', k, n) <=> TookAny(group, k, n)
  BY <1>3, <1>4, <1>5, FiledOnceGrows
<1>8. g2.version = group[side].version + 1
  BY <1>5 DEF Grows
<1> QED
  BY <1>3, <1>4, <1>6, <1>7, <1>8

\* So the books are right after it, too.
LEMMA EventsFired ==
  ASSUME Events, NEW side \in Side, NEW entity \in Place,
         Fire(side, entity) \/ FireOwned(side, entity),
         NEW hd, NEW run, NEW evs, Ledger(group, fired, hd, broken, run, evs)
  PROVE  /\ fired' \in Seq(Event) /\ Len(fired') <= MaxEvents
         /\ group' \in [Side -> Group] /\ FiledOnce(group', fired')
         /\ Ledger(group', fired', hd, broken, run, evs)
         /\ Batch(group, fired, hd, run, evs) => Batch(group', fired', hd, run, evs)
<1>1. fired \in Seq(Event) /\ group \in [Side -> Group] /\ FiledOnce(group, fired)
  BY DEF Events
<1>2. /\ fired' \in Seq(Event) /\ Len(fired') <= MaxEvents
      /\ group' \in [Side -> Group] /\ FiledOnce(group', fired')
      /\ \A k \in QueryKey, n \in Nat : TookAny(group', k, n) <=> TookAny(group, k, n)
      /\ \E e \in Event : fired' = Append(fired, e)
  BY <1>1, Fired
<1>3. PICK e \in Event : fired' = Append(fired, e)
  BY <1>2
<1>4. /\ Ledger(group, fired, hd, broken, run, evs) =>
           Ledger(group', Append(fired, e), hd, broken, run, evs)
      /\ Batch(group, fired, hd, run, evs) => Batch(group', Append(fired, e), hd, run, evs)
  BY <1>1, <1>2, LedgerGrows
<1> QED
  BY <1>2, <1>3, <1>4

-----------------------------------------------------------------------------
(* The steps of a frame.                                                   *)

LEMMA EventsKept ==
  ASSUME Events, UNCHANGED <<group, fired, handled, broken>>,
         Ledger(group, fired, handled, broken, drain.running, drain.events)'
  PROVE  Events'
BY DEF Events

LEMMA OrderedKept ==
  ASSUME Ordered, UNCHANGED behaviorVars
  PROVE  Ordered'
BY DEF Ordered, behaviorVars

\* Behaviours which are pushed, and those merged in, are as many as may be.
LEMMA MoreBehaviors ==
  ASSUME Ordered, NEW depends \in SUBSET Dependency, NEW resolves \in SUBSET Dependency,
         Len(behaviors) < MaxBehaviors,
         behaviors' = Append(behaviors, OrderedBehavior(depends, resolves))
  PROVE  behaviors' \in Seq(Behavior) /\ Len(behaviors') <= MaxBehaviors
<1>1. Cardinality(depends) \in Nat
  BY BehaviorAssumption, FS_Subset, FS_CardinalityType
<1>2. OrderedBehavior(depends, resolves) \in Behavior
  BY <1>1 DEF OrderedBehavior, Behavior
<1>3. behaviors \in Seq(Behavior)
  BY DEF Ordered
<1> QED
  BY <1>2, <1>3, DispatchAssumption

LEMMA RegisterOrdered ==
  ASSUME Ordered, Register
  PROVE  Ordered'
<1>1. sort' = sort /\ sort.state = "none"
  BY DEF Register, Push, Extend, NoSort
<1>2. CASE \E kind \in Kinds : Push(kind[1], kind[2])
  <2>1. PICK kind \in Kinds : Push(kind[1], kind[2])
    BY <1>2
  <2>2. kind[1] \in SUBSET Dependency /\ kind[2] \in SUBSET Dependency
    BY DispatchAssumption
  <2>3. /\ Len(behaviors) < MaxBehaviors
        /\ behaviors' = Append(behaviors, OrderedBehavior(kind[1], kind[2]))
        /\ behaviors_topos' = NoOrder
    BY <2>1 DEF Push, Invalidated
  <2>4. behaviors' \in Seq(Behavior) /\ Len(behaviors') <= MaxBehaviors
    BY <2>2, <2>3, MoreBehaviors
  <2> QED
    BY <1>1, <2>3, <2>4 DEF Ordered
<1>3. CASE \E kind \in Merged : Extend(kind[1], kind[2])
  <2>1. PICK kind \in Merged : Extend(kind[1], kind[2])
    BY <1>3
  <2>2. kind[1] \in SUBSET Dependency /\ kind[2] \in SUBSET Dependency
    BY DispatchAssumption
  <2>3. /\ Len(behaviors) < MaxBehaviors
        /\ behaviors' = Append(behaviors, OrderedBehavior(kind[1], kind[2]))
        /\ behaviors_topos' = behaviors_topos
    BY <2>1 DEF Extend
  <2>4. behaviors' \in Seq(Behavior) /\ Len(behaviors') <= MaxBehaviors
    BY <2>2, <2>3, MoreBehaviors
  <2> QED
    BY <1>1, <2>3, <2>4 DEF Ordered
<1> QED
  BY <1>2, <1>3 DEF Register

LEMMA SortOrdered ==
  ASSUME Ordered, Sort
  PROVE  Ordered'
<1>1. /\ behaviors \in Seq(Behavior) /\ Len(behaviors) <= MaxBehaviors
      /\ behaviors_topos # NoOrder => behaviors_topos \in Seq(QueryKey)
      /\ sort.state = "running" =>
           /\ sort = Running(sort.behavior_counts, sort.resolvers, sort.ready, sort.toposorted)
           /\ sort.toposorted \in Seq(QueryKey)
  BY DEF Ordered
<1>2. CASE SortBegin
  <2>1. UNCHANGED <<behaviors, behaviors_topos>>
        /\ \E counts, left, ready : sort' = Running(counts, left, ready, <<>>)
    BY <1>2 DEF SortBegin, Running
  <2>2. PICK counts, left, ready : sort' = Running(counts, left, ready, <<>>)
    BY <2>1
  <2> QED
    BY <1>1, <2>1, <2>2 DEF Ordered, Running
<1>3. CASE SortEnd
  <2>1. sort.state = "running" /\ behaviors' = behaviors
    BY <1>3 DEF SortEnd
  <2>2. sort'.state # "running"
    BY <1>3 DEF SortEnd, NoSort
  <2>3. behaviors_topos' \in {behaviors_topos, sort.toposorted}
    BY <1>3 DEF SortEnd
  <2> QED
    BY <1>1, <2>1, <2>2, <2>3 DEF Ordered
<1>4. ASSUME NEW b \in 1 .. MaxBehaviors, Propagate(b)
      PROVE  Ordered'
  <2>1. sort.state = "running" /\ UNCHANGED <<behaviors, behaviors_topos>>
    BY <1>4 DEF Propagate
  <2>2. \/ sort' = [state |-> "panic"]
        \/ \E counts, left, ready :
             sort' = [sort EXCEPT !.behavior_counts = counts, !.resolvers = left, !.ready = ready,
                                  !.toposorted = Append(sort.toposorted, b)]
    BY <1>4 DEF Propagate
  <2>3. CASE sort' = [state |-> "panic"]
    BY <1>1, <2>1, <2>3 DEF Ordered
  <2>4. CASE sort' # [state |-> "panic"]
    <3>1. PICK counts, left, ready :
             sort' = [sort EXCEPT !.behavior_counts = counts, !.resolvers = left, !.ready = ready,
                                  !.toposorted = Append(sort.toposorted, b)]
      BY <2>2, <2>4
    <3>2. sort' = Running(counts, left, ready, Append(sort.toposorted, b))
      BY <1>1, <2>1, <3>1 DEF Running
    <3>3. b \in QueryKey /\ sort.toposorted \in Seq(QueryKey)
      BY <1>1, <2>1, DispatchAssumption
    <3> QED
      BY <1>1, <2>1, <3>2, <3>3 DEF Ordered, Running
  <2> QED
    BY <2>3, <2>4
<1> QED
  BY <1>2, <1>3, <1>4 DEF Sort, SortStep

\* While the list is driven, or nothing is, what happens to the list or to the query
\* concerns no event.
LEMMA ListEvents ==
  ASSUME EventInv, Register \/ Sort
  PROVE  EventInv'
<1>1. drain.stage = "drive" /\ UNCHANGED <<group, fired, handled, broken, drain>>
  BY DEF Register, Sort, eventVars
<1>2. Ordered'
  BY RegisterOrdered, SortOrdered DEF EventInv
<1>3. Events'
  BY <1>1, EventsKept DEF EventInv, Events
<1>4. Rounds'
  BY <1>1 DEF EventInv, Rounds, InDrain
<1> QED
  BY <1>2, <1>3, <1>4 DEF EventInv

LEMMA QueryEvents ==
  ASSUME EventInv, QueryStep
  PROVE  EventInv'
<1>1. drain.stage = "none" /\ UNCHANGED <<drain, behaviorVars, broken>>
  BY NoDraining DEF QueryStep
<1>2. Ordered'
  BY <1>1, OrderedKept DEF EventInv
<1>3. Rounds'
  BY <1>1 DEF EventInv, Rounds, InDrain
<1>4. Events
  BY DEF EventInv
<1>5. ASSUME UNCHANGED <<group, fired>>, handled' = handled
      PROVE  Events'
  BY <1>1, <1>4, <1>5, EventsKept DEF Events
<1>6. ASSUME NEW p \in Place, Fire("primary", p) \/ FireOwned("primary", p), handled' = handled
      PROVE  Events'
  <2>1. "primary" \in Side
    BY DEF Side
  <2>2. Ledger(group, fired, handled, broken, drain.running, drain.events)
    BY <1>4 DEF Events
  <2>3. /\ fired' \in Seq(Event) /\ Len(fired') <= MaxEvents
        /\ group' \in [Side -> Group] /\ FiledOnce(group', fired')
        /\ Ledger(group', fired', handled, broken, drain.running, drain.events)
    BY <2>1, <2>2, <1>4, <1>6, EventsFired
  <2> QED
    BY <2>3, <1>1, <1>4, <1>6 DEF Events
<1>7. \/ UNCHANGED <<group, fired>> /\ handled' = handled
      \/ \E p \in Place : (Fire("primary", p) \/ FireOwned("primary", p)) /\ handled' = handled
  BY DEF QueryStep, VisitEntity, eventVars
<1>8. Events'
  BY <1>5, <1>6, <1>7
<1> QED
  BY <1>2, <1>3, <1>8 DEF EventInv

\* A drain begins, or its first call.
LEMMA BeginEvents ==
  ASSUME EventInv, BeginDrain \/ FirstCall
  PROVE  EventInv'
<1>1. UNCHANGED <<group, fired, handled, broken, behaviorVars>>
  BY DEF BeginDrain, FirstCall, eventVars
<1>2. Ordered'
  BY <1>1, OrderedKept DEF EventInv
<1>3. Events /\ Rounds /\ Ordered /\ broken \in BOOLEAN
  BY DEF EventInv, Events
<1>4. drain.stage \in {"none", "drive"} /\ drain.events = <<>>
  BY <1>3, NoDraining DEF BeginDrain, FirstCall, Rounds
<1>5. \A run : Ledger(group, fired, handled, broken, run, <<>>)
  BY <1>3, <1>4, LedgerClosed DEF Events
<1>6. CASE BeginDrain
  <2>1. drain' \in DrainType /\ drain'.stage = "drive" /\ drain'.events = <<>>
    BY <1>6, NoDraining DEF BeginDrain
  <2>2. Rounds'
    BY <2>1 DEF Rounds, InDrain
  <2>3. Events'
    BY <2>1, <1>1, <1>3, <1>5, EventsKept
  <2> QED
    BY <1>2, <2>2, <2>3 DEF EventInv
<1>7. CASE FirstCall
  <2>1. drain' = Drain("first", "primary", drain.seen, behaviors_topos) /\ behaviors_topos # NoOrder
    BY <1>7 DEF FirstCall
  <2>2. "primary" \in Side /\ drain.seen \in [Side -> Nat] /\ behaviors_topos \in Seq(QueryKey)
    BY <2>1, <1>3 DEF Side, Rounds, DrainType, Ordered
  <2>3. /\ drain' \in DrainType /\ drain'.stage = "first" /\ drain'.left = behaviors_topos
        /\ drain'.events = <<>>
    BY <2>1, <2>2, Draining
  <2>4. behaviors_topos' = behaviors_topos
    BY <1>1 DEF behaviorVars
  <2>5. Rounds'
    BY <2>1, <2>3, <2>4 DEF Rounds, InDrain, Keys
  <2>6. Events'
    BY <2>3, <1>1, <1>3, <1>5, EventsKept
  <2> QED
    BY <1>2, <2>5, <2>6 DEF EventInv
<1> QED
  BY <1>6, <1>7

LEMMA FrameEvents ==
  ASSUME EventInv, KeepEvents
  PROVE  EventInv'
<1>1. /\ UNCHANGED <<group, fired, handled, broken, behaviorVars>>
      /\ drain' = NoDrain /\ drain.stage \in {"done", "broken"}
  BY DEF KeepEvents, NextFrame, eventVars
<1>2. Ordered'
  BY <1>1, OrderedKept DEF EventInv
<1>3. Events /\ Rounds /\ broken \in BOOLEAN
  BY DEF EventInv, Events
<1>4. drain.events = <<>> \/ broken
  BY <1>1, <1>3 DEF Rounds
<1>5. \A run : Ledger(group, fired, handled, broken, run, <<>>)
  BY <1>3, <1>4, LedgerClosed DEF Events
<1>6. drain' \in DrainType /\ drain'.stage = "none" /\ drain'.events = <<>>
  BY <1>1, NoDraining
<1>7. Rounds'
  BY <1>6 DEF Rounds, InDrain
<1>8. Events'
  BY <1>1, <1>3, <1>5, <1>6, EventsKept
<1> QED
  BY <1>2, <1>7, <1>8 DEF EventInv

\* The lists are cleared, and all books with them.
LEMMA ClearEventsOK ==
  ASSUME EventInv, ClearEvents
  PROVE  EventInv'
<1> DEFINE empty == [t \in EventType |-> EmptyList]
<1>1. /\ group' = [side \in Side |-> [group[side] EXCEPT !.events = empty]]
      /\ fired' = <<>> /\ handled' = [k \in QueryKey |-> [n \in 1 .. MaxEvents |-> 0]]
      /\ broken' = FALSE /\ drain' = NoDrain /\ UNCHANGED behaviorVars
  BY DEF ClearEvents, NextFrame, clear
<1>2. Ordered'
  BY <1>1, OrderedKept DEF EventInv
<1>3. drain' \in DrainType /\ drain'.stage = "none" /\ drain'.events = <<>>
  BY <1>1, NoDraining
<1>4. Rounds'
  BY <1>3 DEF Rounds, InDrain
<1>5. group \in [Side -> Group]
  BY DEF EventInv, Events
<1>6. empty \in [EventType -> EventList]
  BY DEF EmptyList, EventList
<1> HIDE DEF empty
<1>7. group' \in [Side -> Group] /\ \A side \in Side : group'[side].events = empty
  BY <1>1, <1>5, <1>6 DEF Group
<1>8. FiledOnce(group', fired')
  <2>1. \A side \in Side : \A t \in EventType :
          Filed(group'[side], t) = <<>> /\ \A k \in QueryKey : Position(group'[side], t, k) = 0
    BY <1>7 DEF Filed, Position, EmptyList, empty
  <2> QED
    BY <2>1, <1>1, <1>7, NothingFiled
<1>9. Ledger(group', fired', handled', broken', drain'.running, drain'.events)
  BY <1>1, NothingHandled
<1>10. fired' \in Seq(Event) /\ Len(fired') <= MaxEvents
  BY <1>1, DispatchAssumption
<1>11. Events'
  BY <1>1, <1>7, <1>8, <1>9, <1>10 DEF Events
<1> QED
  BY <1>2, <1>4, <1>11 DEF EventInv

LEMMA InitEvents ==
  ASSUME Init
  PROVE  EventInv
<1> DEFINE empty == [t \in EventType |-> EmptyList]
<1>1. /\ group = [side \in Side |-> EmptyGroup] /\ drain = NoDrain
      /\ fired = <<>> /\ handled = [k \in QueryKey |-> [n \in 1 .. MaxEvents |-> 0]]
      /\ broken = FALSE
      /\ behaviors = <<>> /\ sort = NoSort /\ behaviors_topos = NoOrder
  BY DEF Init, BehaviorsInit
<1>2. Ordered
  BY <1>1, DispatchAssumption DEF Ordered, NoSort
<1>3. drain \in DrainType /\ drain.stage = "none" /\ drain.events = <<>>
  BY <1>1, NoDraining
<1>4. Rounds
  BY <1>3 DEF Rounds, InDrain
<1>5. empty \in [EventType -> EventList]
  BY DEF EmptyList, EventList
<1>6. EmptyGroup = [version |-> 0, events |-> empty]
  BY DEF EmptyGroup
<1> HIDE DEF empty
<1>7. group \in [Side -> Group] /\ \A side \in Side : group[side].events = empty
  BY <1>1, <1>5, <1>6 DEF Group
<1>8. FiledOnce(group, fired)
  <2>1. \A side \in Side : \A t \in EventType :
          Filed(group[side], t) = <<>> /\ \A k \in QueryKey : Position(group[side], t, k) = 0
    BY <1>7 DEF Filed, Position, EmptyList, empty
  <2> QED
    BY <2>1, <1>1, <1>7, NothingFiled
<1>9. Ledger(group, fired, handled, broken, drain.running, drain.events)
  BY <1>1, NothingHandled
<1>10. fired \in Seq(Event) /\ Len(fired) <= MaxEvents
  BY <1>1, DispatchAssumption
<1>11. Events
  BY <1>1, <1>7, <1>8, <1>9, <1>10 DEF Events
<1> QED
  BY <1>2, <1>4, <1>11 DEF EventInv

\* What is known in the middle of a drain.
LEMMA InTheDrain ==
  ASSUME EventInv, InDrain
  PROVE  /\ drain \in DrainType /\ drain.reader \in Side /\ drain.seen \in [Side -> Nat]
         /\ drain.left \in Seq(QueryKey) /\ drain.events \in Seq(Nat)
         /\ behaviors_topos \in Seq(QueryKey) /\ behaviors_topos # NoOrder
         /\ Keys \subseteq QueryKey
         /\ \A k \in Keys : \/ \E i \in 1 .. Len(drain.left) : drain.left[i] = k
                            \/ TookAll(group[drain.reader], k)
         /\ drain.stage # "first" => Noticed(group, drain.reader, drain.seen, Keys)
         /\ drain.events # <<>> => Batch(group, fired, handled, drain.running, drain.events)
         /\ group \in [Side -> Group] /\ FiledOnce(group, fired) /\ broken \in BOOLEAN
         /\ fired \in Seq(Event) /\ Len(fired) <= MaxEvents
         /\ Ledger(group, fired, handled, broken, drain.running, drain.events)
<1>1. Rounds /\ Events /\ Ordered
  BY DEF EventInv
<1>2. drain \in DrainType /\ drain.reader \in Side /\ drain.seen \in [Side -> Nat]
      /\ drain.left \in Seq(QueryKey) /\ drain.events \in Seq(Nat)
  BY <1>1 DEF Rounds, DrainType
<1>3. behaviors_topos \in Seq(QueryKey) /\ behaviors_topos # NoOrder
  BY <1>1 DEF Rounds, Ordered
<1>4. Keys \subseteq QueryKey
  BY <1>3 DEF Keys
<1>5. /\ \A k \in Keys : \/ \E i \in 1 .. Len(drain.left) : drain.left[i] = k
                         \/ TookAll(group[drain.reader], k)
      /\ drain.stage # "first" => Noticed(group, drain.reader, drain.seen, Keys)
      /\ drain.events # <<>> => Batch(group, fired, handled, drain.running, drain.events)
  BY <1>1 DEF Rounds
<1> QED
  BY <1>1, <1>2, <1>3, <1>4, <1>5 DEF Events

\* The next behaviour is run: it has taken all there is now.
LEMMA RunEvents ==
  ASSUME EventInv, RunBehavior
  PROVE  EventInv'
<1> DEFINE R == drain.reader
           k == Head(drain.left)
           g2 == Taken(group[R], Handles[k], k)
           evs == Untaken(group[R], Handles[k], k)
<1>1. InDrain /\ drain.events = <<>> /\ drain.left # <<>>
      /\ drain' = [drain EXCEPT !.left = Tail(@), !.running = k, !.events = evs]
      /\ group' = [group EXCEPT ![R] = g2]
      /\ UNCHANGED <<behaviorVars, fired, handled, broken>>
  BY DEF RunBehavior
<1>2. /\ drain \in DrainType /\ R \in Side /\ drain.seen \in [Side -> Nat]
      /\ drain.left \in Seq(QueryKey) /\ group \in [Side -> Group] /\ FiledOnce(group, fired)
      /\ fired \in Seq(Event) /\ Len(fired) <= MaxEvents /\ Keys \subseteq QueryKey
      /\ broken \in BOOLEAN
  BY <1>1, InTheDrain
<1>3. Ledger(group, fired, handled, broken, drain.running, <<>>)
  BY <1>1, InTheDrain
<1>4. k \in QueryKey /\ Tail(drain.left) \in Seq(QueryKey)
      /\ \A i \in 1 .. Len(drain.left) : \/ drain.left[i] = k
                                         \/ i - 1 \in 1 .. Len(Tail(drain.left))
                                            /\ Tail(drain.left)[i - 1] = drain.left[i]
  <2>1. drain.left \in Seq(QueryKey) /\ drain.left # <<>>
    BY <1>1, <1>2
  <2>2. \A i \in 1 .. Len(Tail(drain.left)) : Tail(drain.left)[i] = drain.left[i + 1]
    BY <2>1
  <2>3. Len(Tail(drain.left)) = Len(drain.left) - 1 /\ Len(drain.left) \in Nat
        /\ k = drain.left[1] /\ k \in QueryKey /\ Tail(drain.left) \in Seq(QueryKey)
    BY <2>1
  <2>4. ASSUME NEW i \in 1 .. Len(drain.left), drain.left[i] # k
        PROVE  i - 1 \in 1 .. Len(Tail(drain.left)) /\ Tail(drain.left)[i - 1] = drain.left[i]
    <3>1. i # 1
      BY <2>3, <2>4
    <3>2. i - 1 \in 1 .. Len(Tail(drain.left)) /\ (i - 1) + 1 = i
      BY <3>1, <2>3
    <3> QED
      BY <3>2, <2>2
  <2> QED
    BY <2>3, <2>4
<1>5. Handles[k] \in EventType /\ group[R] \in Group
  BY <1>2, <1>4, DispatchAssumption
<1>6. Takes(group[R], g2, Handles[k], k)
  BY <1>4, <1>5, TakenTakes
<1> HIDE DEF R, k, g2
<1>7. /\ group' \in [Side -> Group] /\ FiledOnce(group', fired)
      /\ \A j \in QueryKey : j # k => (TookAll(group'[R], j) <=> TookAll(group[R], j))
      /\ TookAll(g2, k)
  BY <1>1, <1>2, <1>4, <1>6, FiledOnceTakes
<1>8. group'[R] = g2
  BY <1>1, <1>2
<1>9. /\ evs \in Seq(Nat) /\ Ledger(group', fired, handled, broken, k, evs)
      /\ Batch(group', fired, handled, k, evs)
  BY <1>1, <1>2, <1>3, <1>4, <1>6, LedgerTakes
<1> HIDE DEF evs
<1>10. /\ drain' \in DrainType /\ drain'.stage = drain.stage /\ drain'.reader = R
       /\ drain'.seen = drain.seen /\ drain'.left = Tail(drain.left) /\ drain'.running = k
       /\ drain'.events = evs
  BY <1>1, <1>2, <1>4, <1>9 DEF DrainType, R
<1>11. behaviors_topos' = behaviors_topos /\ Keys' = Keys
  BY <1>1 DEF behaviorVars, Keys
<1>12. ASSUME NEW j \in Keys
       PROVE  \/ \E i \in 1 .. Len(drain'.left) : drain'.left[i] = j
              \/ TookAll(group'[R], j)
  <2>1. CASE j = k
    BY <2>1, <1>7, <1>8
  <2>2. CASE j # k /\ TookAll(group[R], j)
    BY <2>2, <1>2, <1>7
  <2>3. CASE \E i \in 1 .. Len(drain.left) : drain.left[i] = j
    BY <2>1, <2>3, <1>4, <1>10
  <2> QED
    BY <2>1, <2>2, <2>3, <1>1, InTheDrain DEF R
<1>13. drain.stage # "first" => Noticed(group', R, drain.seen, Keys)
  <2>1. SUFFICES ASSUME drain.stage # "first" PROVE Noticed(group', R, drain.seen, Keys)
    OBVIOUS
  <2>2. Noticed(group, R, drain.seen, Keys)
    BY <2>1, <1>1, InTheDrain DEF R
  <2>3. g2.version = group[R].version
    BY <1>6 DEF Takes
  <2> QED
    BY <2>2, <2>3, <1>1, <1>2, NoticedTakes
<1>14. Ordered'
  BY <1>1, OrderedKept DEF EventInv
<1>15. Events'
  BY <1>1, <1>2, <1>7, <1>9, <1>10 DEF Events
<1>16. InDrain /\ behaviors_topos # NoOrder
  BY <1>1, InTheDrain
<1>17. Rounds'
  BY <1>1, <1>9, <1>10, <1>11, <1>12, <1>13, <1>16 DEF Rounds, InDrain
<1> QED
  BY <1>14, <1>15, <1>17 DEF EventInv

\* A drain which panics leaves the books as they are.
LEMMA DeadEvents ==
  ASSUME EventInv, DeadTarget
  PROVE  EventInv'
<1>1. /\ InDrain /\ drain' = [drain EXCEPT !.stage = "panic"]
      /\ UNCHANGED <<behaviorVars, group, fired, handled, broken>>
  BY DEF DeadTarget, eventVars
<1>2. drain \in DrainType /\ Events
  BY <1>1, InTheDrain DEF EventInv
<1>3. /\ drain' \in DrainType /\ drain'.stage = "panic" /\ drain'.running = drain.running
      /\ drain'.events = drain.events
  BY <1>1, <1>2 DEF DrainType
<1>4. Rounds'
  BY <1>3 DEF Rounds, InDrain
<1>5. Events'
  BY <1>1, <1>2, <1>3, EventsKept DEF Events
<1>6. Ordered'
  BY <1>1, OrderedKept DEF EventInv
<1> QED
  BY <1>4, <1>5, <1>6 DEF EventInv

\* An event for an entity with other tags is passed over.
LEMMA SkipEvents ==
  ASSUME EventInv, SkipEvent
  PROVE  EventInv'
<1>1. /\ InDrain /\ drain.events # <<>> /\ Target[1] \notin Wants[drain.running]
      /\ drain' = [drain EXCEPT !.events = Tail(drain.events)]
      /\ UNCHANGED <<behaviorVars, group, fired, handled, broken>>
  BY DEF SkipEvent, eventVars
<1>2. /\ drain \in DrainType /\ drain.events \in Seq(Nat)
      /\ Batch(group, fired, handled, drain.running, drain.events)
      /\ Ledger(group, fired, handled, broken, drain.running, drain.events)
  BY <1>1, InTheDrain
<1>3. fired[Head(drain.events)].target[1] \notin Wants[drain.running]
  BY <1>1 DEF Target
<1>4. Tail(drain.events) \in Seq(Nat)
      /\ Batch(group, fired, handled, drain.running, Tail(drain.events))
  BY <1>1, <1>2, BatchTail
<1>5. Ledger(group, fired, handled, broken, drain.running, Tail(drain.events))
  BY <1>1, <1>2, <1>3, LedgerSkips
<1>6. /\ drain' \in DrainType /\ drain'.stage = drain.stage /\ drain'.reader = drain.reader
      /\ drain'.seen = drain.seen /\ drain'.left = drain.left /\ drain'.running = drain.running
      /\ drain'.events = Tail(drain.events)
  BY <1>1, <1>2, <1>4 DEF DrainType
<1>7. behaviors_topos' = behaviors_topos /\ Keys' = Keys
  BY <1>1 DEF behaviorVars, Keys
<1>8. Rounds /\ Events
  BY DEF EventInv
<1>9. Rounds'
  BY <1>1, <1>4, <1>6, <1>7, <1>8 DEF Rounds, InDrain
<1>10. Events'
  BY <1>1, <1>5, <1>6, <1>8, EventsKept
<1>11. Ordered'
  BY <1>1, OrderedKept DEF EventInv
<1> QED
  BY <1>9, <1>10, <1>11 DEF EventInv

\* The body is called for the first event of the batch.  What it fires goes to the side
\* which is not being read.
LEMMA HandleEvents ==
  ASSUME EventInv, HandleEvent
  PROVE  EventInv'
<1> DEFINE hd == [handled EXCEPT ![drain.running][Head(drain.events)] = @ + 1]
           rest == Tail(drain.events)
           other == Other(drain.reader)
<1>1. /\ InDrain /\ drain.events # <<>> /\ Target[1] \in Wants[drain.running]
      /\ handled' = hd /\ UNCHANGED behaviorVars
  BY DEF HandleEvent
<1>2. /\ drain \in DrainType /\ drain.events \in Seq(Nat) /\ drain.reader \in Side
      /\ drain.seen \in [Side -> Nat]
      /\ fired \in Seq(Event) /\ Len(fired) <= MaxEvents
      /\ group \in [Side -> Group] /\ FiledOnce(group, fired)
      /\ Batch(group, fired, handled, drain.running, drain.events)
      /\ Ledger(group, fired, handled, broken, drain.running, drain.events)
  BY <1>1, InTheDrain
<1>3. fired[Head(drain.events)].target[1] \in Wants[drain.running] /\ Len(fired) \in Nat
  BY <1>1, <1>2 DEF Target
<1>4. /\ Ledger(group, fired, hd, broken, drain.running, rest)
      /\ Batch(group, fired, hd, drain.running, rest)
      /\ Ledger(group, fired, hd, TRUE, drain.running, drain.events)
  BY <1>1, <1>2, <1>3, LedgerHandles
<1>5. rest \in Seq(Nat) /\ Head(drain.events) \in 1 .. Len(fired)
  BY <1>1, <1>2, BatchTail
<1>6. Target \in Place
  BY <1>2, <1>5, Typed DEF Target
<1> HIDE DEF hd, rest
<1>7. behaviors_topos' = behaviors_topos /\ Keys' = Keys
  BY <1>1 DEF behaviorVars, Keys
<1>8. Rounds /\ Events /\ Ordered'
  BY <1>1, OrderedKept DEF EventInv
<1>9. CASE /\ drain' = [drain EXCEPT !.stage = "broken"] /\ broken' = TRUE
           /\ UNCHANGED <<group, fired>>
  <2>1. /\ drain' \in DrainType /\ drain'.stage = "broken" /\ drain'.running = drain.running
        /\ drain'.events = drain.events
    BY <1>2, <1>9 DEF DrainType
  <2>2. Rounds'
    BY <2>1, <1>9 DEF Rounds, InDrain
  <2>3. Events'
    BY <2>1, <1>1, <1>2, <1>4, <1>9 DEF Events
  <2> QED
    BY <2>2, <2>3, <1>8 DEF EventInv
<1>10. CASE /\ drain' = [drain EXCEPT !.events = rest] /\ broken' = broken
            /\ UNCHANGED <<group, fired>> \/ Fire(other, Target)
  <2>1. /\ drain' \in DrainType /\ drain'.stage = drain.stage /\ drain'.reader = drain.reader
        /\ drain'.seen = drain.seen /\ drain'.left = drain.left /\ drain'.running = drain.running
        /\ drain'.events = rest
    BY <1>2, <1>5, <1>10 DEF DrainType
  <2>2. other \in Side /\ other # drain.reader
    BY <1>2, Sides
  <2>3. /\ fired' \in Seq(Event) /\ Len(fired') <= MaxEvents
        /\ group' \in [Side -> Group] /\ FiledOnce(group', fired')
        /\ Ledger(group', fired', hd, broken, drain.running, rest)
        /\ Batch(group', fired', hd, drain.running, rest)
    <3>1. CASE UNCHANGED <<group, fired>>
      BY <3>1, <1>2, <1>4
    <3>2. CASE Fire(other, Target)
      BY <3>2, <2>2, <1>4, <1>6, <1>8, EventsFired
    <3> QED
      BY <3>1, <3>2, <1>10
  <2>4. /\ group'[drain.reader] = group[drain.reader]
        /\ drain.stage # "first" => Noticed(group', drain.reader, drain.seen, Keys)
    <3>1. drain.stage # "first" => Noticed(group, drain.reader, drain.seen, Keys)
      BY <1>1, InTheDrain
    <3>2. CASE UNCHANGED <<group, fired>>
      BY <3>1, <3>2
    <3>3. CASE Fire(other, Target)
      <4>1. PICK g2 : /\ group' = [group EXCEPT ![other] = g2]
                      /\ g2.version = group[other].version + 1
        BY <3>3, <2>2, <1>2, <1>6, Fired
      <4>2. group'[drain.reader] = group[drain.reader]
        BY <4>1, <2>2, <1>2
      <4>3. drain.stage # "first" => Noticed(group', drain.reader, drain.seen, Keys)
        BY <4>1, <3>1, <1>2, NoticedGrows
      <4> QED
        BY <4>2, <4>3
    <3> QED
      BY <3>2, <3>3, <1>10
  <2>5. Events'
    BY <2>1, <2>3, <1>1, <1>8, <1>10 DEF Events
  <2>6. /\ behaviors_topos # NoOrder
        /\ \A k \in Keys : \/ \E i \in 1 .. Len(drain.left) : drain.left[i] = k
                           \/ TookAll(group[drain.reader], k)
    BY <1>1, InTheDrain
  <2>7. Rounds'
    BY <2>1, <2>3, <2>4, <2>6, <1>1, <1>7 DEF Rounds, InDrain
  <2> QED
    BY <2>5, <2>7, <1>8 DEF EventInv
<1> QED
  BY <1>9, <1>10 DEF HandleEvent, Body, Destroy, rest, other

\* A call of the closure is over, so its side has no event left.  The other side is read
\* next, or it has none left either.
LEMMA NextEvents ==
  ASSUME EventInv, NextCall
  PROVE  EventInv'
<1> DEFINE R == drain.reader
           O == Other(drain.reader)
           seen == Versions(drain.stage, drain.seen)
           again == [seen EXCEPT ![O] = group[O].version]
<1>1. /\ InDrain /\ drain.events = <<>> /\ drain.left = <<>>
      /\ UNCHANGED <<behaviorVars, group, fired, handled, broken>>
  BY DEF NextCall, Called, eventVars
<1>2. drain' = IF drain.stage = "first" THEN Drain("second", O, seen, behaviors_topos)
               ELSE IF group[O].version # seen[O] THEN Drain("loop", O, again, behaviors_topos)
               ELSE Drain("done", O, seen, <<>>)
  BY DEF NextCall, has_updated_since
<1>3. /\ drain \in DrainType /\ R \in Side /\ drain.seen \in [Side -> Nat]
      /\ group \in [Side -> Group] /\ behaviors_topos \in Seq(QueryKey) /\ broken \in BOOLEAN
      /\ behaviors_topos # NoOrder
      /\ drain.stage # "first" => Noticed(group, R, drain.seen, Keys)
      /\ Ledger(group, fired, handled, broken, drain.running, drain.events)
  BY <1>1, InTheDrain
<1>4. \A k \in Keys : TookAll(group[R], k)
  <2>1. \A i : ~ (i \in 1 .. Len(drain.left))
    BY <1>1
  <2> QED
    BY <2>1, <1>1, InTheDrain
<1>5. O \in Side /\ O # R /\ Other(O) = R /\ \A s \in Side : s = O \/ s = R
  BY <1>3, Sides
<1>6. \A s \in Side : group[s].version \in Nat
  BY <1>3 DEF Group
<1>7. seen \in [Side -> Nat]
  <2>1. [side \in Side |-> group[side].version] \in [Side -> Nat]
    BY <1>6
  <2> QED
    BY <2>1, <1>3 DEF Versions
<1>8. \A run : Ledger(group, fired, handled, broken, run, <<>>)
  BY <1>1, <1>3, LedgerClosed
<1> HIDE DEF R, O, seen
<1>9. behaviors_topos' = behaviors_topos /\ Keys' = Keys
  BY <1>1 DEF behaviorVars, Keys
<1>10. \A k \in Keys : \E i \in 1 .. Len(behaviors_topos) : behaviors_topos[i] = k
  BY DEF Keys
<1>11. Events /\ Ordered'
  BY <1>1, OrderedKept DEF EventInv
<1>12. ASSUME drain'.events = <<>> PROVE Events'
  BY <1>1, <1>8, <1>11, <1>12, EventsKept
<1>13. CASE drain.stage = "first"
  <2>1. drain' = Drain("second", O, seen, behaviors_topos)
    BY <1>2, <1>13
  <2>2. /\ drain' \in DrainType /\ drain'.stage = "second" /\ drain'.reader = O
        /\ drain'.seen = seen /\ drain'.left = behaviors_topos /\ drain'.events = <<>>
    BY <2>1, <1>3, <1>5, <1>7, Draining
  <2>3. seen = [side \in Side |-> group[side].version]
    BY <1>13 DEF seen, Versions
  <2>4. Noticed(group, O, seen, Keys)
    <3>1. seen[O] = group[O].version /\ seen[R] = group[R].version
      BY <2>3, <1>3, <1>5
    <3>2. group[R].version >= seen[R]
      BY <3>1, <1>3, <1>6
    <3> QED
      BY ONLY <3>1, <3>2, <1>4, <1>5 DEF Noticed
  <2>5. Rounds'
    BY <2>2, <2>4, <1>1, <1>3, <1>9, <1>10 DEF Rounds, InDrain
  <2> QED
    BY <2>2, <2>5, <1>11, <1>12 DEF EventInv
<1>14. CASE drain.stage # "first"
  <2>1. seen = drain.seen
    BY <1>14 DEF seen, Versions
  <2>2. /\ group[R].version = seen[R]
        /\ group[O].version = seen[O] => \A k \in Keys : TookAll(group[O], k)
    BY <2>1, <1>3, <1>14 DEF Noticed, O, R
  <2>3. CASE group[O].version # seen[O]
    <3>1. again \in [Side -> Nat] /\ again[O] = group[O].version /\ again[R] = seen[R]
      BY <1>5, <1>6, <1>7
    <3>2. drain' = Drain("loop", O, again, behaviors_topos)
      BY <2>3, <1>2, <1>14
    <3> HIDE DEF again
    <3>3. /\ drain' \in DrainType /\ drain'.stage = "loop" /\ drain'.reader = O
          /\ drain'.seen = again /\ drain'.left = behaviors_topos /\ drain'.events = <<>>
      <4>1. behaviors_topos \in Seq(QueryKey) /\ O \in Side /\ again \in [Side -> Nat]
        BY <3>1, <1>3, <1>5
      <4> QED
        BY ONLY <4>1, <3>2, Draining
    <3>4. Noticed(group, O, again, Keys)
      <4>1. group[R].version >= again[R]
        BY <3>1, <2>2, <1>3, <1>6
      <4>2. group[O].version = again[O]
        BY <3>1
      <4> QED
        BY ONLY <4>1, <4>2, <1>4, <1>5 DEF Noticed
    <3>5. Rounds'
      BY <3>3, <3>4, <1>1, <1>3, <1>9, <1>10 DEF Rounds, InDrain
    <3> QED
      BY <3>3, <3>5, <1>11, <1>12 DEF EventInv
  <2>4. CASE group[O].version = seen[O]
    <3>1. drain' = Drain("done", O, seen, <<>>) /\ <<>> \in Seq(QueryKey)
      BY <2>4, <1>2, <1>14
    <3>2. drain' \in DrainType /\ drain'.stage = "done" /\ drain'.events = <<>>
      <4>1. O \in Side /\ seen \in [Side -> Nat] /\ <<>> \in Seq(QueryKey)
        BY <3>1, <1>5, <1>7
      <4> QED
        BY ONLY <4>1, <3>1 DEF Drain, DrainType
    <3>3. \A side \in Side : \A k \in Keys : TookAll(group[side], k)
      BY <2>2, <2>4, <1>4, <1>5
    <3>4. Rounds'
      BY <3>2, <3>3, <1>1, <1>3, <1>9 DEF Rounds, InDrain
    <3> QED
      BY <3>2, <3>4, <1>11, <1>12 DEF EventInv
  <2> QED
    BY <2>3, <2>4
<1> QED
  BY <1>13, <1>14

LEMMA EventsUnchanged ==
  ASSUME EventInv, UNCHANGED dispatchVars
  PROVE  EventInv'
<1>1. UNCHANGED <<behaviorVars, group, fired, handled, broken, drain>>
  BY DEF dispatchVars
<1>2. Ordered'
  BY <1>1, OrderedKept DEF EventInv
<1>3. Events'
  BY <1>1, EventsKept DEF EventInv, Events
<1>4. Rounds'
  BY <1>1 DEF EventInv, Rounds, InDrain, Keys, behaviorVars
<1> QED
  BY <1>2, <1>3, <1>4 DEF EventInv

\* Every event is in one group, once; what a behaviour has taken of it and was to handle
\* it has handled, once, or is about to; and the versions a drain has seen tell it
\* whether anything is left to be taken.
THEOREM EventTheorem == Spec => []EventInv
<1>1. EventInv /\ [Next]_dispatchVars => EventInv'
  BY ListEvents, QueryEvents, BeginEvents, RunEvents, DeadEvents, SkipEvents, HandleEvents,
     NextEvents, FrameEvents, ClearEventsOK, EventsUnchanged DEF Next, Step, DrainStep
<1> QED
  BY InitEvents, <1>1, PTL DEF Spec

\* HandledOnce, for any events, behaviours and rounds: no behaviour handles an event twice
\* or one it does not ask for, and when a drain is done which was not broken off, each has
\* handled all it asks for, in whichever round it was fired.
THEOREM HandledTheorem == Spec => []HandledOnce
<1>1. ASSUME EventInv, NEW k \in QueryKey, NEW n \in 1 .. MaxEvents
      PROVE  handled[k][n] > 0 => handled[k][n] = 1 /\ n \in Meant(k)
  <2>1. /\ handled \in [QueryKey -> [1 .. MaxEvents -> {0, 1}]]
        /\ handled[k][n] = 1 => n \in ToHandle(fired, k)
    BY <1>1 DEF EventInv, Events, Ledger
  <2>2. handled[k][n] \in {0, 1}
    BY <2>1
  <2>3. ToHandle(fired, k) = Meant(k)
    BY <1>1 DEF ToHandle, Meant, EventInv, Events
  <2> QED
    BY <2>1, <2>2, <2>3
<1>2. ASSUME EventInv, BehaviorInv, drain.stage = "done", ~ broken, ~ extended,
             NEW k \in DOMAIN behaviors, NEW n \in Meant(k)
      PROVE  handled[k][n] = 1
  <2>1. /\ fired \in Seq(Event) /\ Len(fired) <= MaxEvents /\ FiledOnce(group, fired)
        /\ Ledger(group, fired, handled, broken, drain.running, drain.events)
        /\ behaviors \in Seq(Behavior) /\ Len(behaviors) <= MaxBehaviors
        /\ behaviors_topos # NoOrder /\ drain.events = <<>>
        /\ \A side \in Side : \A j \in Keys : TookAll(group[side], j)
    BY <1>2 DEF EventInv, Events, Ordered, Rounds
  <2>2. k \in 1 .. Len(behaviors) /\ k \in QueryKey
    BY <2>1, DispatchAssumption
  <2>3. k \in Keys
    <3>1. behaviors_topos \in Orders(behaviors)
      BY <1>2, <2>1 DEF BehaviorInv, ListInv
    <3>2. behaviors_topos \in [1 .. Len(behaviors) -> 1 .. Len(behaviors)]
          /\ \E i \in 1 .. Len(behaviors) : behaviors_topos[i] = k
      BY <3>1, <2>1, <2>2, OrderIs
    <3>3. Len(behaviors_topos) = Len(behaviors)
      BY <3>2, <2>1
    <3> QED
      BY <3>2, <3>3 DEF Keys
  <2>4. n \in 1 .. Len(fired) /\ fired[n].type = Handles[k] /\ n \in ToHandle(fired, k)
    BY <2>1 DEF Meant, ToHandle
  <2>5. PICK side \in Side : Holds(group[side], Handles[k], n)
    BY <2>1, <2>4 DEF FiledOnce
  <2>6. Took(group[side], k, n)
    BY <2>1, <2>3, <2>5 DEF TookAll, Took, Holds
  <2>7. n \in 1 .. MaxEvents /\ TookAny(group, k, n) /\ ~ Among(drain.events, n)
    BY <2>1, <2>4, <2>6, DispatchAssumption DEF TookAny, Among
  <2> QED
    BY <2>1, <2>2, <2>4, <2>7, <1>2 DEF Ledger
<1>3. ASSUME EventInv PROVE DOMAIN behaviors \subseteq QueryKey
  <2>1. behaviors \in Seq(Behavior) /\ Len(behaviors) <= MaxBehaviors
    BY <1>3 DEF EventInv, Ordered
  <2> QED
    BY <2>1, DispatchAssumption
<1>4. EventInv /\ BehaviorInv => HandledOnce
  BY <1>1, <1>2, <1>3 DEF HandledOnce
<1> QED
  BY EventTheorem, ListTheorem, <1>4, PTL

=============================================================================
