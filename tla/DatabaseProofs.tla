--------------------------- MODULE DatabaseProofs ---------------------------
(***************************************************************************)
(* What is true of the database for any number of entities and tags and    *)
(* any size of the heaps.                                                  *)
(*                                                                         *)
(* First what the operations on an archetype's entity list (Database:      *)
(* SetAt, Cut, PopBack, PushBack, Pruned) do to the slots in use and to    *)
(* their content, for heaps of any number and size.  Then SlotsMirror and  *)
(* what follows from it: through every spawn, despawn, retag and step of a *)
(* flush, the location an alive entity records and the entity lists mirror *)
(* each other; and the slots not in use are reset.                         *)
(*                                                                         *)
(* Then what the archetype graph relies on: exact virtual counters, no     *)
(* dangling reference, exact containers, a complete dirty list, and the    *)
(* stability of what queries iterate over; that no archetype is leaked,    *)
(* and that the database implements EntityTags.                            *)
(*                                                                         *)
(* Last that the recursion which removes archetypes (ArchetypeRemoval)     *)
(* does what the database takes in one step.                               *)
(***************************************************************************)
EXTENDS ArchetypeRemoval, FiniteSetTheorems, SequenceTheorems, TLAPS

-----------------------------------------------------------------------------
(* The entity list of an archetype.                                        *)

\* No heap is empty, and the last one is neither empty nor overfull: "we'll never
\* have a trailing heap whose length is zero by invariant" (database.rs:759).
ListOK(l) ==
  /\ l \in EntityList
  /\ \A h \in 1 .. Len(l.heaps) : Len(l.heaps[h]) \in Nat \ {0}
  /\ l.heaps # <<>> => l.last \in 1 .. Len(Last(l.heaps))
  /\ l.heaps = <<>> => l.last = 0

\* A bounded nonempty set of numbers has a largest one.
LEMMA MaxExists ==
  ASSUME NEW A \in SUBSET Nat, A # {}, NEW n \in Nat, \A a \in A : a <= n
  PROVE  \E m \in A : \A a \in A : a <= m
<1> DEFINE B == {n - a : a \in A}
           R == {xy \in Nat \X Nat : xy[1] < xy[2]}
<1>0. IsWellFoundedOn(R, Nat)
  BY NatLessThanWellFounded DEF OpToRel
<1>1. B \subseteq Nat /\ B # {}
  <2>1. \A a \in A : a \in Nat /\ n - a \in Nat
    OBVIOUS
  <2>2. PICK a \in A : TRUE
    OBVIOUS
  <2> QED
    BY <2>1, <2>2, Zenon
<1>2. PICK x \in B : \A y \in B : ~ (<<y, x>> \in R)
  BY <1>0, <1>1, WFMin
<1>3. \A y \in B : ~ (y < x)
  BY <1>1, <1>2
<1>4. PICK m \in A : x = n - m
  OBVIOUS
<1>5. \A a \in A : a <= m
  <2> TAKE a \in A
  <2>1. n - a \in B
    OBVIOUS
  <2>2. ~ (n - a < n - m)
    BY <2>1, <1>3, <1>4
  <2> QED
    BY <2>2
<1> QED
  BY <1>5

\* A sequence is empty exactly when its length is zero.
LEMMA EmptyLen ==
  ASSUME NEW S, NEW s \in Seq(S)
  PROVE  Len(s) \in Nat /\ (s = <<>> <=> Len(s) = 0)
BY EmptySeq, LenProperties

\* The list an archetype starts with is well formed.
LEMMA EmptyListOK == ListOK(EmptyList)
BY EmptySeq DEF ListOK, EmptyList, EntityList

\* Every heap of a well-formed list is a sequence of slots, and so on.
LEMMA ListParts ==
  ASSUME NEW l, ListOK(l)
  PROVE  /\ l.heaps \in Seq(Seq(Content))
         /\ Len(l.heaps) \in Nat
         /\ DOMAIN l.heaps = 1 .. Len(l.heaps)
         /\ \A h \in 1 .. Len(l.heaps) :
              /\ l.heaps[h] \in Seq(Content)
              /\ Len(l.heaps[h]) \in Nat \ {0}
              /\ DOMAIN l.heaps[h] = 1 .. Len(l.heaps[h])
         /\ l.last \in Nat
<1>1. l.heaps \in Seq(Seq(Content)) /\ l.last \in Nat
  BY DEF ListOK, EntityList
<1>2. Len(l.heaps) \in Nat /\ DOMAIN l.heaps = 1 .. Len(l.heaps)
  BY <1>1, LenProperties
<1>3. \A h \in 1 .. Len(l.heaps) : l.heaps[h] \in Seq(Content)
  BY <1>1, ElementOfSeq
<1>4. \A h \in 1 .. Len(l.heaps) : DOMAIN l.heaps[h] = 1 .. Len(l.heaps[h])
  BY <1>3, LenProperties
<1> QED
  BY <1>1, <1>2, <1>3, <1>4 DEF ListOK

\* The last slot in use.
Back(l) == <<Len(l.heaps), l.last>>

\* The slots in use are the first ones of each heap, and hold entities or placeholders.
LEMMA UsedOf ==
  ASSUME NEW l, ListOK(l)
  PROVE  /\ \A h \in 1 .. Len(l.heaps) : HeapLen(l, h) \in 1 .. Len(l.heaps[h])
         /\ \A h, s : <<h, s>> \in Used(l) <=> h \in 1 .. Len(l.heaps) /\ s \in 1 .. HeapLen(l, h)
         /\ \A p \in Used(l) : p = <<p[1], p[2]>> /\ At(l, p) \in Content
<1>1. \A h \in 1 .. Len(l.heaps) : HeapLen(l, h) \in 1 .. Len(l.heaps[h])
  <2> TAKE h \in 1 .. Len(l.heaps)
  <2>1. Len(l.heaps[h]) \in Nat \ {0} /\ Len(l.heaps) \in Nat
    BY ListParts
  <2>2. CASE h = Len(l.heaps)
    <3>1. l.heaps # <<>>
      BY <2>1, EmptySeq
    <3> QED
      BY <2>2, <3>1 DEF HeapLen, ListOK, Last
  <2>3. CASE h # Len(l.heaps)
    BY <2>3, <2>1 DEF HeapLen
  <2> QED
    BY <2>2, <2>3
<1>2. DOMAIN l.heaps = 1 .. Len(l.heaps)
  BY ListParts
<1>3. \A h, s : <<h, s>> \in Used(l) <=> h \in 1 .. Len(l.heaps) /\ s \in 1 .. HeapLen(l, h)
  BY <1>2 DEF Used
<1>4. ASSUME NEW p \in Used(l)
      PROVE  p = <<p[1], p[2]>> /\ At(l, p) \in Content
  <2>1. p = <<p[1], p[2]>>
    BY DEF Used
  <2>2. p[1] \in 1 .. Len(l.heaps) /\ p[2] \in 1 .. HeapLen(l, p[1])
    BY <2>1, <1>3
  <2>3. l.heaps[p[1]] \in Seq(Content) /\ p[2] \in 1 .. Len(l.heaps[p[1]])
    <3>1. l.heaps[p[1]] \in Seq(Content) /\ Len(l.heaps[p[1]]) \in Nat
      BY <2>2, ListParts
    <3>2. HeapLen(l, p[1]) \in 1 .. Len(l.heaps[p[1]])
      BY <1>1, <2>2
    <3> QED
      BY <3>1, <3>2, <2>2
  <2>4. l.heaps[p[1]][p[2]] \in Content
    BY <2>3, ElementOfSeq
  <2> QED
    BY <2>1, <2>4 DEF At
<1> QED
  BY <1>1, <1>3, <1>4

\* The back of a list that is not empty is the last of its slots in use.
LEMMA BackOf ==
  ASSUME NEW l, ListOK(l)
  PROVE  /\ l.heaps # <<>> <=> Back(l) \in Used(l)
         /\ l.heaps # <<>> <=> Used(l) # {}
         /\ \A p \in Used(l) : Before(p, Back(l)) /\ (Before(Back(l), p) => p = Back(l))
<1>1. Len(l.heaps) \in Nat /\ l.last \in Nat
  BY ListParts
<1>2. l.heaps # <<>> <=> Len(l.heaps) \in 1 .. Len(l.heaps)
  BY <1>1, ListParts, EmptyLen
<1>3. HeapLen(l, Len(l.heaps)) = l.last
  BY DEF HeapLen
<1>4. l.heaps # <<>> => l.last \in 1 .. l.last
  BY <1>1, <1>2, <1>3, UsedOf
<1>5. l.heaps # <<>> <=> Back(l) \in Used(l)
  BY <1>2, <1>3, <1>4, UsedOf DEF Back
<1>6. ASSUME NEW p \in Used(l)
      PROVE  l.heaps # <<>> /\ Before(p, Back(l)) /\ (Before(Back(l), p) => p = Back(l))
  <2>1. /\ p = <<p[1], p[2]>>
        /\ p[1] \in 1 .. Len(l.heaps) /\ p[2] \in 1 .. HeapLen(l, p[1])
    BY UsedOf
  <2>2. l.heaps # <<>>
    BY <2>1, <1>1, <1>2
  <2>3. Back(l)[1] = Len(l.heaps) /\ Back(l)[2] = l.last /\ Back(l) = <<Len(l.heaps), l.last>>
    BY DEF Back
  <2>4. p[1] = Len(l.heaps) => p[2] \in 1 .. l.last
    BY <2>1, <1>3
  <2>5. Before(p, Back(l))
    BY <2>1, <2>3, <2>4, <1>1 DEF Before
  <2>6. Before(Back(l), p) => p[1] = Len(l.heaps) /\ p[2] = l.last
    <3>1. p[1] \in Nat /\ p[1] <= Len(l.heaps)
      BY <2>1, <1>1
    <3> QED
      BY <3>1, <2>3, <2>4, <1>1 DEF Before
  <2> QED
    BY <2>1, <2>2, <2>3, <2>5, <2>6
<1> QED
  BY <1>5, <1>6

\* Overwriting a slot changes no length.
LEMMA SetAtOK ==
  ASSUME NEW l, ListOK(l), NEW h, NEW s, NEW e \in Content
  PROVE  /\ ListOK(SetAt(l, h, s, e))
         /\ Len(SetAt(l, h, s, e).heaps) = Len(l.heaps)
         /\ SetAt(l, h, s, e).last = l.last
         /\ \A i \in 1 .. Len(l.heaps) : Len(SetAt(l, h, s, e).heaps[i]) = Len(l.heaps[i])
<1> DEFINE new == SetAt(l, h, s, e)
           heap == [l.heaps[h] EXCEPT ![s] = e]
<1>0. /\ l.heaps \in Seq(Seq(Content)) /\ Len(l.heaps) \in Nat
      /\ DOMAIN l.heaps = 1 .. Len(l.heaps)
      /\ \A i \in 1 .. Len(l.heaps) :
           l.heaps[i] \in Seq(Content) /\ DOMAIN l.heaps[i] = 1 .. Len(l.heaps[i])
  BY ListParts
<1>1. new.heaps = [l.heaps EXCEPT ![h] = heap] /\ new.last = l.last
      /\ new = [heaps |-> new.heaps, last |-> l.last]
  BY Zenon DEF SetAt
<1>2. CASE h \notin 1 .. Len(l.heaps)
  <2>1. new.heaps = l.heaps
    BY <1>0, <1>1, <1>2
  <2>2. new = l
    BY <2>1, <1>1 DEF ListOK, EntityList
  <2> QED
    BY <2>2
<1>3. CASE h \in 1 .. Len(l.heaps)
  <2>1. heap \in Seq(Content) /\ Len(heap) = Len(l.heaps[h])
    <3>1. CASE s \in 1 .. Len(l.heaps[h])
      BY <3>1, <1>0, <1>3, ExceptSeq
    <3>2. CASE s \notin 1 .. Len(l.heaps[h])
      <4>1. heap = l.heaps[h]
        BY <3>2, <1>0, <1>3, LenProperties
      <4> QED
        BY <4>1, <1>0, <1>3
    <3> QED
      BY <3>1, <3>2
  <2>2. /\ new.heaps \in Seq(Seq(Content))
        /\ Len(new.heaps) = Len(l.heaps)
        /\ \A i \in 1 .. Len(l.heaps) : new.heaps[i] = IF i = h THEN heap ELSE l.heaps[i]
    BY <2>1, <1>0, <1>1, <1>3, ExceptSeq
  <2> HIDE DEF new, heap
  <2>3. \A i \in 1 .. Len(l.heaps) : Len(new.heaps[i]) = Len(l.heaps[i])
    BY <2>1, <2>2
  <2>4. new \in EntityList
    BY <2>2, <1>1, ListParts DEF EntityList
  <2>5. new.heaps # <<>> /\ l.heaps # <<>> /\ Len(l.heaps) \in 1 .. Len(l.heaps)
    BY <1>0, <1>3, <2>2, EmptySeq
  <2>6. Len(Last(new.heaps)) = Len(Last(l.heaps))
    <3> DEFINE n == Len(l.heaps)
    <3>1. Last(new.heaps) = new.heaps[n] /\ Last(l.heaps) = l.heaps[n]
      BY <2>2, Zenon DEF Last
    <3> QED
      BY <3>1, <2>3, <2>5
  <2>7. \A i \in 1 .. Len(new.heaps) : Len(new.heaps[i]) \in Nat \ {0}
    <3>1. \A i \in 1 .. Len(l.heaps) : Len(l.heaps[i]) \in Nat \ {0}
      BY DEF ListOK
    <3> QED
      BY <3>1, <2>2, <2>3
  <2>8. new.last \in 1 .. Len(Last(new.heaps))
    <3>1. l.last \in 1 .. Len(Last(l.heaps))
      BY <2>5 DEF ListOK
    <3> QED
      BY <3>1, <2>6, <1>1
  <2>9. ListOK(new)
    BY <2>4, <2>5, <2>7, <2>8 DEF ListOK
  <2>10. Len(new.heaps) = Len(l.heaps) /\ new.last = l.last
    BY <2>2, <1>1
  <2> QED
    BY <2>3, <2>9, <2>10, Zenon DEF new
<1> QED
  BY <1>2, <1>3

\* l2 is the first h heaps of l, the last of them holding n entities.
FirstHeaps(l2, l, h, n) ==
  /\ ListOK(l2)
  /\ l2.heaps # <<>>
  /\ Len(l2.heaps) = h
  /\ l2.last = n
  /\ \A i \in 1 .. h : Len(l2.heaps[i]) = Len(l.heaps[i])
  /\ \A i \in 1 .. h : \A s \in 1 .. Len(l.heaps[i]) :
       i < h \/ s <= n => l2.heaps[i][s] = l.heaps[i][s]

\* A well-formed list stays so when it is cut within a heap of its own.
LEMMA CutOK ==
  ASSUME NEW l, ListOK(l), NEW h \in 1 .. Len(l.heaps), NEW n \in 1 .. Len(l.heaps[h])
  PROVE  FirstHeaps(Cut(l, h, n), l, h, n)
<1> DEFINE kept == SubSeq(l.heaps, 1, h)
           reset == [s \in DOMAIN l.heaps[h] |-> IF s > n THEN PLACEHOLDER ELSE l.heaps[h][s]]
           new == Cut(l, h, n)
<1>0. /\ l.heaps \in Seq(Seq(Content)) /\ Len(l.heaps) \in Nat
      /\ \A i \in 1 .. Len(l.heaps) :
           /\ l.heaps[i] \in Seq(Content) /\ Len(l.heaps[i]) \in Nat \ {0}
           /\ DOMAIN l.heaps[i] = 1 .. Len(l.heaps[i])
  BY ListParts
<1>1. /\ kept \in Seq(Seq(Content))
      /\ Len(kept) = h
      /\ \A i \in 1 .. h : kept[i] = l.heaps[i]
  <2>1. \A i \in 1 .. h : l.heaps[i] \in Seq(Content)
    BY <1>0
  <2> QED
    BY <2>1, <1>0, SubSeqProperties
<1>2. reset \in Seq(Content) /\ Len(reset) = Len(l.heaps[h])
  <2> DEFINE m == Len(l.heaps[h])
  <2>1. \A s \in 1 .. m : l.heaps[h][s] \in Content
    BY <1>0, ElementOfSeq
  <2>2. reset \in [1 .. m -> Content] /\ m \in Nat
    BY <2>1, <1>0 DEF Content
  <2> QED
    BY <2>2
<1>3. PICK hs \in Seq(Seq(Content)) :
        /\ new = [heaps |-> hs, last |-> n]
        /\ Len(hs) = h
        /\ \A i \in 1 .. h : Len(hs[i]) = Len(l.heaps[i])
        /\ \A i \in 1 .. h : \A s \in 1 .. Len(l.heaps[i]) :
             i < h \/ s <= n => hs[i][s] = l.heaps[i][s]
  <2>1. CASE DebugAssertions
    <3> DEFINE hs == [kept EXCEPT ![h] = reset]
    <3>1. hs \in Seq(Seq(Content)) /\ Len(hs) = h
          /\ \A i \in 1 .. h : hs[i] = IF i = h THEN reset ELSE kept[i]
      <4>1. h \in 1 .. Len(kept) /\ Len(kept) = h
        BY <1>0, <1>1
      <4> HIDE DEF reset, kept
      <4> QED
        BY <4>1, <1>1, <1>2, ExceptSeq
    <3>2. new = [heaps |-> hs, last |-> n]
      BY <2>1 DEF Cut
    <3>3. \A i \in 1 .. h : Len(hs[i]) = Len(l.heaps[i])
      <4> HIDE DEF reset, kept, hs
      <4> QED
        BY <3>1, <1>1, <1>2
    <3>4. \A i \in 1 .. h : \A s \in 1 .. Len(l.heaps[i]) :
            i < h \/ s <= n => hs[i][s] = l.heaps[i][s]
      <4> TAKE i \in 1 .. h
      <4> TAKE s \in 1 .. Len(l.heaps[i])
      <4> HAVE i < h \/ s <= n
      <4>1. CASE i = h
        <5>1. hs[i] = reset /\ s \in DOMAIN l.heaps[h] /\ ~ (s > n)
          <6> HIDE DEF hs, reset, kept
          <6> QED
            BY <4>1, <3>1, <1>0
        <5> QED
          BY <4>1, <5>1
      <4>2. CASE i # h
        <5> HIDE DEF hs, reset, kept
        <5> QED
          BY <4>2, <3>1, <1>1
      <4> QED
        BY <4>1, <4>2
    <3> HIDE DEF hs, new
    <3> QED
      BY <3>1, <3>2, <3>3, <3>4
  <2>2. CASE ~ DebugAssertions
    <3>1. new = [heaps |-> kept, last |-> n]
      BY <2>2 DEF Cut
    <3> HIDE DEF kept, new
    <3> QED
      BY <3>1, <1>1
  <2> QED
    BY <2>1, <2>2
<1>4. hs # <<>> /\ new.heaps = hs /\ new.last = n
  BY <1>3, EmptySeq
<1>5. Last(hs) = hs[h] /\ h \in 1 .. h
  BY <1>3, <1>0 DEF Last
<1>6. new \in EntityList
  BY <1>3, <1>0 DEF EntityList
<1> HIDE DEF new
<1>7. ListOK(new)
  <2>1. \A i \in 1 .. Len(new.heaps) : Len(new.heaps[i]) \in Nat \ {0}
    <3> HIDE DEF kept, reset
    <3>1. \A i \in 1 .. h : Len(hs[i]) = Len(l.heaps[i]) /\ i \in 1 .. Len(l.heaps)
      BY <1>0, <1>3
    <3> QED
      BY <3>1, <1>0, <1>3, <1>4
  <2>2. new.last \in 1 .. Len(Last(new.heaps))
    <3> HIDE DEF kept, reset
    <3>1. Len(Last(hs)) = Len(l.heaps[h])
      BY <1>3, <1>5
    <3> QED
      BY <3>1, <1>4
  <2> QED
    BY <1>4, <1>6, <2>1, <2>2 DEF ListOK
<1>8. FirstHeaps(new, l, h, n)
  <2> HIDE DEF kept, reset
  <2> QED
    BY <1>3, <1>4, <1>7 DEF FirstHeaps
<1> QED
  BY <1>8 DEF new

\* l2 is l with the slots after its new back given up.
CutTo(l2, l) ==
  /\ ListOK(l2)
  /\ Before(Back(l2), Back(l))
  /\ Used(l2) = {p \in Used(l) : Before(p, Back(l2))}
  /\ \A p \in Used(l2) : At(l2, p) = At(l, p)

\* A list cut after a slot in use has that slot at its back.
LEMMA CutSlots ==
  ASSUME NEW l, ListOK(l), NEW b \in Used(l)
  PROVE  /\ CutTo(Cut(l, b[1], b[2]), l)
         /\ Back(Cut(l, b[1], b[2])) = b
         /\ Cut(l, b[1], b[2]).heaps # <<>>
<1> DEFINE h == b[1]
           n == b[2]
           new == Cut(l, h, n)
<1>1. /\ h \in 1 .. Len(l.heaps) /\ n \in 1 .. HeapLen(l, h) /\ b = <<h, n>>
      /\ HeapLen(l, h) \in 1 .. Len(l.heaps[h]) /\ Len(l.heaps[h]) \in Nat
      /\ Len(l.heaps) \in Nat
  BY UsedOf, ListParts
<1>2. n \in 1 .. Len(l.heaps[h])
  BY <1>1
<1>3. /\ ListOK(new) /\ new.heaps # <<>>
      /\ Len(new.heaps) = h /\ new.last = n
      /\ \A i \in 1 .. h : Len(new.heaps[i]) = Len(l.heaps[i])
      /\ \A i \in 1 .. h : \A s \in 1 .. Len(l.heaps[i]) :
           i < h \/ s <= n => new.heaps[i][s] = l.heaps[i][s]
  <2>1. FirstHeaps(new, l, h, n)
    BY <1>1, <1>2, CutOK
  <2> HIDE DEF new
  <2> QED
    BY <2>1 DEF FirstHeaps
<1> HIDE DEF new
<1>4. Back(new) = b
  BY <1>1, <1>3 DEF Back
<1>5. \A i \in 1 .. h : HeapLen(new, i) = IF i = h THEN n ELSE HeapLen(l, i)
  BY <1>1, <1>3 DEF HeapLen
<1>6. Before(Back(new), Back(l))
  BY <1>4, BackOf
<1>7. ASSUME NEW i, NEW s
      PROVE  <<i, s>> \in Used(new) <=> <<i, s>> \in Used(l) /\ Before(<<i, s>>, b)
  <2>1. <<i, s>> \in Used(new) <=> i \in 1 .. h /\ s \in 1 .. HeapLen(new, i)
    BY <1>3, UsedOf
  <2>2. <<i, s>> \in Used(l) <=> i \in 1 .. Len(l.heaps) /\ s \in 1 .. HeapLen(l, i)
    BY UsedOf
  <2>3. i \in 1 .. Len(l.heaps) => HeapLen(l, i) \in Nat
    <3>1. i \in 1 .. Len(l.heaps) => HeapLen(l, i) \in 1 .. Len(l.heaps[i]) /\ Len(l.heaps[i]) \in Nat
      BY UsedOf, ListParts
    <3> QED
      BY <3>1
  <2>4. Before(<<i, s>>, b) <=> i < h \/ (i = h /\ s <= n)
    BY DEF Before
  <2>5. CASE i \in 1 .. h
    <3> HIDE DEF h, n
    <3> QED
      BY <2>1, <2>2, <2>3, <2>4, <2>5, <1>1, <1>5
  <2>6. CASE i \notin 1 .. h
    <3> HIDE DEF h, n
    <3> QED
      BY <2>1, <2>2, <2>4, <2>6, <1>1
  <2> QED
    BY <2>5, <2>6
<1>8. Used(new) = {p \in Used(l) : Before(p, b)}
  <2>1. (\A p \in Used(new) : p = <<p[1], p[2]>>) /\ (\A p \in Used(l) : p = <<p[1], p[2]>>)
    BY <1>3, UsedOf
  <2> HIDE DEF h, n
  <2>2. \A p : p \in Used(new) => p \in Used(l) /\ Before(p, b)
    BY <2>1, <1>7
  <2>3. \A p \in Used(l) : Before(p, b) => p \in Used(new)
    BY <2>1, <1>7
  <2> QED
    BY <2>2, <2>3
<1>9. \A p \in Used(new) : At(new, p) = At(l, p)
  <2> TAKE p \in Used(new)
  <2>1. p = <<p[1], p[2]>> /\ p[1] \in 1 .. h /\ p[2] \in 1 .. HeapLen(new, p[1])
    BY <1>3, UsedOf
  <2>2. /\ HeapLen(new, p[1]) \in 1 .. Len(new.heaps[p[1]])
        /\ Len(new.heaps[p[1]]) = Len(l.heaps[p[1]])
        /\ Len(new.heaps[p[1]]) \in Nat
    BY <2>1, <1>3, UsedOf, ListParts
  <2>3. p[2] \in 1 .. Len(l.heaps[p[1]])
    BY <2>1, <2>2
  <2>4. p[1] < h \/ p[2] <= n
    BY <1>1, <1>8 DEF Before
  <2> QED
    BY <2>1, <2>3, <2>4, <1>3 DEF At
<1> QED
  BY <1>3, <1>4, <1>6, <1>8, <1>9 DEF CutTo, new

\* Overwriting a slot in use changes what that slot holds, and nothing else.
LEMMA SetAtSlots ==
  ASSUME NEW l, ListOK(l), NEW p \in Used(l), NEW e \in Content
  PROVE  /\ ListOK(SetAt(l, p[1], p[2], e))
         /\ Back(SetAt(l, p[1], p[2], e)) = Back(l)
         /\ Used(SetAt(l, p[1], p[2], e)) = Used(l)
         /\ \A q \in Used(l) : At(SetAt(l, p[1], p[2], e), q) = IF q = p THEN e ELSE At(l, q)
<1> DEFINE h == p[1]
           s == p[2]
           new == SetAt(l, h, s, e)
<1>1. ListOK(new)
  BY SetAtOK
<1>2. Len(new.heaps) = Len(l.heaps) /\ new.last = l.last
  BY SetAtOK
<1>3. \A i \in 1 .. Len(l.heaps) : Len(new.heaps[i]) = Len(l.heaps[i])
  BY SetAtOK
<1>4. new.heaps = [l.heaps EXCEPT ![h] = [l.heaps[h] EXCEPT ![s] = e]]
  BY Zenon DEF SetAt
<1> HIDE DEF new
<1>5. Back(new) = Back(l)
  BY <1>2 DEF Back
<1>6. \A i \in 1 .. Len(l.heaps) : HeapLen(new, i) = HeapLen(l, i)
  BY <1>2, <1>3 DEF HeapLen
<1>7. Used(new) = Used(l)
  <2>1. DOMAIN new.heaps = 1 .. Len(l.heaps) /\ DOMAIN l.heaps = 1 .. Len(l.heaps)
    BY <1>1, <1>2, ListParts
  <2> QED
    BY <2>1, <1>6 DEF Used
<1>8. ASSUME NEW q \in Used(l)
      PROVE  At(new, q) = IF q = p THEN e ELSE At(l, q)
  <2>1. /\ p = <<h, s>> /\ h \in 1 .. Len(l.heaps) /\ s \in 1 .. Len(l.heaps[h])
        /\ q = <<q[1], q[2]>> /\ q[1] \in 1 .. Len(l.heaps) /\ q[2] \in 1 .. Len(l.heaps[q[1]])
    <3>1. \A x \in Used(l) : x = <<x[1], x[2]>> /\ x[1] \in 1 .. Len(l.heaps) /\ x[2] \in 1 .. HeapLen(l, x[1])
      BY UsedOf
    <3>2. \A i \in 1 .. Len(l.heaps) : HeapLen(l, i) \in 1 .. Len(l.heaps[i]) /\ Len(l.heaps[i]) \in Nat
      BY UsedOf, ListParts
    <3> QED
      BY <3>1, <3>2
  <2>2. DOMAIN l.heaps = 1 .. Len(l.heaps) /\ DOMAIN l.heaps[h] = 1 .. Len(l.heaps[h])
    BY <2>1, ListParts
  <2> DEFINE heap == [l.heaps[h] EXCEPT ![s] = e]
  <2>3. \A i \in 1 .. Len(l.heaps[h]) : heap[i] = IF i = s THEN e ELSE l.heaps[h][i]
    BY <2>2
  <2>4. new.heaps[q[1]] = IF q[1] = h THEN heap ELSE l.heaps[q[1]]
    <3> HIDE DEF heap
    <3> QED
      BY <2>1, <2>2, <1>4 DEF heap
  <2> HIDE DEF heap, h, s
  <2> QED
    BY <2>1, <2>3, <2>4 DEF At
<1> QED
  BY <1>1, <1>5, <1>7, <1>8 DEF new

\* Front drops the last heap only.
LEMMA FrontOK ==
  ASSUME NEW l, ListOK(l), l.heaps # <<>>
  PROVE  /\ Front(l.heaps) \in Seq(Seq(Content)) /\ Len(Front(l.heaps)) = Len(l.heaps) - 1
         /\ \A i \in 1 .. Len(l.heaps) - 1 : Front(l.heaps)[i] = l.heaps[i]
<1> DEFINE k == Len(l.heaps)
<1>0. /\ l.heaps \in Seq(Seq(Content)) /\ k \in Nat \ {0}
      /\ \A i \in 1 .. k : l.heaps[i] \in Seq(Content)
  BY ListParts, EmptySeq
<1>1. \A i \in 1 .. k - 1 : l.heaps[i] \in Seq(Content)
  BY <1>0
<1>2. /\ SubSeq(l.heaps, 1, k - 1) \in Seq(Seq(Content))
      /\ Len(SubSeq(l.heaps, 1, k - 1)) = IF 1 <= k - 1 THEN k - 1 - 1 + 1 ELSE 0
      /\ \A i \in 1 .. k - 1 - 1 + 1 : SubSeq(l.heaps, 1, k - 1)[i] = l.heaps[1 + i - 1]
  BY <1>1, <1>0, SubSeqProperties
<1> QED
  BY <1>2, <1>0 DEF Front

\* A well-formed list stays so when its last entity is popped off.
LEMMA PopBackOK ==
  ASSUME NEW l, ListOK(l), l.heaps # <<>>
  PROVE  ListOK(PopBack(l))
<1> DEFINE k == Len(l.heaps)
           front == Front(l.heaps)
<1>0. /\ l.heaps \in Seq(Seq(Content)) /\ k \in Nat \ {0} /\ l.last \in Nat
      /\ \A i \in 1 .. k : l.heaps[i] \in Seq(Content) /\ Len(l.heaps[i]) \in Nat \ {0}
  BY ListParts, EmptySeq
<1>1. l.last \in 1 .. Len(l.heaps[k])
  BY DEF ListOK, Last
<1>2. CASE l.last > 1
  <2>1. k \in 1 .. k /\ l.last - 1 \in 1 .. Len(l.heaps[k])
    BY <1>0, <1>1, <1>2
  <2>2. PopBack(l) = Cut(l, k, l.last - 1)
    BY <1>2 DEF PopBack
  <2> QED
    BY <2>1, <2>2, CutOK DEF FirstHeaps
<1>3. CASE ~ (l.last > 1)
  <2>1. /\ front \in Seq(Seq(Content)) /\ Len(front) = k - 1
        /\ \A i \in 1 .. k - 1 : front[i] = l.heaps[i]
    BY FrontOK
  <2>2. PopBack(l) = [heaps |-> front, last |-> IF front = <<>> THEN 0 ELSE Len(Last(front))]
    BY <1>3 DEF PopBack
  <2>3. CASE front = <<>>
    BY <2>1, <2>2, <2>3, EmptySeq DEF ListOK, EntityList
  <2>4. CASE front # <<>>
    <3>1. Len(front) \in 1 .. k - 1 /\ Last(front) = l.heaps[k - 1]
      <4>1. Len(front) \in Nat /\ Len(front) # 0
        BY <2>1, <2>4, EmptyLen
      <4>2. Len(front) \in 1 .. k - 1 /\ Len(front) = k - 1
        <5> HIDE DEF front, k
        <5> QED
          BY <4>1, <2>1, <1>0
      <4> HIDE DEF front
      <4> QED
        BY <4>2, <2>1 DEF Last
    <3>2. Len(Last(front)) \in Nat \ {0}
      <4> HIDE DEF front, k
      <4>1. k - 1 \in 1 .. k
        BY <3>1, <1>0
      <4> QED
        BY <4>1, <3>1, <1>0
    <3>3. PopBack(l) = [heaps |-> front, last |-> Len(Last(front))]
      BY <2>2, <2>4
    <3>4. PopBack(l) \in EntityList
      BY <3>2, <3>3, <2>1 DEF EntityList
    <3>5. \A i \in 1 .. Len(front) : Len(front[i]) \in Nat \ {0}
      <4> HIDE DEF front
      <4> TAKE i \in 1 .. Len(front)
      <4>1. i \in 1 .. k - 1 /\ i \in 1 .. k
        BY <2>1, <1>0
      <4>2. front[i] = l.heaps[i]
        BY <4>1, <2>1
      <4> QED
        BY <4>1, <4>2, <1>0
    <3>6. Len(Last(front)) \in 1 .. Len(Last(front))
      BY <3>2
    <3> HIDE DEF front
    <3> QED
      BY <2>4, <3>3, <3>4, <3>5, <3>6 DEF ListOK
  <2> QED
    BY <2>3, <2>4
<1> QED
  BY <1>2, <1>3

\* Popping the back gives up that slot and no other.
LEMMA PopBackSlots ==
  ASSUME NEW l, ListOK(l), l.heaps # <<>>
  PROVE  CutTo(PopBack(l), l) /\ Used(PopBack(l)) = Used(l) \ {Back(l)}
<1> DEFINE k == Len(l.heaps)
           new == PopBack(l)
<1>1. /\ k \in Nat \ {0} /\ k \in 1 .. k /\ l.last \in Nat \ {0}
      /\ HeapLen(l, k) = l.last
      /\ \A i \in 1 .. k : i # k => HeapLen(l, i) = Len(l.heaps[i])
      /\ \A i \in 1 .. k : HeapLen(l, i) \in Nat
  <2>1. k \in Nat /\ k # 0 /\ l.last \in Nat
    BY ListParts, EmptyLen
  <2>2. \A i \in 1 .. k : HeapLen(l, i) \in 1 .. Len(l.heaps[i]) /\ Len(l.heaps[i]) \in Nat
    BY UsedOf, ListParts
  <2> QED
    BY <2>1, <2>2 DEF HeapLen
<1>2. ListOK(new)
  BY PopBackOK
<1>3. \A p \in Used(l) : /\ p = <<p[1], p[2]>> /\ p[1] \in 1 .. k
                         /\ p[2] \in Nat \ {0} /\ (p[1] = k => p[2] <= l.last)
  <2> TAKE p \in Used(l)
  <2>1. p = <<p[1], p[2]>> /\ p[1] \in 1 .. k /\ p[2] \in 1 .. HeapLen(l, p[1])
    BY UsedOf
  <2> QED
    BY <2>1, <1>1
<1>4. Back(l) = <<k, l.last>> /\ Back(l) \in Used(l)
  BY BackOf DEF Back
<1>5. CASE l.last > 1
  <2> DEFINE b == <<k, l.last - 1>>
  <2>1. b \in Used(l)
    <3> HIDE DEF k
    <3> QED
      BY <1>1, <1>5, UsedOf DEF k
  <2>2. new = Cut(l, b[1], b[2])
    BY <1>5 DEF PopBack
  <2>3. CutTo(new, l) /\ Back(new) = b
    <3> HIDE DEF b, new
    <3> QED
      BY <2>1, <2>2, CutSlots
  <2>4. Used(new) = {p \in Used(l) : Before(p, b)}
    BY <2>3 DEF CutTo
  <2>5. \A p \in Used(l) : Before(p, b) <=> p # Back(l)
    <3> TAKE p \in Used(l)
    <3>1. p = Back(l) <=> p[1] = k /\ p[2] = l.last
      BY <1>3, <1>4
    <3>2. Before(p, b) <=> p[1] < k \/ (p[1] = k /\ p[2] <= l.last - 1)
      BY DEF Before
    <3> HIDE DEF k
    <3> QED
      BY <3>1, <3>2, <1>1, <1>3
  <2> HIDE DEF b, new
  <2> QED
    BY <2>3, <2>4, <2>5 DEF new
<1>6. CASE ~ (l.last > 1)
  <2> DEFINE front == Front(l.heaps)
  <2>1. /\ front \in Seq(Seq(Content)) /\ Len(front) = k - 1
        /\ \A i \in 1 .. k - 1 : front[i] = l.heaps[i]
    BY FrontOK
  <2>2. new = [heaps |-> front, last |-> IF front = <<>> THEN 0 ELSE Len(Last(front))]
    BY <1>6 DEF PopBack
  <2>3. new.heaps = front /\ Len(new.heaps) = k - 1
    BY <2>1, <2>2
  <2> HIDE DEF front
  <2>4. k - 1 > 0 => new.last = Len(l.heaps[k - 1])
    <3> SUFFICES ASSUME k - 1 > 0 PROVE new.last = Len(l.heaps[k - 1])
      OBVIOUS
    <3>1. front # <<>>
      BY <2>1, EmptyLen
    <3>2. Last(front) = l.heaps[k - 1]
      BY <2>1, <1>1 DEF Last
    <3> QED
      BY <3>1, <3>2, <2>2
  <2>5. k - 1 = 0 => new.last = 0
    <3> SUFFICES ASSUME k - 1 = 0 PROVE new.last = 0
      OBVIOUS
    <3>1. front = <<>>
      BY <2>1, EmptyLen
    <3> QED
      BY <3>1, <2>2
  <2> HIDE DEF new
  <2>6. \A i \in 1 .. k - 1 : HeapLen(new, i) = HeapLen(l, i)
    <3> TAKE i \in 1 .. k - 1
    <3>1. i \in 1 .. k /\ i # k /\ new.heaps[i] = l.heaps[i]
      BY <2>1, <2>3, <1>1
    <3>2. HeapLen(l, i) = Len(l.heaps[i])
      BY <3>1, <1>1
    <3>3. HeapLen(new, i) = IF i = k - 1 THEN new.last ELSE Len(l.heaps[i])
      BY <3>1, <2>3 DEF HeapLen
    <3>4. i = k - 1 => new.last = Len(l.heaps[i])
      BY <2>4, <1>1
    <3> HIDE DEF k
    <3> QED
      BY <3>2, <3>3, <3>4
  <2>7. \A i, s : <<i, s>> \in Used(new) <=> <<i, s>> \in Used(l) /\ i # k
    <3> TAKE i, s
    <3>1. <<i, s>> \in Used(new) <=> i \in 1 .. k - 1 /\ s \in 1 .. HeapLen(new, i)
      BY <1>2, <2>3, UsedOf
    <3>2. <<i, s>> \in Used(l) <=> i \in 1 .. k /\ s \in 1 .. HeapLen(l, i)
      BY UsedOf
    <3>3. i \in 1 .. k - 1 <=> i \in 1 .. k /\ i # k
      BY <1>1
    <3> HIDE DEF k
    <3> QED
      BY <3>1, <3>2, <3>3, <2>6
  <2>8. \A p \in Used(l) : p[1] = k <=> p = Back(l)
    <3> HIDE DEF k
    <3> QED
      BY <1>1, <1>3, <1>4, <1>6
  <2>9. Used(new) = Used(l) \ {Back(l)}
    <3>1. \A p \in Used(new) : p = <<p[1], p[2]>>
      BY <1>2, UsedOf
    <3> HIDE DEF k
    <3> QED
      BY <3>1, <2>7, <2>8, <1>3
  <2>10. Back(new) = <<k - 1, new.last>>
    BY <2>3 DEF Back
  <2>11. Before(Back(new), Back(l))
    BY <2>10, <1>4, <1>1 DEF Before
  <2>12. \A p \in Used(new) : Before(p, Back(new))
    BY <1>2, BackOf
  <2>13. ~ Before(Back(l), Back(new))
    BY <2>10, <1>4, <1>1 DEF Before
  <2>14. \A p \in Used(new) : At(new, p) = At(l, p)
    <3> TAKE p \in Used(new)
    <3>1. p[1] \in 1 .. k - 1
      BY <1>2, <2>3, UsedOf
    <3> QED
      BY <3>1, <2>1, <2>3 DEF At
  <2>15. Used(new) = {p \in Used(l) : Before(p, Back(new))}
    BY <2>9, <2>12, <2>13
  <2> QED
    BY <1>2, <2>9, <2>11, <2>14, <2>15 DEF CutTo, new
<1> QED
  BY <1>5, <1>6

\* Pushing an entity keeps a list well formed, and not empty.
LEMMA PushBackOK ==
  ASSUME NEW l, ListOK(l), NEW e \in Content
  PROVE  ListOK(PushBack(l, e)) /\ PushBack(l, e).heaps # <<>>
<1> DEFINE k == Len(l.heaps)
           lastCap == IF l.heaps = <<>> THEN 0 ELSE Len(Last(l.heaps))
           newCap == IF 2 * lastCap > HeapMin THEN 2 * lastCap ELSE HeapMin
           newHeap == [s \in 1 .. newCap |-> IF s = 1 THEN e ELSE PLACEHOLDER]
           new == PushBack(l, e)
<1>0. /\ l.heaps \in Seq(Seq(Content)) /\ k \in Nat /\ l.last \in Nat
      /\ \A i \in 1 .. k : l.heaps[i] \in Seq(Content) /\ Len(l.heaps[i]) \in Nat \ {0}
  BY ListParts
<1>1. lastCap \in Nat /\ l.last <= lastCap
  <2>1. l.heaps # <<>> => k \in 1 .. k
    BY <1>0, EmptySeq
  <2>2. l.heaps # <<>> => Len(Last(l.heaps)) \in Nat
    BY <2>1, <1>0 DEF Last
  <2> QED
    BY <2>2, <1>0 DEF ListOK
<1>2. newCap \in Nat \ {0}
  BY <1>1, DatabaseAssumption
<1>3. newHeap \in Seq(Content) /\ Len(newHeap) = newCap
  <2>1. newHeap \in [1 .. newCap -> Content]
    BY DEF Content
  <2> QED
    BY <2>1, <1>2
<1>4. CASE l.last = lastCap
  <2>1. new = [heaps |-> Append(l.heaps, newHeap), last |-> 1]
    BY <1>4 DEF PushBack
  <2> DEFINE hs == Append(l.heaps, newHeap)
  <2> HIDE DEF newHeap, newCap, lastCap
  <2>2. /\ hs \in Seq(Seq(Content)) /\ hs # <<>> /\ Len(hs) = k + 1
        /\ \A i \in 1 .. k : hs[i] = l.heaps[i]
        /\ hs[k + 1] = newHeap
    <3>1. newHeap \in Seq(Content)
      BY <1>3
    <3> DEFINE SC == Seq(Content)
    <3>2. l.heaps \in Seq(SC) /\ newHeap \in SC
      BY <3>1, <1>0
    <3> HIDE DEF SC
    <3>3. /\ hs \in Seq(SC) /\ hs # <<>> /\ Len(hs) = Len(l.heaps) + 1
          /\ \A i \in 1 .. Len(l.heaps) : hs[i] = l.heaps[i]
          /\ hs[Len(l.heaps) + 1] = newHeap
      BY <3>2, AppendProperties
    <3> QED
      BY <3>3 DEF SC
  <2> HIDE DEF hs
  <2>3. Last(hs) = newHeap
    BY <2>2 DEF Last
  <2>4. \A i \in 1 .. k + 1 : Len(hs[i]) \in Nat \ {0}
    <3>1. \A i \in 1 .. k : Len(hs[i]) \in Nat \ {0}
      BY <2>2, <1>0
    <3>2. Len(hs[k + 1]) \in Nat \ {0}
      BY <2>2, <1>2, <1>3
    <3> QED
      BY <3>1, <3>2, <1>0
  <2>5. new = [heaps |-> hs, last |-> 1] /\ new \in EntityList
    BY <2>1, <2>2 DEF hs, EntityList
  <2> HIDE DEF new
  <2>6. 1 \in 1 .. Len(Last(hs))
    BY <2>3, <1>2, <1>3
  <2> QED
    BY <2>2, <2>4, <2>5, <2>6 DEF ListOK, new
<1>5. CASE l.last # lastCap
  <2>1. l.heaps # <<>> /\ k \in 1 .. k
    BY <1>5, <1>0, EmptySeq DEF ListOK
  <2> DEFINE set == SetAt(l, k, l.last + 1, e)
  <2>2. /\ ListOK(set) /\ Len(set.heaps) = k
        /\ \A i \in 1 .. k : Len(set.heaps[i]) = Len(l.heaps[i])
    <3> HIDE DEF newHeap, newCap, lastCap, new
    <3>1. ListOK(set)
      BY SetAtOK
    <3>2. Len(set.heaps) = Len(l.heaps)
      BY SetAtOK
    <3>3. \A i \in 1 .. Len(l.heaps) : Len(set.heaps[i]) = Len(l.heaps[i])
      BY SetAtOK
    <3> QED
      BY <3>1, <3>2, <3>3
  <2>3. new = [heaps |-> set.heaps, last |-> l.last + 1]
    BY <1>5, <2>1 DEF PushBack
  <2> HIDE DEF set, new
  <2>4. set.heaps \in Seq(Seq(Content)) /\ set.heaps # <<>>
    BY <2>1, <2>2, ListParts, EmptySeq
  <2>5. Last(set.heaps) = set.heaps[k] /\ Last(l.heaps) = l.heaps[k]
    BY <2>2 DEF Last
  <2>6. Len(Last(set.heaps)) = lastCap
    BY <2>1, <2>2, <2>5
  <2>7. l.last + 1 \in 1 .. Len(Last(set.heaps))
    BY <2>6, <1>0, <1>1, <1>5
  <2> QED
    BY <2>2, <2>3, <2>4, <2>7, <1>0 DEF ListOK, EntityList, new
<1> QED
  BY <1>4, <1>5
\* Pushing an entity takes one new slot, at the back.
LEMMA PushBackSlots ==
  ASSUME NEW l, ListOK(l), NEW e \in Content
  PROVE  /\ Used(PushBack(l, e)) = Used(l) \cup {Back(PushBack(l, e))}
         /\ Back(PushBack(l, e)) \notin Used(l)
         /\ At(PushBack(l, e), Back(PushBack(l, e))) = e
         /\ \A p \in Used(l) : At(PushBack(l, e), p) = At(l, p)
<1> DEFINE k == Len(l.heaps)
           lastCap == IF l.heaps = <<>> THEN 0 ELSE Len(Last(l.heaps))
           new == PushBack(l, e)
<1>1. /\ k \in Nat /\ l.last \in Nat
      /\ \A i \in 1 .. k : i # k => HeapLen(l, i) = Len(l.heaps[i])
      /\ HeapLen(l, k) = l.last
      /\ \A i \in 1 .. k : Len(l.heaps[i]) \in Nat \ {0}
      /\ DOMAIN l.heaps = 1 .. k
  BY ListParts DEF HeapLen
<1>2. ListOK(new) /\ new.heaps # <<>>
  BY PushBackOK
<1>3. \A p \in Used(l) : /\ p = <<p[1], p[2]>> /\ p[1] \in 1 .. k
                         /\ p[2] \in 1 .. HeapLen(l, p[1]) /\ p[2] \in 1 .. Len(l.heaps[p[1]])
  <2> TAKE p \in Used(l)
  <2>1. p = <<p[1], p[2]>> /\ p[1] \in 1 .. k /\ p[2] \in 1 .. HeapLen(l, p[1])
    BY UsedOf
  <2>2. HeapLen(l, p[1]) \in 1 .. Len(l.heaps[p[1]]) /\ Len(l.heaps[p[1]]) \in Nat
    BY <2>1, UsedOf, ListParts
  <2> QED
    BY <2>1, <2>2
<1>4. Back(new) \in Used(new)
  BY <1>2, BackOf
<1>5. \A p \in Used(new) : p = <<p[1], p[2]>>
  BY <1>2, UsedOf
<1>6. CASE l.last = lastCap
  <2>1. PICK heap \in Seq(Content) : new = [heaps |-> Append(l.heaps, heap), last |-> 1] /\ heap[1] = e
    <3> DEFINE newCap == IF 2 * lastCap > HeapMin THEN 2 * lastCap ELSE HeapMin
               newHeap == [s \in 1 .. newCap |-> IF s = 1 THEN e ELSE PLACEHOLDER]
    <3>1. new = [heaps |-> Append(l.heaps, newHeap), last |-> 1]
      BY <1>6 DEF PushBack
    <3>2. lastCap \in Nat
      BY <1>1, <1>6
    <3>3. newCap \in Nat \ {0}
      BY <3>2, DatabaseAssumption
    <3>4. newHeap \in [1 .. newCap -> Content] /\ newHeap[1] = e
      BY <3>3 DEF Content
    <3>5. newHeap \in Seq(Content)
      BY <3>3, <3>4
    <3> HIDE DEF newHeap
    <3> QED
      BY <3>1, <3>4, <3>5
  <2>2. /\ Len(new.heaps) = k + 1 /\ new.heaps[k + 1] = heap /\ new.last = 1
        /\ \A i \in 1 .. k : new.heaps[i] = l.heaps[i]
    <3> DEFINE SC == Seq(Content)
    <3>1. l.heaps \in Seq(SC) /\ heap \in SC
      BY ListParts
    <3> HIDE DEF SC
    <3>2. /\ Len(Append(l.heaps, heap)) = k + 1 /\ Append(l.heaps, heap)[k + 1] = heap
          /\ \A i \in 1 .. k : Append(l.heaps, heap)[i] = l.heaps[i]
      BY <3>1, AppendProperties
    <3> QED
      BY <3>2, <2>1
  <2>3. Back(new) = <<k + 1, 1>>
    BY <2>2 DEF Back
  <2> HIDE DEF new
  <2>4. \A i \in 1 .. k : HeapLen(new, i) = HeapLen(l, i)
    <3> TAKE i \in 1 .. k
    <3>1. HeapLen(new, i) = Len(l.heaps[i])
      BY <1>1, <2>2 DEF HeapLen
    <3>2. i = k => l.last = Len(l.heaps[i])
      <4> SUFFICES ASSUME i = k PROVE l.last = Len(l.heaps[i])
        OBVIOUS
      <4>1. l.heaps # <<>>
        BY <1>1, EmptyLen, ListParts
      <4> QED
        BY <4>1, <1>6 DEF Last
    <3> HIDE DEF k
    <3> QED
      BY <3>1, <3>2, <1>1
  <2>5. \A i, s : <<i, s>> \in Used(new) <=> <<i, s>> \in Used(l) \/ <<i, s>> = <<k + 1, 1>>
    <3> TAKE i, s
    <3>1. <<i, s>> \in Used(new) <=> i \in 1 .. k + 1 /\ s \in 1 .. HeapLen(new, i)
      BY <1>2, <2>2, UsedOf
    <3>2. <<i, s>> \in Used(l) <=> i \in 1 .. k /\ s \in 1 .. HeapLen(l, i)
      BY UsedOf
    <3>3. i \in 1 .. k + 1 <=> i \in 1 .. k \/ i = k + 1
      BY <1>1
    <3>4. HeapLen(new, k + 1) = 1
      BY <2>2 DEF HeapLen
    <3>5. k + 1 \notin 1 .. k
      BY <1>1
    <3> HIDE DEF k
    <3> QED
      BY <3>1, <3>2, <3>3, <3>4, <3>5, <2>4
  <2>6. Used(new) = Used(l) \cup {Back(new)}
    <3> HIDE DEF k
    <3> QED
      BY <1>3, <1>5, <2>3, <2>5
  <2>7. Back(new) \notin Used(l)
    BY <1>1, <1>3, <2>3
  <2>8. At(new, Back(new)) = e
    BY <2>1, <2>2, <2>3 DEF At
  <2>9. \A p \in Used(l) : At(new, p) = At(l, p)
    <3> HIDE DEF k
    <3> QED
      BY <1>3, <2>2 DEF At
  <2> QED
    BY <2>6, <2>7, <2>8, <2>9 DEF new
<1>7. CASE l.last # lastCap
  <2> DEFINE s1 == l.last + 1
             set == SetAt(l, k, s1, e)
  <2>1. l.heaps # <<>>
    BY <1>7 DEF ListOK
  <2>2. k \in 1 .. k /\ Last(l.heaps) = l.heaps[k]
    BY <2>1, <1>1, ListParts, EmptyLen DEF Last
  <2>3. s1 \in 1 .. Len(l.heaps[k])
    BY <2>1, <2>2, <1>1, <1>7 DEF ListOK
  <2>4. new = [heaps |-> set.heaps, last |-> s1]
    BY <1>7, <2>1 DEF PushBack
  <2>5. set.heaps = [l.heaps EXCEPT ![k] = [l.heaps[k] EXCEPT ![s1] = e]]
    BY Zenon DEF SetAt
  <2>6. Len(set.heaps) = k
    <3> HIDE DEF new
    <3> QED
      BY SetAtOK
  <2>7. \A i \in 1 .. k : Len(set.heaps[i]) = Len(l.heaps[i])
    <3> HIDE DEF new
    <3> QED
      BY SetAtOK
  <2> DEFINE heap == [l.heaps[k] EXCEPT ![s1] = e]
  <2>8. \A i \in 1 .. k : set.heaps[i] = IF i = k THEN heap ELSE l.heaps[i]
    <3> HIDE DEF heap
    <3> QED
      BY <2>5, <1>1 DEF heap
  <2>9. \A i \in 1 .. Len(l.heaps[k]) : heap[i] = IF i = s1 THEN e ELSE l.heaps[k][i]
    <3>1. DOMAIN l.heaps[k] = 1 .. Len(l.heaps[k])
      BY <2>2, ListParts
    <3> QED
      BY <3>1
  <2>10. new.heaps = set.heaps /\ new.last = s1 /\ Len(new.heaps) = k
    BY <2>4, <2>6
  <2> HIDE DEF set, heap, new
  <2>11. Back(new) = <<k, s1>>
    BY <2>10 DEF Back
  <2>12. \A i \in 1 .. k : HeapLen(new, i) = IF i = k THEN s1 ELSE HeapLen(l, i)
    BY <2>7, <2>10, <1>1 DEF HeapLen
  <2>13. \A i, s : <<i, s>> \in Used(new) <=> <<i, s>> \in Used(l) \/ <<i, s>> = <<k, s1>>
    <3> TAKE i, s
    <3>1. <<i, s>> \in Used(new) <=> i \in 1 .. k /\ s \in 1 .. HeapLen(new, i)
      BY <1>2, <2>10, UsedOf
    <3>2. <<i, s>> \in Used(l) <=> i \in 1 .. k /\ s \in 1 .. HeapLen(l, i)
      BY UsedOf
    <3>3. s \in 1 .. s1 <=> s \in 1 .. l.last \/ s = s1
      BY <1>1
    <3> HIDE DEF k, s1
    <3> QED
      BY <3>1, <3>2, <3>3, <2>2, <2>12, <1>1
  <2>14. Used(new) = Used(l) \cup {Back(new)}
    <3> HIDE DEF k, s1
    <3> QED
      BY <1>3, <1>5, <2>11, <2>13
  <2>15. Back(new) \notin Used(l)
    <3>1. <<k, s1>> \in Used(l) => s1 \in 1 .. l.last
      <4> HIDE DEF s1, k
      <4> QED
        BY <1>1, UsedOf
    <3> QED
      BY <3>1, <2>11, <1>1
  <2>16. At(new, Back(new)) = e
    <3> HIDE DEF k, s1
    <3> QED
      BY <2>2, <2>3, <2>8, <2>9, <2>10, <2>11 DEF At
  <2>17. \A p \in Used(l) : At(new, p) = At(l, p)
    <3> TAKE p \in Used(l)
    <3>1. p # <<k, s1>>
      BY <2>11, <2>15
    <3> HIDE DEF k, s1
    <3> QED
      BY <3>1, <1>3, <2>8, <2>9, <2>10 DEF At
  <2> QED
    BY <2>14, <2>15, <2>16, <2>17 DEF new
<1> QED
  BY <1>6, <1>7
\* Moving the back into another slot gives up the back, and changes that slot only.
LEMMA VacatedSlots ==
  ASSUME NEW l, ListOK(l), NEW p \in Used(l)
  PROVE  /\ ListOK(Vacated(l, p[1], p[2]))
         /\ Before(Back(Vacated(l, p[1], p[2])), Back(l))
         /\ Used(Vacated(l, p[1], p[2])) = {q \in Used(l) : Before(q, Back(Vacated(l, p[1], p[2])))}
         /\ Used(Vacated(l, p[1], p[2])) = Used(l) \ {Back(l)}
         /\ \A q \in Used(l) \ {Back(l)} :
              At(Vacated(l, p[1], p[2]), q) = IF q = p THEN At(l, Back(l)) ELSE At(l, q)
<1> DEFINE filler == At(l, Back(l))
           set == SetAt(l, p[1], p[2], filler)
           new == PopBack(set)
<1>1. l.heaps # <<>> /\ Back(l) \in Used(l)
  BY BackOf
<1>2. filler \in Content
  BY <1>1, UsedOf
<1> HIDE DEF filler
<1>3. ListOK(set)
  BY <1>2, SetAtSlots
<1>4. Back(set) = Back(l)
  BY <1>2, SetAtSlots
<1>5. Used(set) = Used(l)
  BY <1>2, SetAtSlots
<1>6. \A q \in Used(l) : At(set, q) = IF q = p THEN filler ELSE At(l, q)
  BY <1>2, SetAtSlots
<1> HIDE DEF set
<1>7. set.heaps # <<>>
  BY <1>1, <1>3, <1>5, BackOf
<1>8. CutTo(new, set) /\ Used(new) = Used(l) \ {Back(l)}
  BY <1>3, <1>4, <1>5, <1>7, PopBackSlots
<1>9. Vacated(l, p[1], p[2]) = new
  BY DEF Vacated, Back, new, set, filler
<1> HIDE DEF new
<1> QED
  BY <1>4, <1>5, <1>6, <1>8, <1>9 DEF CutTo, filler

\* Slots are ordered: a nonempty set of slots in use has a last one.
LEMMA LastSlot ==
  ASSUME NEW l, ListOK(l), NEW X \in SUBSET Used(l), X # {}
  PROVE  \E b \in X : \A q \in X : Before(q, b)
<1> DEFINE H == {p[1] : p \in X}
<1>1. \A p \in X : /\ p = <<p[1], p[2]>> /\ p[1] \in 1 .. Len(l.heaps) /\ p[2] \in 1 .. HeapLen(l, p[1])
  BY UsedOf
<1>2. Len(l.heaps) \in Nat /\ \A i \in 1 .. Len(l.heaps) : HeapLen(l, i) \in Nat
  <2>1. \A i \in 1 .. Len(l.heaps) : HeapLen(l, i) \in 1 .. Len(l.heaps[i]) /\ Len(l.heaps[i]) \in Nat
    BY UsedOf, ListParts
  <2> QED
    BY <2>1, ListParts
<1>3. PICK h \in H : \A i \in H : i <= h
  <2>1. H \in SUBSET Nat /\ \A i \in H : i <= Len(l.heaps)
    BY <1>1, <1>2
  <2>2. H # {}
    OBVIOUS
  <2> HIDE DEF H
  <2> QED
    BY <2>1, <2>2, <1>2, MaxExists
<1> DEFINE T == {p[2] : p \in {q \in X : q[1] = h}}
<1>4. PICK s \in T : \A j \in T : j <= s
  <2>1. HeapLen(l, h) \in Nat
    BY <1>1, <1>2
  <2>2. T \in SUBSET Nat /\ \A j \in T : j <= HeapLen(l, h)
    BY <1>1, <2>1
  <2>3. T # {}
    OBVIOUS
  <2> HIDE DEF T
  <2> QED
    BY <2>1, <2>2, <2>3, MaxExists
<1>5. PICK b \in X : b[1] = h /\ b[2] = s
  OBVIOUS
<1>6. ASSUME NEW q \in X
      PROVE  Before(q, b)
  <2>1. q[1] \in H /\ (q[1] = h => q[2] \in T)
    OBVIOUS
  <2>2. q[1] \in Nat /\ h \in Nat
    BY <1>1, <1>2, <1>5
  <2> HIDE DEF H, T
  <2> QED
    BY <2>1, <2>2, <1>3, <1>4, <1>5 DEF Before
<1> QED
  BY <1>6

\* Pruning gives up slots of dead entities only, and leaves an alive one at the back.
LEMMA PrunedSlots ==
  ASSUME NEW l, ListOK(l)
  PROVE  /\ CutTo(Pruned(l), l)
         /\ Pruned(l).heaps # <<>> => At(Pruned(l), Back(Pruned(l))) \in alive
         /\ \A p \in Used(l) : At(l, p) \in alive => p \in Used(Pruned(l))
<1> DEFINE survivors == {p \in Used(l) : At(l, p) \in alive}
<1>1. CASE survivors = {}
  <2>1. Pruned(l) = EmptyList
    BY <1>1 DEF Pruned
  <2>2. ListOK(EmptyList) /\ EmptyList.heaps = <<>> /\ EmptyList.last = 0
    BY EmptyListOK DEF EmptyList
  <2>3. Used(EmptyList) = {}
    BY <2>2, BackOf
  <2>4. Len(EmptyList.heaps) = 0
    BY <2>2, EmptySeq
  <2>5. Back(EmptyList) = <<0, 0>>
    BY <2>2, <2>4 DEF Back
  <2>6. Len(l.heaps) \in Nat /\ l.last \in Nat
    BY ListParts
  <2>7. Before(<<0, 0>>, Back(l))
    BY <2>6 DEF Before, Back
  <2>8. \A p \in Used(l) : ~ Before(p, <<0, 0>>)
    <3>1. \A p \in Used(l) : p[1] \in Nat \ {0}
      <4>1. \A p \in Used(l) : p[1] \in 1 .. Len(l.heaps)
        BY UsedOf
      <4> QED
        BY <4>1, <2>6
    <3> QED
      BY <3>1 DEF Before
  <2>9. CutTo(EmptyList, l)
    BY <2>2, <2>3, <2>5, <2>7, <2>8 DEF CutTo
  <2> QED
    BY <2>1, <2>2, <2>9, <1>1
<1>2. CASE survivors # {}
  <2> DEFINE back == CHOOSE p \in survivors : \A q \in survivors : Before(q, p)
  <2>1. \E p \in survivors : \A q \in survivors : Before(q, p)
    <3>1. survivors \in SUBSET Used(l)
      OBVIOUS
    <3> HIDE DEF survivors
    <3> QED
      BY <3>1, <1>2, LastSlot
  <2>2. back \in survivors /\ \A q \in survivors : Before(q, back)
    <3> HIDE DEF survivors
    <3> QED
      BY <2>1
  <2>3. Pruned(l) = Cut(l, back[1], back[2])
    BY <1>2 DEF Pruned
  <2> HIDE DEF back
  <2>4. back \in Used(l) /\ At(l, back) \in alive
    BY <2>2
  <2>5. CutTo(Pruned(l), l) /\ Back(Pruned(l)) = back /\ Pruned(l).heaps # <<>>
    BY <2>3, <2>4, CutSlots
  <2>6. back \in Used(Pruned(l))
    BY <2>5, BackOf DEF CutTo
  <2>7. At(Pruned(l), back) = At(l, back)
    BY <2>5, <2>6 DEF CutTo
  <2>8. \A p \in Used(l) : At(l, p) \in alive => p \in Used(Pruned(l))
    BY <2>2, <2>5 DEF CutTo
  <2> QED
    BY <2>4, <2>5, <2>7, <2>8
<1> QED
  BY <1>1, <1>2

-----------------------------------------------------------------------------
(* The slots of a list which are not in use.                               *)

\* After its back, the last heap of a list holds placeholders.
TailReset(l) ==
  DebugAssertions /\ l.heaps # <<>> =>
    \A s \in 1 .. Len(l.heaps[Len(l.heaps)]) :
      s > l.last => l.heaps[Len(l.heaps)][s] = PLACEHOLDER

\* Every other heap is full, so these are all the slots not in use.
LEMMA TailIsSpare ==
  ASSUME NEW l, ListOK(l), TailReset(l), DebugAssertions,
         NEW h \in DOMAIN l.heaps, NEW s \in DOMAIN l.heaps[h], <<h, s>> \notin Used(l)
  PROVE  l.heaps[h][s] = PLACEHOLDER
<1>1. /\ Len(l.heaps) \in Nat /\ l.last \in Nat /\ h \in 1 .. Len(l.heaps)
      /\ Len(l.heaps[h]) \in Nat /\ s \in 1 .. Len(l.heaps[h])
  BY ListParts
<1>2. s \notin 1 .. HeapLen(l, h)
  BY <1>1, UsedOf
<1>3. h = Len(l.heaps) /\ s > l.last
  BY <1>1, <1>2 DEF HeapLen
<1>4. l.heaps # <<>>
  BY <1>1, ListParts, EmptyLen
<1> QED
  BY <1>1, <1>3, <1>4 DEF TailReset

\* A list is cut with the slots given up in its new last heap reset.
LEMMA CutTail ==
  ASSUME NEW l, ListOK(l), NEW h \in 1 .. Len(l.heaps), NEW n \in 1 .. Len(l.heaps[h])
  PROVE  TailReset(Cut(l, h, n))
<1> DEFINE kept == SubSeq(l.heaps, 1, h)
           reset == [s \in DOMAIN l.heaps[h] |-> IF s > n THEN PLACEHOLDER ELSE l.heaps[h][s]]
           new == Cut(l, h, n)
<1> SUFFICES ASSUME DebugAssertions PROVE TailReset(new)
  BY DEF TailReset
<1>1. /\ Len(l.heaps) \in Nat /\ DOMAIN l.heaps[h] = 1 .. Len(l.heaps[h])
      /\ l.heaps \in Seq(Seq(Content))
  BY ListParts
<1>2. h \in DOMAIN kept
  <2>1. \A i \in 1 .. h : l.heaps[i] \in Seq(Content)
    BY <1>1, ListParts
  <2>2. kept \in Seq(Seq(Content)) /\ Len(kept) = h
    BY <2>1, <1>1, SubSeqProperties
  <2> HIDE DEF kept
  <2> QED
    BY <2>2, <1>1, LenProperties
<1>3. new.heaps = [kept EXCEPT ![h] = reset] /\ new.last = n
  BY DEF Cut
<1>4. Len(new.heaps) = h /\ Len(new.heaps[h]) = Len(l.heaps[h])
  <2>1. FirstHeaps(new, l, h, n)
    BY CutOK
  <2> HIDE DEF new
  <2> QED
    BY <2>1, <1>1 DEF FirstHeaps
<1>5. new.heaps[h] = reset
  <2> HIDE DEF reset, kept, new
  <2> QED
    BY <1>2, <1>3
<1>6. \A s \in 1 .. Len(l.heaps[h]) : s > n => reset[s] = PLACEHOLDER
  BY <1>1
<1> HIDE DEF new, reset, kept
<1> QED
  BY <1>3, <1>4, <1>5, <1>6 DEF TailReset

\* So is a list which gives up its back: its last heap is cut, or full.
LEMMA PopBackTail ==
  ASSUME NEW l, ListOK(l), l.heaps # <<>>
  PROVE  TailReset(PopBack(l))
<1> DEFINE k == Len(l.heaps)
           front == Front(l.heaps)
<1>1. k \in Nat \ {0} /\ l.last \in 1 .. Len(l.heaps[k]) /\ Len(l.heaps[k]) \in Nat
  <2>1. k \in Nat \ {0}
    BY ListParts, EmptyLen
  <2> QED
    BY <2>1, ListParts DEF ListOK, Last
<1>2. CASE l.last > 1
  <2>1. k \in 1 .. k /\ l.last - 1 \in 1 .. Len(l.heaps[k])
    BY <1>1, <1>2
  <2>2. PopBack(l) = Cut(l, k, l.last - 1)
    BY <1>2 DEF PopBack
  <2> QED
    BY <2>1, <2>2, CutTail
<1>3. CASE ~ (l.last > 1)
  <2>1. PopBack(l) = [heaps |-> front, last |-> IF front = <<>> THEN 0 ELSE Len(Last(front))]
    BY <1>3 DEF PopBack
  <2>2. ASSUME front # <<>>
        PROVE  Len(front[Len(front)]) \in Nat
    <3>1. ListOK(PopBack(l)) /\ PopBack(l).heaps = front
      BY <2>1, PopBackOK
    <3> HIDE DEF front
    <3>2. Len(front) \in 1 .. Len(front)
      BY <2>2, <3>1, ListParts, EmptyLen
    <3> QED
      BY <3>1, <3>2, ListParts
  <2> HIDE DEF front
  <2> QED
    BY <2>1, <2>2 DEF TailReset, Last
<1> QED
  BY <1>2, <1>3

\* A list pruned is empty or cut.
LEMMA PrunedTail ==
  ASSUME NEW l, ListOK(l)
  PROVE  TailReset(Pruned(l))
<1> DEFINE survivors == {p \in Used(l) : At(l, p) \in alive}
           back == CHOOSE p \in survivors : \A q \in survivors : Before(q, p)
<1>1. CASE survivors = {}
  BY <1>1 DEF Pruned, EmptyList, TailReset
<1>2. CASE survivors # {}
  <2>1. back \in survivors
    <3>1. survivors \in SUBSET Used(l)
      OBVIOUS
    <3> HIDE DEF survivors
    <3> QED
      BY <3>1, <1>2, LastSlot
  <2>2. Pruned(l) = Cut(l, back[1], back[2])
    BY <1>2 DEF Pruned
  <2> HIDE DEF back
  <2>3. /\ back = <<back[1], back[2]>>
        /\ back[1] \in 1 .. Len(l.heaps) /\ back[2] \in 1 .. HeapLen(l, back[1])
    BY <2>1, UsedOf
  <2>4. HeapLen(l, back[1]) \in 1 .. Len(l.heaps[back[1]]) /\ Len(l.heaps[back[1]]) \in Nat
    BY <2>3, UsedOf, ListParts
  <2>5. back[2] \in 1 .. Len(l.heaps[back[1]])
    BY <2>3, <2>4
  <2> QED
    BY <2>2, <2>3, <2>5, CutTail
<1> QED
  BY <1>1, <1>2

\* A push takes the first spare slot, or a new heap of placeholders.
LEMMA PushBackTail ==
  ASSUME NEW l, ListOK(l), TailReset(l), NEW e \in Content
  PROVE  TailReset(PushBack(l, e))
<1> DEFINE k == Len(l.heaps)
           lastCap == IF l.heaps = <<>> THEN 0 ELSE Len(Last(l.heaps))
           newCap == IF 2 * lastCap > HeapMin THEN 2 * lastCap ELSE HeapMin
           newHeap == [s \in 1 .. newCap |-> IF s = 1 THEN e ELSE PLACEHOLDER]
           new == PushBack(l, e)
<1>1. /\ k \in Nat /\ l.last \in Nat /\ l.heaps \in Seq(Seq(Content)) /\ DOMAIN l.heaps = 1 .. k
      /\ l.heaps # <<>> => k \in 1 .. k /\ Len(l.heaps[k]) \in Nat \ {0}
  <2>1. l.heaps # <<>> => k \in 1 .. k
    BY ListParts, EmptyLen
  <2> QED
    BY <2>1, ListParts
<1>2. lastCap \in Nat
  BY <1>1 DEF Last
<1>3. CASE l.last = lastCap
  <2>1. newCap \in Nat \ {0}
    BY <1>2, DatabaseAssumption
  <2>2. new = [heaps |-> Append(l.heaps, newHeap), last |-> 1]
    BY <1>3 DEF PushBack
  <2> HIDE DEF newCap
  <2>3. newHeap \in Seq(Content) /\ Len(newHeap) = newCap
    <3>1. newHeap \in [1 .. newCap -> Content]
      BY DEF Content
    <3> QED
      BY <3>1, <2>1
  <2>4. \A s \in 1 .. newCap : s > 1 => newHeap[s] = PLACEHOLDER
    BY <2>1
  <2>5. Len(Append(l.heaps, newHeap)) = k + 1 /\ Append(l.heaps, newHeap)[k + 1] = newHeap
    <3> DEFINE SC == Seq(Content)
    <3>1. l.heaps \in Seq(SC) /\ newHeap \in SC
      BY <1>1, <2>3
    <3> HIDE DEF SC, newHeap
    <3> QED
      BY <3>1, AppendProperties
  <2> HIDE DEF newHeap, new
  <2> QED
    BY <2>2, <2>3, <2>4, <2>5 DEF TailReset, new
<1>4. CASE l.last # lastCap
  <2> DEFINE s1 == l.last + 1
             heap == [l.heaps[k] EXCEPT ![s1] = e]
  <2>1. l.heaps # <<>>
    BY <1>4 DEF ListOK
  <2>2. new = [heaps |-> SetAt(l, k, s1, e).heaps, last |-> s1]
    BY <1>4, <2>1 DEF PushBack
  <2>3. SetAt(l, k, s1, e).heaps = [l.heaps EXCEPT ![k] = heap]
    BY Zenon DEF SetAt
  <2>4. DOMAIN l.heaps[k] = 1 .. Len(l.heaps[k])
    BY <1>1, <2>1, ListParts
  <2>5. \A s \in 1 .. Len(l.heaps[k]) : heap[s] = IF s = s1 THEN e ELSE l.heaps[k][s]
    BY <2>4
  <2>6. /\ Len(SetAt(l, k, s1, e).heaps) = k
        /\ Len(SetAt(l, k, s1, e).heaps[k]) = Len(l.heaps[k])
    <3>1. Len(SetAt(l, k, s1, e).heaps) = Len(l.heaps)
      BY SetAtOK
    <3>2. \A i \in 1 .. Len(l.heaps) : Len(SetAt(l, k, s1, e).heaps[i]) = Len(l.heaps[i])
      BY SetAtOK
    <3> QED
      BY <3>1, <3>2, <1>1, <2>1
  <2> HIDE DEF heap, new
  <2>7. new.heaps[k] = heap /\ Len(new.heaps) = k /\ Len(new.heaps[k]) = Len(l.heaps[k]) /\ new.last = s1
    BY <2>1, <2>2, <2>3, <2>6, <1>1
  <2>8. \A s \in 1 .. Len(l.heaps[k]) : DebugAssertions /\ s > s1 => heap[s] = PLACEHOLDER
    BY <2>1, <2>5, <1>1 DEF TailReset
  <2> HIDE DEF s1, k
  <2>9. TailReset(new)
    BY <2>7, <2>8 DEF TailReset
  <2> QED
    BY <2>9 DEF new
<1> QED
  BY <1>3, <1>4

-----------------------------------------------------------------------------
(* The slots: SlotsMirror is inductive together with what is known of the  *)
(* entities waiting for their cleanup.                                     *)

SlotTypes ==
  /\ spawned \subseteq Entity
  /\ alive \subseteq spawned
  /\ info \in [Entity -> DbEntity]
  /\ list \in [Arch -> EntityList]
  /\ \A S \in Arch : ListOK(list[S])
  /\ dirty \in Seq(Entity)
  /\ dead \in Seq(DbDirtyDeadEntity)
  /\ pc \in {"idle", "dead", "alive", "delete", "panicked"}

\* Every dead entity waits once for its cleanup.  It is still in its slot, or the
\* slot has been given up because it was after the last alive one.
DeadOK ==
  /\ \A i \in DOMAIN dead :
       LET p == <<dead[i].heap, dead[i].slot>>
           l == list[dead[i].arch]
       IN /\ dead[i].entity \in spawned \ alive
          /\ p \in Used(l) => At(l, p) = dead[i].entity
          /\ p \notin Used(l) => ~ Before(p, Back(l))
  /\ \A i, j \in DOMAIN dead : dead[i].entity = dead[j].entity => i = j
  /\ pc \in {"alive", "delete", "panicked"} => dead = <<>>

\* The root archetype keeps no list.
RootUnlisted == Used(list[Root]) = {}

SlotInv == SlotTypes /\ SlotsMirror /\ DeadOK /\ RootUnlisted

\* An info with new indices is an info like the old one but for them.
LEMMA PlacedOK ==
  ASSUME NEW was \in DbEntity, NEW h \in Index, NEW s \in Index
  PROVE  /\ Placed(was, h, s) \in DbEntity
         /\ Placed(was, h, s).virt = was.virt /\ Placed(was, h, s).phys = was.phys
         /\ Placed(was, h, s).heap = h /\ Placed(was, h, s).slot = s
BY DEF Placed, DbEntity

\* The order of the slots is transitive.
LEMMA BeforeTransitive ==
  ASSUME NEW p, NEW q, NEW r,
         p[1] \in Nat, p[2] \in Nat, q[1] \in Nat, q[2] \in Nat, r[1] \in Nat, r[2] \in Nat,
         Before(p, q), Before(q, r)
  PROVE  Before(p, r)
BY DEF Before

\* Where an entity's location is what SlotsMirror says of it.
LEMMA MirrorOf ==
  ASSUME SlotTypes, SlotsMirror
  PROVE  /\ \A e \in alive :
              LET p == <<info[e].heap, info[e].slot>>
              IN info[e].phys # Root =>
                   /\ p \in Used(list[info[e].phys])
                   /\ At(list[info[e].phys], p) = e
         /\ \A S \in Arch : \A p \in Used(list[S]) :
              At(list[S], p) \in alive =>
                /\ info[At(list[S], p)].phys = S
                /\ <<info[At(list[S], p)].heap, info[At(list[S], p)].slot>> = p
         /\ \A S \in Arch : \A p \in Used(list[S]) :
              At(list[S], p) \notin alive =>
                \E i \in DOMAIN dead :
                  dead[i] = [entity |-> At(list[S], p), arch |-> S, heap |-> p[1], slot |-> p[2]]
BY DEF SlotsMirror, Items

\* Nothing is alive at first.
LEMMA SlotInit == Init => SlotInv
<1> SUFFICES ASSUME Init PROVE SlotInv
  OBVIOUS
<1>1. Used(EmptyList) = {}
  BY EmptyListOK, BackOf DEF EmptyList
<1>2. NewEntity \in DbEntity
  BY DEF NewEntity, DbEntity, Arch, Root, Index
<1>3. EmptyList \in EntityList
  BY EmptyListOK DEF ListOK
<1>4. SlotTypes
  BY <1>2, <1>3, EmptyListOK, EmptySeq DEF Init, SlotTypes
<1>5. SlotsMirror /\ RootUnlisted
  BY <1>1 DEF Init, SlotsMirror, RootUnlisted, Arch, Root
<1>6. DeadOK
  <2>1. DOMAIN dead = {}
    BY DEF Init
  <2> QED
    BY <2>1 DEF Init, DeadOK
<1> QED
  BY <1>4, <1>5, <1>6 DEF SlotInv

\* A new entity is in no list and not waiting for a cleanup: its id was never used.
LEMMA SlotSpawn ==
  ASSUME SlotInv, NEW e \in Entity, SpawnEntity(e)
  PROVE  SlotInv'
<1>1. /\ e \notin spawned /\ spawned' = spawned \cup {e} /\ alive' = alive \cup {e}
      /\ info' = [info EXCEPT ![e] = NewEntity]
      /\ list' = list /\ dirty' = dirty /\ dead' = dead /\ pc' = pc
  BY DEF SpawnEntity, flushVars
<1>2. SlotTypes /\ SlotsMirror /\ DeadOK /\ RootUnlisted
  BY DEF SlotInv
<1>3. NewEntity \in DbEntity /\ NewEntity.phys = Root
  BY DEF NewEntity, DbEntity, Arch, Root, Index
<1>4. \A f \in Entity : info'[f] = IF f = e THEN NewEntity ELSE info[f]
  BY <1>1, <1>2 DEF SlotTypes
<1>5. SlotTypes'
  BY <1>1, <1>2, <1>3 DEF SlotTypes
<1>6. DeadOK'
  BY <1>1, <1>2 DEF DeadOK
<1>7. SlotsMirror'
  <2>1. ASSUME NEW f \in alive', info'[f].phys # Root
        PROVE  LET p == <<info'[f].heap, info'[f].slot>>
                   l == list'[info'[f].phys]
               IN p \in Used(l) /\ At(l, p) = f
    <3>1. f \in alive /\ info'[f] = info[f]
      BY <1>1, <1>2, <1>3, <1>4, <2>1 DEF SlotTypes
    <3> QED
      BY <3>1, <1>1, <1>2, <2>1, MirrorOf
  <2>2. ASSUME NEW S \in Arch, NEW p \in Used(list'[S])
        PROVE  LET f == At(list'[S], p)
               IN IF f \in alive'
                    THEN info'[f].phys = S /\ <<info'[f].heap, info'[f].slot>> = p
                    ELSE [entity |-> f, arch |-> S, heap |-> p[1], slot |-> p[2]] \in Items(dead')
    <3> DEFINE f == At(list[S], p)
    <3>1. p \in Used(list[S]) /\ f = At(list'[S], p)
      BY <1>1
    <3>2. CASE f \in alive
      <4>1. info'[f] = info[f] /\ f \in alive'
        BY <3>2, <1>1, <1>2, <1>4 DEF SlotTypes
      <4> QED
        BY <4>1, <3>1, <3>2, <1>2, MirrorOf
    <3>3. CASE f \notin alive
      <4>1. PICK i \in DOMAIN dead : dead[i] = [entity |-> f, arch |-> S, heap |-> p[1], slot |-> p[2]]
        BY <3>1, <3>3, <1>2, MirrorOf
      <4>2. dead[i].entity \in spawned
        BY <1>2 DEF DeadOK
      <4>3. f \notin alive'
        BY <4>1, <4>2, <3>3, <1>1
      <4> QED
        BY <4>1, <4>3, <3>1, <1>1 DEF Items
    <3> QED
      BY <3>2, <3>3
  <2> QED
    BY <2>1, <2>2 DEF SlotsMirror
<1>8. RootUnlisted'
  BY <1>1, <1>2 DEF RootUnlisted
<1> QED
  BY <1>5, <1>6, <1>7, <1>8 DEF SlotInv

\* A step that leaves the slots and the dead entities alone keeps the invariant.
LEMMA SlotFrame ==
  ASSUME SlotInv, UNCHANGED <<spawned, alive, info, list, dead>>,
         dirty' \in Seq(Entity),
         pc' \in {"idle", "dead", "alive", "delete", "panicked"},
         pc' \in {"alive", "delete", "panicked"} => dead = <<>>
  PROVE  SlotInv'
<1>1. SlotTypes'
  BY DEF SlotInv, SlotTypes
<1>2. SlotsMirror'
  BY DEF SlotInv, SlotsMirror
<1>3. DeadOK'
  BY DEF SlotInv, DeadOK
<1>4. RootUnlisted'
  BY DEF SlotInv, RootUnlisted
<1> QED
  BY <1>1, <1>2, <1>3, <1>4 DEF SlotInv

\* A despawned entity with a slot waits for its cleanup in that slot.
LEMMA SlotDespawn ==
  ASSUME SlotInv, NEW e \in Entity, DespawnEntity(e)
  PROVE  SlotInv'
<1> DEFINE d == [entity |-> e, arch |-> info[e].phys, heap |-> info[e].heap, slot |-> info[e].slot]
<1>1. /\ pc = "idle" /\ e \in alive /\ alive' = alive \ {e}
      /\ info' = [info EXCEPT ![e] = NewEntity]
      /\ dead' = IF info[e].phys = Root THEN dead ELSE Append(dead, d)
      /\ spawned' = spawned /\ list' = list /\ dirty' = dirty /\ pc' = pc
  BY DEF DespawnEntity, Buried, BuryAs, flushVars
<1>2. SlotTypes /\ SlotsMirror /\ DeadOK /\ RootUnlisted
  BY DEF SlotInv
<1>3. NewEntity \in DbEntity
  BY DEF NewEntity, DbEntity, Arch, Root, Index
<1>4. \A f \in Entity : info'[f] = IF f = e THEN NewEntity ELSE info[f]
  BY <1>1, <1>2 DEF SlotTypes
<1>5. d \in DbDirtyDeadEntity /\ info[e].phys \in Arch
  <2>1. info[e] \in DbEntity
    BY <1>2 DEF SlotTypes
  <2> QED
    BY <2>1 DEF DbEntity, DbDirtyDeadEntity
<1>6. d.entity = e /\ d.arch = info[e].phys /\ d.heap = info[e].heap /\ d.slot = info[e].slot
  OBVIOUS
<1> HIDE DEF d
<1>7. dead \in Seq(DbDirtyDeadEntity) /\ Len(dead) \in Nat /\ DOMAIN dead = 1 .. Len(dead)
  BY <1>2, LenProperties DEF SlotTypes
<1>8. /\ dead' \in Seq(DbDirtyDeadEntity)
      /\ \A i \in DOMAIN dead : i \in DOMAIN dead' /\ dead'[i] = dead[i]
      /\ \A i \in DOMAIN dead' : i \notin DOMAIN dead => dead'[i] = d /\ i = Len(dead) + 1 /\ info[e].phys # Root
      /\ info[e].phys # Root => Len(dead) + 1 \in DOMAIN dead' /\ dead'[Len(dead) + 1] = d
  <2>1. CASE info[e].phys = Root
    BY <2>1, <1>1, <1>7
  <2>2. CASE info[e].phys # Root
    <3>1. /\ Append(dead, d) \in Seq(DbDirtyDeadEntity) /\ Len(Append(dead, d)) = Len(dead) + 1
          /\ \A i \in 1 .. Len(dead) : Append(dead, d)[i] = dead[i]
          /\ Append(dead, d)[Len(dead) + 1] = d
      BY <1>5, <1>7, AppendProperties
    <3>2. DOMAIN dead' = 1 .. Len(dead) + 1 /\ dead' = Append(dead, d)
      BY <2>2, <3>1, <1>1
    <3> QED
      BY <2>2, <3>1, <3>2, <1>7
  <2> QED
    BY <2>1, <2>2
<1>9. SlotTypes'
  BY <1>1, <1>2, <1>3, <1>8 DEF SlotTypes
<1>10. SlotsMirror'
  <2>1. ASSUME NEW f \in alive', info'[f].phys # Root
        PROVE  LET p == <<info'[f].heap, info'[f].slot>>
                   l == list'[info'[f].phys]
               IN p \in Used(l) /\ At(l, p) = f
    <3>1. f \in alive /\ info'[f] = info[f]
      BY <1>1, <1>2, <1>4 DEF SlotTypes
    <3> QED
      BY <3>1, <1>1, <1>2, <2>1, MirrorOf
  <2>2. ASSUME NEW S \in Arch, NEW p \in Used(list'[S])
        PROVE  LET f == At(list'[S], p)
               IN IF f \in alive'
                    THEN info'[f].phys = S /\ <<info'[f].heap, info'[f].slot>> = p
                    ELSE [entity |-> f, arch |-> S, heap |-> p[1], slot |-> p[2]] \in Items(dead')
    <3> DEFINE f == At(list[S], p)
    <3>1. p \in Used(list[S]) /\ f = At(list'[S], p)
      BY <1>1
    <3>2. CASE f \in alive /\ f # e
      <4>1. info'[f] = info[f] /\ f \in alive'
        BY <3>2, <1>1, <1>2, <1>4 DEF SlotTypes
      <4> QED
        BY <4>1, <3>1, <3>2, <1>2, MirrorOf
    <3>3. CASE f = e
      <4>1. info[e].phys = S /\ <<info[e].heap, info[e].slot>> = p
        BY <3>1, <3>3, <1>1, <1>2, MirrorOf
      <4>2. info[e].phys # Root
        BY <4>1, <3>1, <1>2 DEF RootUnlisted
      <4>3. d \in Items(dead') /\ f \notin alive'
        BY <4>2, <3>3, <1>1, <1>8 DEF Items
      <4>4. d = [entity |-> f, arch |-> S, heap |-> p[1], slot |-> p[2]]
        BY <4>1, <3>3 DEF d
      <4> QED
        BY <4>3, <4>4, <3>1
    <3>4. CASE f \notin alive
      <4>1. PICK i \in DOMAIN dead : dead[i] = [entity |-> f, arch |-> S, heap |-> p[1], slot |-> p[2]]
        BY <3>1, <3>4, <1>2, MirrorOf
      <4>2. dead'[i] = dead[i] /\ i \in DOMAIN dead' /\ f \notin alive'
        BY <3>4, <1>1, <1>8
      <4> QED
        BY <4>1, <4>2, <3>1 DEF Items
    <3> QED
      BY <3>2, <3>3, <3>4
  <2> QED
    BY <2>1, <2>2 DEF SlotsMirror
<1>11. DeadOK'
  <2>1. ASSUME NEW i \in DOMAIN dead'
        PROVE  LET p == <<dead'[i].heap, dead'[i].slot>>
                   l == list'[dead'[i].arch]
               IN /\ dead'[i].entity \in spawned' \ alive'
                  /\ p \in Used(l) => At(l, p) = dead'[i].entity
                  /\ p \notin Used(l) => ~ Before(p, Back(l))
    <3>1. CASE i \in DOMAIN dead
      <4>1. dead'[i] = dead[i]
        BY <3>1, <1>8
      <4>2. Back(list'[dead'[i].arch]) = Back(list[dead[i].arch])
        BY <4>1, <1>1
      <4> QED
        BY <3>1, <4>1, <4>2, <1>1, <1>2 DEF DeadOK
    <3>2. CASE i \notin DOMAIN dead
      <4>1. dead'[i] = d /\ info[e].phys # Root
        BY <3>2, <1>8
      <4>2. e \in spawned
        BY <1>1, <1>2 DEF SlotTypes
      <4>3. /\ <<info[e].heap, info[e].slot>> \in Used(list[info[e].phys])
            /\ At(list[info[e].phys], <<info[e].heap, info[e].slot>>) = e
        BY <4>1, <1>1, <1>2, MirrorOf
      <4> QED
        BY <4>1, <4>2, <4>3, <1>1, <1>6
    <3> QED
      BY <3>1, <3>2
  <2>2. \A i \in DOMAIN dead : dead[i].entity # e
    BY <1>1, <1>2 DEF DeadOK
  <2>3. ASSUME NEW i \in DOMAIN dead', NEW j \in DOMAIN dead', dead'[i].entity = dead'[j].entity
        PROVE  i = j
    BY <2>2, <2>3, <1>2, <1>6, <1>8 DEF DeadOK
  <2>4. pc' \notin {"alive", "delete", "panicked"}
    BY <1>1
  <2> QED
    BY <2>1, <2>3, <2>4 DEF DeadOK
<1>12. RootUnlisted'
  BY <1>1, <1>2 DEF RootUnlisted
<1> QED
  BY <1>9, <1>10, <1>11, <1>12 DEF SlotInv

\* Tagging and untagging change virtual archetypes only.
LEMMA SlotRetag ==
  ASSUME SlotInv, NEW e \in alive, NEW new \in Arch, NEW ar, NEW ex,
         pc = "idle", SetVirtual(e, new, ar, ex)
  PROVE  SlotInv'
<1>1. /\ info' = [info EXCEPT ![e] = [@ EXCEPT !.virt = new]]
      /\ dirty' = dirty \/ dirty' = Append(dirty, e)
      /\ spawned' = spawned /\ alive' = alive /\ list' = list /\ dead' = dead /\ pc' = pc
  BY DEF SetVirtual, flushVars
<1>2. SlotTypes /\ SlotsMirror /\ DeadOK /\ RootUnlisted
  BY DEF SlotInv
<1>3. e \in Entity /\ info[e] \in DbEntity
  BY <1>2 DEF SlotTypes
<1> DEFINE upd == [info[e] EXCEPT !.virt = new]
<1>4. upd \in DbEntity /\ upd.phys = info[e].phys /\ upd.heap = info[e].heap /\ upd.slot = info[e].slot
  BY <1>3 DEF DbEntity
<1>5. info' = [info EXCEPT ![e] = upd]
  BY <1>1, Zenon
<1> HIDE DEF upd
<1>6. info' \in [Entity -> DbEntity]
  BY <1>2, <1>4, <1>5 DEF SlotTypes
<1>7. \A f \in Entity : /\ info'[f].phys = info[f].phys
                        /\ info'[f].heap = info[f].heap /\ info'[f].slot = info[f].slot
  <2>1. info \in [Entity -> DbEntity]
    BY <1>2 DEF SlotTypes
  <2>2. \A f \in Entity : info'[f] = IF f = e THEN upd ELSE info[f]
    BY <2>1, <1>3, <1>5
  <2> QED
    BY <2>2, <1>4
<1>8. dirty' \in Seq(Entity)
  <2>1. dirty \in Seq(Entity)
    BY <1>2 DEF SlotTypes
  <2>2. Append(dirty, e) \in Seq(Entity)
    BY <2>1, <1>3, AppendProperties
  <2> QED
    BY <2>1, <2>2, <1>1
<1>9. SlotTypes'
  BY <1>1, <1>2, <1>6, <1>8 DEF SlotTypes
<1>10. SlotsMirror'
  <2>1. ASSUME NEW f \in alive', info'[f].phys # Root
        PROVE  LET p == <<info'[f].heap, info'[f].slot>>
                   l == list'[info'[f].phys]
               IN p \in Used(l) /\ At(l, p) = f
    <3>1. f \in alive /\ f \in Entity
      BY <1>1, <1>2 DEF SlotTypes
    <3> QED
      BY <3>1, <1>1, <1>2, <1>7, <2>1, MirrorOf
  <2>2. ASSUME NEW S \in Arch, NEW p \in Used(list'[S])
        PROVE  LET f == At(list'[S], p)
               IN IF f \in alive'
                    THEN info'[f].phys = S /\ <<info'[f].heap, info'[f].slot>> = p
                    ELSE [entity |-> f, arch |-> S, heap |-> p[1], slot |-> p[2]] \in Items(dead')
    <3> DEFINE f == At(list[S], p)
    <3>1. p \in Used(list[S]) /\ f = At(list'[S], p)
      BY <1>1
    <3>2. f \in alive => f \in Entity
      BY <1>2 DEF SlotTypes
    <3>3. CASE f \in alive
      BY <3>1, <3>2, <3>3, <1>1, <1>2, <1>7, MirrorOf
    <3>4. CASE f \notin alive
      <4>1. \E i \in DOMAIN dead : dead[i] = [entity |-> f, arch |-> S, heap |-> p[1], slot |-> p[2]]
        BY <3>1, <3>4, <1>2, MirrorOf
      <4> QED
        BY <4>1, <3>1, <3>4, <1>1 DEF Items
    <3> QED
      BY <3>3, <3>4
  <2> QED
    BY <2>1, <2>2 DEF SlotsMirror
<1>11. DeadOK' /\ RootUnlisted'
  BY <1>1, <1>2 DEF DeadOK, RootUnlisted
<1> QED
  BY <1>9, <1>10, <1>11 DEF SlotInv

\* What is left of a queue once its head is taken off.
LEMMA TailOf ==
  ASSUME NEW X, NEW s \in Seq(X), s # <<>>
  PROVE  /\ Tail(s) \in Seq(X)
         /\ Head(s) \in X /\ 1 \in DOMAIN s /\ Head(s) = s[1]
         /\ \A i \in DOMAIN Tail(s) : i + 1 \in DOMAIN s /\ i + 1 # 1 /\ Tail(s)[i] = s[i + 1]
         /\ \A i \in DOMAIN s : i # 1 => i - 1 \in DOMAIN Tail(s) /\ Tail(s)[i - 1] = s[i]
<1>1. Len(s) \in Nat \ {0} /\ DOMAIN s = 1 .. Len(s)
  BY EmptyLen, LenProperties
<1>2. /\ Tail(s) \in Seq(X) /\ Len(Tail(s)) = Len(s) - 1
      /\ \A i \in 1 .. Len(Tail(s)) : Tail(s)[i] = s[i + 1]
      /\ Head(s) \in X
  BY HeadTailProperties
<1>3. DOMAIN Tail(s) = 1 .. Len(s) - 1
  BY <1>2, LenProperties
<1> QED
  BY <1>1, <1>2, <1>3

\* The cleanup of one dead entity: the alive entity taken off the back of its list,
\* if any, records the slot it now fills.
LEMMA SlotFlushDead ==
  ASSUME SlotInv, FlushDead
  PROVE  SlotInv'
<1> DEFINE d == dead[1]
           S == d.arch
           p0 == <<d.heap, d.slot>>
           ls == list[S]
           l == Pruned(ls)
           filler == At(l, Back(l))
           filled == Vacated(l, p0[1], p0[2])
<1>1. SlotTypes /\ SlotsMirror /\ DeadOK /\ RootUnlisted
  BY DEF SlotInv
<1>2. /\ pc = "dead" /\ dead # <<>> /\ dead' = Tail(dead) /\ Head(dead) = d
      /\ spawned' = spawned /\ alive' = alive /\ dirty' = dirty /\ pc' = pc
  BY DEF FlushDead, entityVars
<1>3. d \in DbDirtyDeadEntity /\ 1 \in DOMAIN dead /\ dead' \in Seq(DbDirtyDeadEntity)
  BY <1>1, <1>2, TailOf DEF SlotTypes
<1>4. \A i \in DOMAIN dead' : i + 1 \in DOMAIN dead /\ i + 1 # 1 /\ dead'[i] = dead[i + 1]
  BY <1>1, <1>2, TailOf DEF SlotTypes
<1>5. \A i \in DOMAIN dead : i # 1 => i - 1 \in DOMAIN dead' /\ dead'[i - 1] = dead[i]
  BY <1>1, <1>2, TailOf DEF SlotTypes
<1>6. S \in Arch /\ d.heap \in Index /\ d.slot \in Index /\ d.entity \in spawned \ alive
  BY <1>1, <1>3 DEF DbDirtyDeadEntity, DeadOK
<1>7. ListOK(ls) /\ ls \in EntityList
  BY <1>1, <1>6 DEF SlotTypes
<1>8. CutTo(l, ls) /\ (l.heaps # <<>> => At(l, Back(l)) \in alive)
      /\ \A p \in Used(ls) : At(ls, p) \in alive => p \in Used(l)
  BY <1>7, PrunedSlots
<1>9. ListOK(l) /\ Before(Back(l), Back(ls)) /\ Used(l) = {p \in Used(ls) : Before(p, Back(l))}
      /\ \A p \in Used(l) : At(l, p) = At(ls, p)
  BY <1>8 DEF CutTo
<1>10. p0[1] = d.heap /\ p0[2] = d.slot /\ p0 = <<p0[1], p0[2]>>
  OBVIOUS
<1>11. \A m : ListOK(m) => Back(m)[1] \in Nat /\ Back(m)[2] \in Nat
  BY ListParts DEF Back
\* Where the dead entities are in the list, if they still are.
<1>12. ASSUME NEW i \in DOMAIN dead
       PROVE  LET p == <<dead[i].heap, dead[i].slot>>
              IN /\ dead[i] \in DbDirtyDeadEntity
                 /\ p[1] \in Nat /\ p[2] \in Nat
                 /\ p \in Used(list[dead[i].arch]) => At(list[dead[i].arch], p) = dead[i].entity
                 /\ p \notin Used(list[dead[i].arch]) => ~ Before(p, Back(list[dead[i].arch]))
  <2>1. dead[i] \in DbDirtyDeadEntity
    BY <1>1, LenProperties, ElementOfSeq DEF SlotTypes
  <2>2. dead[i].heap \in Nat /\ dead[i].slot \in Nat
    BY <2>1 DEF DbDirtyDeadEntity, Index
  <2> QED
    BY <2>1, <2>2, <1>1 DEF DeadOK
<1>13. ASSUME NEW i \in DOMAIN dead, i # 1
       PROVE  dead[i].entity # d.entity
  BY <1>1, <1>3, <1>13 DEF DeadOK
<1>14. p0 \in Used(ls) => At(ls, p0) = d.entity
  BY <1>3, <1>12
<1> DEFINE gone == ~ Before(p0, Back(l))
<1>15. gone <=> \/ d.heap = Len(l.heaps) /\ d.slot > l.last
                \/ d.heap > Len(l.heaps)
  <2>1. gone <=> ~ (d.heap < Len(l.heaps) \/ (d.heap = Len(l.heaps) /\ d.slot <= l.last))
    BY DEF Before, Back
  <2>2. d.heap \in Nat /\ d.slot \in Nat /\ Len(l.heaps) \in Nat /\ l.last \in Nat
    BY <1>6, <1>9, ListParts DEF Index
  <2> HIDE DEF d, l, gone
  <2> QED
    BY <2>1, <2>2
<1>16. IF gone
         THEN list' = [list EXCEPT ![S] = l] /\ info' = info
         ELSE /\ list' = [list EXCEPT ![S] = filled]
              /\ info' = [info EXCEPT ![filler] = Placed(@, d.heap, d.slot)]
  <2>1. IF \/ d.heap = Len(l.heaps) /\ d.slot > l.last
           \/ d.heap > Len(l.heaps)
          THEN list' = [list EXCEPT ![S] = l] /\ info' = info
          ELSE /\ list' = [list EXCEPT ![S] = filled]
               /\ info' = [info EXCEPT ![filler] = Placed(@, d.heap, d.slot)]
    BY <1>2, Zenon DEF FlushDead, Back, Vacated
  <2> HIDE DEF d, l, gone, filled, filler, S
  <2> QED
    BY <2>1, <1>15
\* Dead entities: those of other archetypes are not concerned.
<1>17. ASSUME NEW n, list' = [list EXCEPT ![S] = n],
              \A i \in DOMAIN dead : i # 1 /\ dead[i].arch = S =>
                LET p == <<dead[i].heap, dead[i].slot>>
                IN /\ p \in Used(n) => At(n, p) = dead[i].entity
                   /\ p \notin Used(n) => ~ Before(p, Back(n))
       PROVE  DeadOK'
  <2>1. ASSUME NEW i \in DOMAIN dead'
        PROVE  LET p == <<dead'[i].heap, dead'[i].slot>>
                   m == list'[dead'[i].arch]
               IN /\ dead'[i].entity \in spawned' \ alive'
                  /\ p \in Used(m) => At(m, p) = dead'[i].entity
                  /\ p \notin Used(m) => ~ Before(p, Back(m))
    <3> DEFINE c == dead[i + 1]
               p == <<c.heap, c.slot>>
    <3>1. i + 1 \in DOMAIN dead /\ i + 1 # 1 /\ dead'[i] = c
      BY <1>4
    <3>2. c.entity \in spawned \ alive /\ c \in DbDirtyDeadEntity
      BY <3>1, <1>1, <1>12 DEF DeadOK
    <3>3. /\ p \in Used(list[c.arch]) => At(list[c.arch], p) = c.entity
          /\ p \notin Used(list[c.arch]) => ~ Before(p, Back(list[c.arch]))
      BY <3>1, <1>12
    <3>4. c.arch = S => /\ p \in Used(n) => At(n, p) = c.entity
                        /\ p \notin Used(n) => ~ Before(p, Back(n))
      BY <3>1, <1>17
    <3>5. c.arch \in Arch
      BY <3>2 DEF DbDirtyDeadEntity
    <3>6. list'[c.arch] = IF c.arch = S THEN n ELSE list[c.arch]
      BY <3>5, <1>1, <1>17 DEF SlotTypes
    <3> HIDE DEF c, p, S
    <3> QED
      BY <3>1, <3>2, <3>3, <3>4, <3>6, <1>2 DEF p
  <2>2. ASSUME NEW i \in DOMAIN dead', NEW j \in DOMAIN dead', dead'[i].entity = dead'[j].entity
        PROVE  i = j
    <3>1. i + 1 = j + 1
      BY <2>2, <1>4, <1>1 DEF DeadOK
    <3>2. i \in Nat /\ j \in Nat
      BY <1>3, LenProperties
    <3> QED
      BY <3>1, <3>2
  <2>3. pc' \notin {"alive", "delete", "panicked"}
    BY <1>2
  <2> QED
    BY <2>1, <2>2, <2>3 DEF DeadOK
<1>18. ASSUME NEW n, list' = [list EXCEPT ![S] = n], Used(n) \subseteq Used(ls)
       PROVE  RootUnlisted'
  BY <1>1, <1>18 DEF RootUnlisted, SlotTypes, Arch, Root
<1>19. CASE gone
  <2>1. list' = [list EXCEPT ![S] = l] /\ info' = info
    BY <1>16, <1>19
  <2>2. \A T \in Arch : list'[T] = IF T = S THEN l ELSE list[T]
    BY <2>1, <1>1 DEF SlotTypes
  <2>3. ~ Before(p0, Back(l)) /\ p0 \notin Used(l)
    BY <1>9, <1>19
  <2>4. SlotTypes'
    <3>1. l \in EntityList
      BY <1>9 DEF ListOK
    <3> HIDE DEF l
    <3> QED
      BY <2>1, <2>2, <3>1, <1>1, <1>2, <1>3, <1>9 DEF SlotTypes
  <2>5. DeadOK'
    <3>1. ASSUME NEW i \in DOMAIN dead, i # 1, dead[i].arch = S
          PROVE  LET p == <<dead[i].heap, dead[i].slot>>
                 IN /\ p \in Used(l) => At(l, p) = dead[i].entity
                    /\ p \notin Used(l) => ~ Before(p, Back(l))
      <4> DEFINE p == <<dead[i].heap, dead[i].slot>>
      <4>1. /\ p[1] \in Nat /\ p[2] \in Nat
            /\ p \in Used(ls) => At(ls, p) = dead[i].entity
            /\ p \notin Used(ls) => ~ Before(p, Back(ls))
        BY <3>1, <1>12
      <4> HIDE DEF p, l, ls, S
      <4>2. Before(p, Back(l)) => Before(p, Back(ls))
        BY <4>1, <1>7, <1>9, <1>11, BeforeTransitive
      <4> QED
        BY <4>1, <4>2, <1>9 DEF p
    <3> HIDE DEF l, S
    <3> QED
      BY <2>1, <3>1, <1>17
  <2>6. SlotsMirror'
    <3>1. ASSUME NEW f \in alive', info'[f].phys # Root
          PROVE  LET p == <<info'[f].heap, info'[f].slot>>
                     m == list'[info'[f].phys]
                 IN p \in Used(m) /\ At(m, p) = f
      <4> DEFINE p == <<info[f].heap, info[f].slot>>
                 T == info[f].phys
      <4>1. f \in alive /\ T \in Arch /\ p \in Used(list[T]) /\ At(list[T], p) = f
        <5>1. f \in alive /\ info[f] \in DbEntity /\ info[f].phys # Root
          BY <2>1, <3>1, <1>1, <1>2 DEF SlotTypes
        <5> QED
          BY <5>1, <1>1, MirrorOf DEF DbEntity
      <4>2. T = S => p \in Used(l) /\ At(l, p) = f
        BY <4>1, <1>8, <1>9
      <4> HIDE DEF p, l, S, T
      <4> QED
        BY <4>1, <4>2, <2>1, <2>2 DEF p, T
    <3>2. ASSUME NEW T \in Arch, NEW p \in Used(list'[T])
          PROVE  LET f == At(list'[T], p)
                 IN IF f \in alive'
                      THEN info'[f].phys = T /\ <<info'[f].heap, info'[f].slot>> = p
                      ELSE [entity |-> f, arch |-> T, heap |-> p[1], slot |-> p[2]] \in Items(dead')
      <4> DEFINE f == At(list[T], p)
      <4>1. p \in Used(list[T]) /\ f = At(list'[T], p) /\ (T = S => p # p0)
        BY <2>2, <2>3, <1>9
      <4>2. CASE f \in alive
        BY <4>1, <4>2, <2>1, <1>1, <1>2, MirrorOf
      <4>3. CASE f \notin alive
        <5>1. PICK i \in DOMAIN dead : dead[i] = [entity |-> f, arch |-> T, heap |-> p[1], slot |-> p[2]]
          BY <4>1, <4>3, <1>1, MirrorOf
        <5>2. p = <<p[1], p[2]>>
          BY <4>1, <1>1, UsedOf DEF SlotTypes
        <5>3. i # 1
          BY <4>1, <5>1, <5>2
        <5> QED
          <6> DEFINE r == [entity |-> f, arch |-> T, heap |-> p[1], slot |-> p[2]]
          <6> HIDE DEF r
          <6>1. r \in Items(dead')
            BY <5>1, <5>3, <1>5 DEF Items, r
          <6>2. At(list'[T], p) = f /\ f \notin alive'
            BY <4>1, <4>3, <1>2
          <6> QED
            BY <6>1, <6>2 DEF r
      <4> QED
        BY <4>2, <4>3
    <3> QED
      BY <3>1, <3>2 DEF SlotsMirror
  <2>7. RootUnlisted'
    BY <2>1, <1>9, <1>18
  <2> QED
    BY <2>4, <2>5, <2>6, <2>7 DEF SlotInv
<1>20. CASE ~ gone
  <2>1. /\ list' = [list EXCEPT ![S] = filled]
        /\ info' = [info EXCEPT ![filler] = Placed(@, d.heap, d.slot)]
    BY <1>16, <1>20
  <2>2. p0 \in Used(l) /\ p0 \in Used(ls)
    <3>1. p0[1] \in Nat /\ p0[2] \in Nat /\ Before(p0, Back(l))
      BY <1>6, <1>20 DEF Index
    <3> HIDE DEF p0, l, ls
    <3>2. Before(p0, Back(ls))
      BY <3>1, <1>7, <1>9, <1>11, BeforeTransitive
    <3>3. p0 \in Used(ls)
      BY <3>2, <1>3, <1>12 DEF p0, ls
    <3> QED
      BY <3>1, <3>3, <1>9
  <2>3. At(l, p0) = d.entity /\ At(ls, p0) = d.entity /\ d.entity \notin alive
    BY <2>2, <1>6, <1>9, <1>14
  <2>4. filler \in alive /\ Back(l) \in Used(l) /\ Back(l) \in Used(ls) /\ filler = At(ls, Back(l)) /\ p0 # Back(l)
    <3>1. l.heaps # <<>> /\ Back(l) \in Used(l)
      BY <2>2, <1>9, BackOf
    <3>2. filler \in alive
      BY <3>1, <1>8
    <3> QED
      BY <3>1, <3>2, <2>3, <1>9
  <2>5. /\ filler \in Entity /\ info[filler] \in DbEntity
        /\ info[filler].phys = S /\ <<info[filler].heap, info[filler].slot>> = Back(l)
    BY <2>4, <1>1, <1>6, MirrorOf DEF SlotTypes
  <2> DEFINE put == Placed(info[filler], d.heap, d.slot)
  <2>6. put \in DbEntity /\ put.phys = S /\ <<put.heap, put.slot>> = p0
    BY <2>5, <1>6, PlacedOK
  <2>7. info' = [info EXCEPT ![filler] = put]
    BY <2>1
  <2>8. /\ ListOK(filled)
        /\ Before(Back(filled), Back(l))
        /\ Used(filled) = {q \in Used(l) : Before(q, Back(filled))}
        /\ Used(filled) = Used(l) \ {Back(l)}
        /\ \A q \in Used(l) \ {Back(l)} : At(filled, q) = IF q = p0 THEN filler ELSE At(l, q)
    <3> HIDE DEF l, p0
    <3> QED
      BY <2>2, <1>9, VacatedSlots
  <2> HIDE DEF put, filler, filled
  <2>9. \A f \in Entity : info'[f] = IF f = filler THEN put ELSE info[f]
    BY <2>7, <1>1 DEF SlotTypes
  <2>10. \A T \in Arch : list'[T] = IF T = S THEN filled ELSE list[T]
    BY <2>1, <1>1 DEF SlotTypes
  <2>11. SlotTypes'
    <3>1. filled \in EntityList
      BY <2>8 DEF ListOK
    <3>2. info' \in [Entity -> DbEntity]
      BY <2>6, <2>7, <1>1 DEF SlotTypes
    <3> HIDE DEF S
    <3> QED
      BY <2>1, <2>8, <2>10, <3>1, <3>2, <1>1, <1>2, <1>3 DEF SlotTypes
  <2>12. DeadOK'
    <3>1. ASSUME NEW i \in DOMAIN dead, i # 1, dead[i].arch = S
          PROVE  LET p == <<dead[i].heap, dead[i].slot>>
                 IN /\ p \in Used(filled) => At(filled, p) = dead[i].entity
                    /\ p \notin Used(filled) => ~ Before(p, Back(filled))
      <4> DEFINE p == <<dead[i].heap, dead[i].slot>>
      <4>1. /\ p[1] \in Nat /\ p[2] \in Nat
            /\ p \in Used(ls) => At(ls, p) = dead[i].entity
            /\ p \notin Used(ls) => ~ Before(p, Back(ls))
        BY <3>1, <1>12
      <4>2. dead[i].entity # d.entity
        BY <3>1, <1>13
      <4> HIDE DEF p, p0, l, ls, S, d
      <4>3. Before(p, Back(l)) => Before(p, Back(ls))
        BY <4>1, <1>7, <1>9, <1>11, BeforeTransitive
      <4>4. Before(p, Back(filled)) => Before(p, Back(l))
        BY <4>1, <2>8, <1>9, <1>11, BeforeTransitive
      <4>5. p \in Used(filled) => At(filled, p) = dead[i].entity
        BY <4>1, <4>2, <2>3, <2>8, <1>9
      <4>6. p \notin Used(filled) => ~ Before(p, Back(filled))
        BY <4>1, <4>3, <4>4, <2>8, <1>9
      <4> QED
        BY <4>5, <4>6 DEF p
    <3> HIDE DEF S
    <3> QED
      BY <2>1, <3>1, <1>17
  <2>13. SlotsMirror'
    <3>1. ASSUME NEW f \in alive', info'[f].phys # Root
          PROVE  LET p == <<info'[f].heap, info'[f].slot>>
                     m == list'[info'[f].phys]
                 IN p \in Used(m) /\ At(m, p) = f
      <4>1. f \in alive /\ f \in Entity
        BY <1>1, <1>2 DEF SlotTypes
      <4>2. CASE f = filler
        <5>1. info'[f] = put
          BY <4>1, <4>2, <2>9
        <5>2. p0 \in Used(filled) /\ At(filled, p0) = filler
          BY <2>2, <2>4, <2>8
        <5> HIDE DEF p0, S
        <5> QED
          BY <4>2, <5>1, <5>2, <2>6, <2>10, <1>6
      <4>3. CASE f # filler
        <5> DEFINE p == <<info[f].heap, info[f].slot>>
                   T == info[f].phys
        <5>1. info'[f] = info[f] /\ T \in Arch
          BY <4>1, <4>3, <2>9, <1>1 DEF SlotTypes, DbEntity
        <5>2. p \in Used(list[T]) /\ At(list[T], p) = f
          BY <4>1, <5>1, <3>1, <1>1, MirrorOf
        <5> HIDE DEF p, T, p0, l
        <5>3. T = S => p \in Used(filled) /\ At(filled, p) = f
          <6> SUFFICES ASSUME T = S PROVE p \in Used(filled) /\ At(filled, p) = f
            OBVIOUS
          <6>1. p \in Used(l) /\ At(l, p) = f
            BY <4>1, <5>2, <1>8, <1>9
          <6>2. p # Back(l) /\ p # p0
            BY <4>1, <4>3, <6>1, <2>3 DEF filler
          <6> QED
            BY <6>1, <6>2, <2>8
        <5> HIDE DEF S
        <5> QED
          BY <5>1, <5>2, <5>3, <2>10 DEF p, T
      <4> QED
        BY <4>2, <4>3
    <3>2. ASSUME NEW T \in Arch, NEW p \in Used(list'[T])
          PROVE  LET f == At(list'[T], p)
                 IN IF f \in alive'
                      THEN info'[f].phys = T /\ <<info'[f].heap, info'[f].slot>> = p
                      ELSE [entity |-> f, arch |-> T, heap |-> p[1], slot |-> p[2]] \in Items(dead')
      <4>1. CASE T = S /\ p = p0
        <5>1. list'[T] = filled /\ At(list'[T], p) = filler
          BY <4>1, <2>2, <2>4, <2>8, <2>10
        <5>2. info'[filler] = put /\ filler \in alive'
          BY <2>4, <2>5, <2>9, <1>2
        <5> HIDE DEF p0, S
        <5> QED
          BY <4>1, <5>1, <5>2, <2>6
      <4>2. CASE ~ (T = S /\ p = p0)
        <5> DEFINE f == At(list[T], p)
        <5>1. p \in Used(list[T]) /\ f = At(list'[T], p) /\ (T = S => p # Back(l))
          <6>1. CASE T = S
            <7>1. list'[T] = filled
              BY <6>1, <2>10
            <7>2. p \in Used(l) /\ p # Back(l) /\ p \in Used(ls)
              BY <7>1, <2>8, <1>9
            <7>3. At(filled, p) = At(l, p) /\ At(l, p) = At(ls, p)
              BY <7>2, <4>2, <6>1, <2>8, <1>9
            <7> QED
              BY <6>1, <7>1, <7>2, <7>3
          <6>2. CASE T # S
            BY <6>2, <2>10
          <6> QED
            BY <6>1, <6>2
        <5>2. CASE f \in alive
          <6>1. f \in Entity /\ info[f].phys = T /\ <<info[f].heap, info[f].slot>> = p
            BY <5>1, <5>2, <1>1, MirrorOf DEF SlotTypes
          <6>2. f # filler
            BY <5>1, <6>1, <2>5
          <6> QED
            BY <5>1, <5>2, <6>1, <6>2, <2>9, <1>2
        <5>3. CASE f \notin alive
          <6>1. PICK i \in DOMAIN dead : dead[i] = [entity |-> f, arch |-> T, heap |-> p[1], slot |-> p[2]]
            BY <5>1, <5>3, <1>1, MirrorOf
          <6>2. p = <<p[1], p[2]>>
            BY <5>1, <1>1, UsedOf DEF SlotTypes
          <6>3. i # 1
            BY <4>2, <6>1, <6>2
          <6> QED
            <7> DEFINE r == [entity |-> f, arch |-> T, heap |-> p[1], slot |-> p[2]]
            <7> HIDE DEF r
            <7>1. r \in Items(dead')
              BY <6>1, <6>3, <1>5 DEF Items, r
            <7>2. At(list'[T], p) = f /\ f \notin alive'
              BY <5>1, <5>3, <1>2
            <7> QED
              BY <7>1, <7>2 DEF r
        <5> QED
          BY <5>2, <5>3
      <4> QED
        BY <4>1, <4>2
    <3> QED
      BY <3>1, <3>2 DEF SlotsMirror
  <2>14. RootUnlisted'
    BY <2>1, <2>8, <1>9, <1>18
  <2> QED
    BY <2>11, <2>12, <2>13, <2>14 DEF SlotInv
<1> QED
  BY <1>19, <1>20

\* The move of one alive entity to its virtual archetype: it records its new slot,
\* and the entity which fills the one it left records that.
LEMMA SlotFlushMove ==
  ASSUME SlotInv, FlushMove
  PROVE  SlotInv'
<1> DEFINE e == Head(dirty)
           src == info[e].phys
           dst == info[e].virt
           p0 == <<info[e].heap, info[e].slot>>
           ls == list[src]
           filler == At(ls, Back(ls))
           left == Vacated(ls, p0[1], p0[2])
           pushed == PushBack(list[dst], e)
           entered == IF dst = Root THEN list ELSE [list EXCEPT ![dst] = pushed]
           here == Arrived(e)
           moved == [info EXCEPT ![e] = here]
<1>1. SlotTypes /\ SlotsMirror /\ DeadOK /\ RootUnlisted
  BY DEF SlotInv
<1>2. /\ pc = "alive" /\ dirty # <<>> /\ dirty' = Tail(dirty) /\ e \in alive /\ src # dst
      /\ spawned' = spawned /\ alive' = alive /\ dead' = dead /\ pc' = pc
  BY DEF FlushMove, entityVars
<1>3. IF src = Root
        THEN list' = entered /\ info' = moved
        ELSE /\ list' = [entered EXCEPT ![src] = left]
             /\ info' = IF filler = e THEN moved
                        ELSE [moved EXCEPT ![filler] = Placed(@, info[e].heap, info[e].slot)]
  BY Zenon DEF FlushMove, Back
<1>4. /\ e \in Entity /\ info[e] \in DbEntity /\ src \in Arch /\ dst \in Arch
      /\ info[e].heap \in Index /\ info[e].slot \in Index
      /\ dirty' \in Seq(Entity)
  BY <1>1, <1>2, TailOf DEF SlotTypes, DbEntity
\* By now no list holds a dead entity.
<1>5. dead = <<>> /\ DOMAIN dead = {}
  BY <1>1, <1>2 DEF DeadOK
<1>6. ASSUME NEW T \in Arch, NEW p \in Used(list[T])
      PROVE  /\ At(list[T], p) \in alive /\ At(list[T], p) \in Entity
             /\ info[At(list[T], p)].phys = T
             /\ <<info[At(list[T], p)].heap, info[At(list[T], p)].slot>> = p
             /\ T # Root
  <2>1. At(list[T], p) \in alive
    BY <1>1, <1>5, MirrorOf
  <2>2. T # Root
    BY <1>1 DEF RootUnlisted
  <2> QED
    BY <2>1, <2>2, <1>1, MirrorOf DEF SlotTypes
<1>7. ASSUME NEW f \in alive, info[f].phys # Root
      PROVE  /\ info[f].phys \in Arch
             /\ <<info[f].heap, info[f].slot>> \in Used(list[info[f].phys])
             /\ At(list[info[f].phys], <<info[f].heap, info[f].slot>>) = f
  BY <1>1, <1>7, MirrorOf DEF SlotTypes, DbEntity
<1>8. dst # Root =>
        /\ ListOK(pushed) /\ pushed \in EntityList
        /\ Used(pushed) = Used(list[dst]) \cup {Back(pushed)}
        /\ Back(pushed) \notin Used(list[dst])
        /\ At(pushed, Back(pushed)) = e
        /\ \A p \in Used(list[dst]) : At(pushed, p) = At(list[dst], p)
  <2>1. ListOK(list[dst]) /\ e \in Content
    BY <1>1, <1>4 DEF SlotTypes, Content
  <2>2. ListOK(pushed)
    BY <2>1, PushBackOK
  <2>3. pushed \in EntityList
    BY <2>2 DEF ListOK
  <2> HIDE DEF dst, pushed
  <2> QED
    BY <2>1, <2>2, <2>3, PushBackSlots DEF pushed
<1>9. /\ here \in DbEntity /\ here.phys = dst
      /\ dst # Root => <<here.heap, here.slot>> = Back(pushed)
  <2>1. CASE dst = Root
    <3>1. here = [info[e] EXCEPT !.phys = Root]
      BY <2>1, Zenon DEF Arrived
    <3> QED
      BY <2>1, <3>1, <1>4, Zenon DEF DbEntity
  <2>2. CASE dst # Root
    <3> DEFINE w == [info[e] EXCEPT !.phys = dst]
    <3>1. here = Placed(w, Len(pushed.heaps), pushed.last)
      BY <2>2, Zenon DEF Arrived
    <3>2. w \in DbEntity /\ w.phys = dst
      BY <1>4 DEF DbEntity
    <3>3. Len(pushed.heaps) \in Index /\ pushed.last \in Index
      <4>1. Back(pushed) \in Used(pushed)
        BY <2>2, <1>8
      <4>2. Len(pushed.heaps) \in 1 .. Len(pushed.heaps) /\ pushed.last \in 1 .. HeapLen(pushed, Len(pushed.heaps))
        <5> HIDE DEF pushed
        <5> QED
          BY <4>1, <2>2, <1>8, UsedOf DEF Back
      <4>3. pushed.last \in Nat /\ Len(pushed.heaps) \in Nat /\ HeapLen(pushed, Len(pushed.heaps)) = pushed.last
        BY <2>2, <1>8, ListParts DEF HeapLen
      <4> HIDE DEF pushed
      <4> QED
        BY <4>2, <4>3 DEF Index
    <3> HIDE DEF w, pushed
    <3> QED
      BY <3>1, <3>2, <3>3, PlacedOK DEF Back
  <2> QED
    BY <2>1, <2>2
<1> HIDE DEF pushed, here
<1>10. /\ \A f \in Entity : moved[f] = IF f = e THEN here ELSE info[f]
       /\ moved \in [Entity -> DbEntity]
  BY <1>1, <1>4, <1>9 DEF SlotTypes
<1>11. /\ entered \in [Arch -> EntityList]
       /\ \A T \in Arch : entered[T] = IF T = dst /\ dst # Root THEN pushed ELSE list[T]
  <2> HIDE DEF dst
  <2> QED
    BY <1>1, <1>4, <1>8 DEF SlotTypes
<1> HIDE DEF moved, entered
\* The invariant follows from these facts about each list and each info.
<1>12. ASSUME info' \in [Entity -> DbEntity], list' \in [Arch -> EntityList],
              \A T \in Arch : ListOK(list'[T]),
              Used(list'[Root]) = {},
              \A f \in alive : info'[f].phys # Root =>
                /\ <<info'[f].heap, info'[f].slot>> \in Used(list'[info'[f].phys])
                /\ At(list'[info'[f].phys], <<info'[f].heap, info'[f].slot>>) = f,
              \A T \in Arch : \A p \in Used(list'[T]) :
                /\ At(list'[T], p) \in alive
                /\ info'[At(list'[T], p)].phys = T
                /\ <<info'[At(list'[T], p)].heap, info'[At(list'[T], p)].slot>> = p
       PROVE  SlotInv'
  <2>1. SlotTypes'
    BY <1>1, <1>2, <1>4, <1>12 DEF SlotTypes
  <2>2. SlotsMirror'
    BY <1>2, <1>12 DEF SlotsMirror
  <2>3. DeadOK'
    BY <1>2, <1>5 DEF DeadOK
  <2>4. RootUnlisted'
    BY <1>12 DEF RootUnlisted
  <2> QED
    BY <2>1, <2>2, <2>3, <2>4 DEF SlotInv
\* The entity leaves no slot behind.
<1>13. CASE src = Root
  <2>1. list' = entered /\ info' = moved /\ dst # Root
    BY <1>2, <1>3, <1>13
  <2>2. \A T \in Arch : list'[T] = IF T = dst THEN pushed ELSE list[T]
    BY <2>1, <1>11
  <2>3. \A f \in Entity : info'[f] = IF f = e THEN here ELSE info[f]
    BY <2>1, <1>10
  <2>4. Root \in Arch
    BY DEF Root, Arch
  <2> HIDE DEF e, src, dst, p0
  <2>5. \A T \in Arch : ListOK(list'[T])
    BY <2>1, <2>2, <1>1, <1>8 DEF SlotTypes
  <2>6. Used(list'[Root]) = {}
    BY <2>1, <2>2, <2>4, <1>1 DEF RootUnlisted
  <2>7. ASSUME NEW f \in alive, info'[f].phys # Root
        PROVE  /\ <<info'[f].heap, info'[f].slot>> \in Used(list'[info'[f].phys])
               /\ At(list'[info'[f].phys], <<info'[f].heap, info'[f].slot>>) = f
    <3>1. f \in Entity
      BY <1>1 DEF SlotTypes
    <3>2. CASE f = e
      <4>1. info'[f] = here /\ list'[dst] = pushed
        BY <3>1, <3>2, <2>2, <2>3, <1>4
      <4> QED
        BY <3>2, <4>1, <2>1, <1>8, <1>9
    <3>3. CASE f # e
      <4> DEFINE T == info[f].phys
                 p == <<info[f].heap, info[f].slot>>
      <4>1. info'[f] = info[f]
        BY <3>1, <3>3, <2>3
      <4>2. T \in Arch /\ p \in Used(list[T]) /\ At(list[T], p) = f
        BY <4>1, <2>7, <1>7
      <4>3. p \in Used(list'[T]) /\ At(list'[T], p) = f
        BY <4>2, <2>1, <2>2, <1>8
      <4> QED
        BY <4>1, <4>3
    <3> QED
      BY <3>2, <3>3
  <2>8. ASSUME NEW T \in Arch, NEW p \in Used(list'[T])
        PROVE  /\ At(list'[T], p) \in alive
               /\ info'[At(list'[T], p)].phys = T
               /\ <<info'[At(list'[T], p)].heap, info'[At(list'[T], p)].slot>> = p
    <3>1. CASE T = dst /\ p = Back(pushed)
      <4>1. At(list'[T], p) = e /\ info'[e] = here
        BY <3>1, <2>1, <2>2, <2>3, <1>4, <1>8
      <4> QED
        BY <3>1, <4>1, <2>1, <1>2, <1>9
    <3>2. CASE ~ (T = dst /\ p = Back(pushed))
      <4> DEFINE f == At(list[T], p)
      <4>1. p \in Used(list[T]) /\ At(list'[T], p) = f
        BY <3>2, <2>1, <2>2, <1>8
      <4>2. /\ f \in alive /\ f \in Entity /\ info[f].phys = T /\ T # Root
            /\ <<info[f].heap, info[f].slot>> = p
        BY <4>1, <1>6
      <4>3. f # e
        BY <4>2, <1>13 DEF src
      <4> QED
        BY <4>1, <4>2, <4>3, <2>3
    <3> QED
      BY <3>1, <3>2
  <2>9. info' \in [Entity -> DbEntity] /\ list' \in [Arch -> EntityList]
    BY <2>1, <1>10, <1>11
  <2> QED
    BY <2>5, <2>6, <2>7, <2>8, <2>9, <1>12
\* The back of the list it leaves fills its slot.
<1>14. CASE src # Root
  <2>1. p0 \in Used(ls) /\ At(ls, p0) = e
    BY <1>2, <1>7, <1>14
  <2>2. ListOK(ls)
    BY <1>1, <1>4 DEF SlotTypes
  <2>3. /\ ListOK(left) /\ left \in EntityList
        /\ Used(left) = Used(ls) \ {Back(ls)}
        /\ \A q \in Used(ls) \ {Back(ls)} : At(left, q) = IF q = p0 THEN filler ELSE At(ls, q)
    <3> HIDE DEF p0, ls
    <3>1. ListOK(left)
      BY <2>1, <2>2, VacatedSlots
    <3>2. left \in EntityList
      BY <3>1 DEF ListOK
    <3> QED
      BY <2>1, <2>2, <3>1, <3>2, VacatedSlots
  <2>4. Back(ls) \in Used(ls)
    BY <2>1, <2>2, BackOf
  <2>5. /\ filler \in alive /\ filler \in Entity /\ info[filler].phys = src
        /\ <<info[filler].heap, info[filler].slot>> = Back(ls)
    BY <2>4, <1>4, <1>6
  <2>6. filler = e <=> Back(ls) = p0
    BY <2>1, <2>5
  <2>7. list' = [entered EXCEPT ![src] = left]
    BY <1>3, <1>14
  <2> DEFINE put == Placed(info[filler], info[e].heap, info[e].slot)
  <2>8. put \in DbEntity /\ put.phys = src /\ <<put.heap, put.slot>> = p0
    <3>1. info[filler] \in DbEntity
      BY <2>5, <1>1 DEF SlotTypes
    <3>2. info[e].heap \in Index /\ info[e].slot \in Index
      BY <1>1, <1>2 DEF SlotTypes, DbEntity
    <3> HIDE DEF filler, e
    <3>3. put \in DbEntity
      BY <3>1, <3>2, PlacedOK
    <3>4. put.phys = info[filler].phys /\ put.heap = info[e].heap /\ put.slot = info[e].slot
      BY <3>1, <3>2, PlacedOK
    <3> HIDE DEF put
    <3> QED
      BY <3>3, <3>4, <2>5
  <2>9. info' = IF filler = e THEN moved ELSE [moved EXCEPT ![filler] = put]
    <3>1. filler # e => moved[filler] = info[filler]
      BY <2>5, <1>10
    <3>2. info' = IF filler = e THEN moved
                  ELSE [moved EXCEPT ![filler] = Placed(@, info[e].heap, info[e].slot)]
      BY <1>3, <1>14
    <3> HIDE DEF filler, e
    <3> QED
      BY <3>1, <3>2 DEF e
  <2> HIDE DEF e, src, dst, p0, ls, filler, left, put
  <2>10. \A f \in Entity : info'[f] = IF f = e THEN here ELSE IF f = filler THEN put ELSE info[f]
    BY <2>5, <2>9, <1>10
  <2>11. \A T \in Arch : list'[T] = IF T = src THEN left
                                     ELSE IF T = dst /\ dst # Root THEN pushed ELSE list[T]
    BY <2>7, <1>4, <1>11
  <2>12. info' \in [Entity -> DbEntity] /\ list' \in [Arch -> EntityList]
    BY <2>3, <2>5, <2>7, <2>8, <2>9, <1>4, <1>10, <1>11
  <2>13. \A T \in Arch : ListOK(list'[T])
    BY <2>3, <2>11, <1>1, <1>8 DEF SlotTypes
  <2>14. Used(list'[Root]) = {}
    <3>1. Root \in Arch
      BY DEF Root, Arch
    <3> QED
      BY <3>1, <2>11, <1>1, <1>14 DEF RootUnlisted
  <2>15. ASSUME NEW f \in alive, info'[f].phys # Root
         PROVE  /\ <<info'[f].heap, info'[f].slot>> \in Used(list'[info'[f].phys])
                /\ At(list'[info'[f].phys], <<info'[f].heap, info'[f].slot>>) = f
    <3>1. f \in Entity
      BY <1>1 DEF SlotTypes
    <3>2. CASE f = e
      <4>1. info'[f] = here /\ dst # Root
        BY <3>1, <3>2, <2>10, <2>15, <1>9
      <4>2. list'[dst] = pushed
        BY <4>1, <2>11, <1>2, <1>4
      <4> QED
        BY <3>2, <4>1, <4>2, <1>8, <1>9
    <3>3. CASE f # e /\ f = filler
      <4>1. info'[f] = put /\ list'[src] = left
        BY <3>1, <3>3, <2>10, <2>11, <1>4
      <4>2. p0 \in Used(left) /\ At(left, p0) = filler
        BY <3>3, <2>1, <2>3, <2>6
      <4> QED
        BY <3>3, <4>1, <4>2, <2>8
    <3>4. CASE f # e /\ f # filler
      <4> DEFINE T == info[f].phys
                 p == <<info[f].heap, info[f].slot>>
      <4>1. info'[f] = info[f]
        BY <3>1, <3>4, <2>10
      <4>2. T \in Arch /\ p \in Used(list[T]) /\ At(list[T], p) = f
        BY <4>1, <2>15, <1>7
      <4> HIDE DEF T, p
      <4>3. p \in Used(list'[T]) /\ At(list'[T], p) = f
        <5>1. CASE T = src
          <6>1. p \in Used(ls) /\ At(ls, p) = f
            BY <5>1, <4>2 DEF ls
          <6>2. p # p0 /\ p # Back(ls)
            BY <6>1, <3>4, <2>1 DEF filler
          <6> QED
            BY <5>1, <6>1, <6>2, <4>2, <2>3, <2>11
        <5>2. CASE T # src
          BY <5>2, <4>2, <2>11, <1>8
        <5> QED
          BY <5>1, <5>2
      <4> QED
        BY <4>1, <4>3 DEF T, p
    <3> QED
      BY <3>2, <3>3, <3>4
  <2>16. ASSUME NEW T \in Arch, NEW p \in Used(list'[T])
         PROVE  /\ At(list'[T], p) \in alive
                /\ info'[At(list'[T], p)].phys = T
                /\ <<info'[At(list'[T], p)].heap, info'[At(list'[T], p)].slot>> = p
    <3>1. CASE T = src /\ p = p0
      <4>1. list'[T] = left /\ p0 \in Used(left)
        BY <3>1, <2>11
      <4>2. At(left, p0) = filler /\ filler # e
        BY <4>1, <2>1, <2>3, <2>6
      <4>3. info'[filler] = put
        BY <4>2, <2>5, <2>10
      <4> QED
        BY <3>1, <4>1, <4>2, <4>3, <2>5, <2>8
    <3>2. CASE T = dst /\ dst # Root /\ p = Back(pushed)
      <4>1. list'[T] = pushed /\ info'[e] = here
        BY <3>2, <2>10, <2>11, <1>2, <1>4
      <4> QED
        BY <3>2, <4>1, <1>2, <1>8, <1>9
    <3>3. CASE ~ (T = src /\ p = p0) /\ ~ (T = dst /\ dst # Root /\ p = Back(pushed))
      <4> DEFINE f == At(list[T], p)
      <4>1. p \in Used(list[T]) /\ At(list'[T], p) = f /\ (T = src => p # Back(ls))
        <5>1. CASE T = src
          <6>1. list'[T] = left /\ list[T] = ls
            BY <5>1, <2>11 DEF ls
          <6>2. p \in Used(ls) /\ p # Back(ls) /\ p # p0
            BY <6>1, <5>1, <3>3, <2>3
          <6> QED
            BY <6>1, <6>2, <2>3
        <5>2. CASE T # src
          BY <5>2, <3>3, <2>11, <1>8
        <5> QED
          BY <5>1, <5>2
      <4>2. /\ f \in alive /\ f \in Entity /\ info[f].phys = T
            /\ <<info[f].heap, info[f].slot>> = p
        BY <4>1, <1>6
      <4>3. f # e
        BY <3>3, <4>2 DEF src, p0
      <4>4. f # filler
        BY <4>1, <4>2, <2>5
      <4> QED
        BY <4>1, <4>2, <4>3, <4>4, <2>10
    <3> QED
      BY <3>1, <3>2, <3>3
  <2> QED
    BY <2>12, <2>13, <2>14, <2>15, <2>16, <1>12
<1> QED
  BY <1>13, <1>14

\* Every step keeps the invariant.
LEMMA SlotStep == SlotInv /\ [Next]_vars => SlotInv'
<1> SUFFICES ASSUME SlotInv, [Next]_vars PROVE SlotInv'
  OBVIOUS
<1> USE DEF vars, entityVars, graphVars, flushVars
<1>1. SlotTypes /\ DeadOK
  BY DEF SlotInv
<1>2. /\ dirty \in Seq(Entity) /\ alive \subseteq Entity
      /\ pc \in {"idle", "dead", "alive", "delete", "panicked"}
      /\ pc \in {"alive", "delete", "panicked"} => dead = <<>>
  BY <1>1 DEF SlotTypes, DeadOK
<1>3. CASE \E e \in Entity : SpawnEntity(e)
  BY <1>3, SlotSpawn
<1>4. CASE \E e \in Entity : DespawnEntity(e)
  BY <1>4, SlotDespawn
<1>5. CASE \E e \in Entity, t \in Tag : TagEntity(e, t)
  <2>1. PICK e \in Entity, t \in Tag : TagEntity(e, t)
    BY <1>5
  <2>2. e \in alive /\ pc = "idle" /\ info[e].virt \in Arch
    BY <2>1, <1>1 DEF TagEntity, SlotTypes, DbEntity
  <2>3. info[e].virt \cup {t} \in Arch
    BY <2>2 DEF Arch
  <2>4. PICK new, ar, ex : new \in Arch /\ SetVirtual(e, new, ar, ex)
    BY <2>1, <2>2, <2>3 DEF TagEntity
  <2> QED
    BY <2>2, <2>4, SlotRetag
<1>6. CASE \E e \in Entity, t \in Tag : UntagEntity(e, t)
  <2>1. PICK e \in Entity, t \in Tag : UntagEntity(e, t)
    BY <1>6
  <2>2. e \in alive /\ pc = "idle" /\ info[e].virt \in Arch
    BY <2>1, <1>1 DEF UntagEntity, SlotTypes, DbEntity
  <2>3. info[e].virt \ {t} \in Arch
    BY <2>2 DEF Arch
  <2>4. PICK new, ar, ex : new \in Arch /\ SetVirtual(e, new, ar, ex)
    BY <2>1, <2>2, <2>3 DEF UntagEntity
  <2> QED
    BY <2>2, <2>4, SlotRetag
<1>7. CASE BeginQuery \/ EndQuery \/ FlushBegin \/ Panicked \/ UNCHANGED vars
  BY <1>2, <1>7, SlotFrame DEF BeginQuery, EndQuery, FlushBegin, Panicked
<1>8. CASE FlushStep
  <2>1. CASE FlushDead
    BY <2>1, SlotFlushDead
  <2>2. CASE FlushMove
    BY <2>2, SlotFlushMove
  <2>3. CASE FlushDeadDone \/ FlushTruncate \/ FlushEnd
    BY <2>3, <1>2, SlotFrame DEF FlushDeadDone, FlushTruncate, FlushEnd
  <2>4. CASE FlushSkip
    <3>1. dirty' \in Seq(Entity)
      BY <2>4, <1>2, TailOf DEF FlushSkip
    <3> QED
      BY <2>4, <3>1, <1>2, SlotFrame DEF FlushSkip
  <2>5. CASE \E S \in del : FlushDelete(S)
    BY <2>5, <1>2, SlotFrame DEF FlushDelete
  <2> QED
    BY <1>8, <2>1, <2>2, <2>3, <2>4, <2>5 DEF FlushStep
<1> QED
  BY <1>3, <1>4, <1>5, <1>6, <1>7, <1>8 DEF Next

\* The invariant holds of every reachable state.
LEMMA SlotInvariant == Spec => []SlotInv
BY SlotInit, SlotStep, PTL DEF Spec

\* The slot an alive entity records holds it, and a slot in use belongs to the one
\* alive entity recording it or to a dead one waiting for its cleanup: through every
\* swap-remove of flush_archetypes no two entities get the same slot and no index of
\* DbEntity goes stale.
THEOREM SlotsMirrorTheorem == Spec => []SlotsMirror
<1>1. SlotInv => SlotsMirror
  BY DEF SlotInv
<1> QED
  BY <1>1, SlotInvariant, PTL

\* An entity despawned with a slot is never moved before its own cleanup finds it
\* there: the index in DbDirtyDeadEntity stays good for any order of despawns.
THEOREM DeadStayPutTheorem == Spec => []DeadStayPut
<1>1. SlotInv => DeadStayPut
  BY DEF SlotInv, DeadOK, DeadStayPut, Items
<1> QED
  BY <1>1, SlotInvariant, PTL

\* When flush_archetypes goes through the alive entities, no list holds a dead one
\* any more, so that every entity it takes off the back of a list has an info.
THEOREM DeadSweptTheorem == Spec => []DeadSwept
<1>1. SlotInv => DeadSwept
  <2> SUFFICES ASSUME SlotInv, pc \in {"alive", "delete"}, NEW S \in Arch, NEW p \in Used(list[S])
               PROVE  At(list[S], p) \in alive
    BY DEF DeadSwept
  <2>1. SlotTypes /\ SlotsMirror /\ DOMAIN dead = {}
    BY DEF SlotInv, DeadOK
  <2> QED
    BY <2>1, MirrorOf
<1> QED
  BY <1>1, SlotInvariant, PTL

\* Both halves of the cleanup: records of the dead stay good until they are used, and
\* all of them are used before the alive entities move.
THEOREM DeadClearedTheorem == Spec => []DeadCleared
<1>1. DeadStayPut /\ DeadSwept => DeadCleared
  BY DEF DeadCleared
<1> QED
  BY <1>1, DeadStayPutTheorem, DeadSweptTheorem, PTL

-----------------------------------------------------------------------------
(* The slots which are not in use hold placeholders.                       *)

\* What each list holds after its back.
SpareInv == \A S \in Arch : TailReset(list[S])

\* A step which changes one list at most.
LEMMA SpareOne ==
  ASSUME SlotInv, SpareInv, NEW S, NEW l, TailReset(l), list' = [list EXCEPT ![S] = l]
  PROVE  SpareInv'
<1>1. \A T \in Arch : list'[T] = IF T = S THEN l ELSE list[T]
  BY DEF SlotInv, SlotTypes
<1>2. \A T \in Arch : TailReset(list'[T])
  BY <1>1 DEF SpareInv
<1> QED
  BY <1>2 DEF SpareInv, TailReset

\* The slot of a dead entity is filled, or given up.
LEMMA SpareFlushDead ==
  ASSUME SlotInv, SpareInv, FlushDead
  PROVE  SpareInv'
<1> DEFINE d == Head(dead)
           S == d.arch
           l == Pruned(list[S])
           filler == At(l, <<Len(l.heaps), l.last>>)
           set == SetAt(l, d.heap, d.slot, filler)
           filled == PopBack(set)
<1>1. /\ dead # <<>>
      /\ \/ list' = [list EXCEPT ![S] = l]
         \/ /\ ~ (d.heap > Len(l.heaps))
            /\ list' = [list EXCEPT ![S] = filled]
  BY Zenon DEF FlushDead
<1>2. d \in DbDirtyDeadEntity
  BY <1>1, HeadTailProperties DEF SlotInv, SlotTypes
<1>3. S \in Arch /\ d.heap \in Index
  BY <1>2 DEF DbDirtyDeadEntity
<1>4. ListOK(list[S])
  BY <1>3 DEF SlotInv, SlotTypes
<1>5. TailReset(l) /\ ListOK(l)
  BY <1>4, PrunedTail, PrunedSlots DEF CutTo
<1> HIDE DEF l
<1>6. ASSUME ~ (d.heap > Len(l.heaps))
      PROVE  TailReset(filled)
  <2>1. Len(l.heaps) \in Nat /\ Len(l.heaps) # 0
    BY <1>3, <1>5, <1>6, ListParts DEF Index
  <2>2. l.heaps # <<>>
    BY <2>1, <1>5, ListParts, EmptyLen
  <2>3. filler \in Content
    BY <2>2, <1>5, BackOf, UsedOf DEF Back
  <2> HIDE DEF filler, d
  <2>4. ListOK(set)
    BY <2>3, <1>5, SetAtOK
  <2>5. Len(set.heaps) = Len(l.heaps)
    BY <2>3, <1>5, SetAtOK
  <2> HIDE DEF set
  <2>6. set.heaps # <<>>
    BY <2>1, <2>4, <2>5, ListParts, EmptyLen
  <2> QED
    BY <2>4, <2>6, PopBackTail
<1> HIDE DEF filled, S
<1> QED
  BY <1>1, <1>5, <1>6, SpareOne

\* An entity moves to the first spare slot of a list and gives up the back of another.
LEMMA SpareFlushMove ==
  ASSUME SlotInv, SpareInv, FlushMove
  PROVE  SpareInv'
<1> DEFINE e == Head(dirty)
           src == info[e].phys
           dst == info[e].virt
           ls == list[src]
           filler == At(ls, <<Len(ls.heaps), ls.last>>)
           set == SetAt(ls, info[e].heap, info[e].slot, filler)
           left == PopBack(set)
           pushed == PushBack(list[dst], e)
           entered == IF dst = Root THEN list ELSE [list EXCEPT ![dst] = pushed]
<1>1. /\ e \in alive /\ src # dst
      /\ IF src = Root THEN list' = entered ELSE list' = [entered EXCEPT ![src] = left]
  BY Zenon DEF FlushMove, Vacated
<1>2. /\ src \in Arch /\ dst \in Arch /\ e \in Content
      /\ ListOK(list[dst]) /\ ListOK(ls) /\ list \in [Arch -> EntityList]
  BY <1>1 DEF SlotInv, SlotTypes, DbEntity, Content
<1>3. TailReset(pushed)
  BY <1>2, PushBackTail DEF SpareInv
<1>4. ASSUME src # Root
      PROVE  TailReset(left)
  <2>1. <<info[e].heap, info[e].slot>> \in Used(ls)
    BY <1>1, <1>4, MirrorOf DEF SlotInv
  <2>2. ls.heaps # <<>> /\ filler \in Content
    BY <2>1, <1>2, BackOf, UsedOf DEF Back
  <2> HIDE DEF filler, e, ls
  <2>3. ListOK(set)
    BY <2>2, <1>2, SetAtOK
  <2>4. Len(set.heaps) = Len(ls.heaps)
    BY <2>2, <1>2, SetAtOK
  <2> HIDE DEF set
  <2>5. set.heaps # <<>>
    BY <2>2, <2>3, <2>4, <1>2, ListParts, EmptyLen
  <2> QED
    BY <2>3, <2>5, PopBackTail
<1> HIDE DEF e, src, dst, pushed, left
<1>5. \A T \in Arch : /\ entered[T] = list[T] \/ entered[T] = pushed
                      /\ src # Root => list'[T] = IF T = src THEN left ELSE entered[T]
  BY <1>1, <1>2
<1> HIDE DEF entered
<1>6. \A T \in Arch : (list'[T] = left /\ src # Root) \/ list'[T] = list[T] \/ list'[T] = pushed
  BY <1>1, <1>5
<1>7. \A T \in Arch : TailReset(list'[T])
  BY <1>3, <1>4, <1>6 DEF SpareInv
<1> QED
  BY <1>7 DEF SpareInv, TailReset

\* Nothing else touches a list.
LEMMA SpareStep == SlotInv /\ SpareInv /\ [Next]_vars => SpareInv'
<1> SUFFICES ASSUME SlotInv, SpareInv, [Next]_vars PROVE SpareInv'
  OBVIOUS
<1> USE DEF vars, entityVars, graphVars, flushVars
<1>1. CASE list' = list
  BY <1>1 DEF SpareInv, TailReset
<1>2. CASE \E e \in Entity : SpawnEntity(e) \/ DespawnEntity(e)
  BY <1>1, <1>2 DEF SpawnEntity, DespawnEntity
<1>3. CASE \E e \in Entity, t \in Tag : TagEntity(e, t) \/ UntagEntity(e, t)
  BY <1>1, <1>3 DEF TagEntity, UntagEntity, SetVirtual
<1>4. CASE BeginQuery \/ EndQuery \/ FlushBegin \/ Panicked \/ UNCHANGED vars
  BY <1>1, <1>4 DEF BeginQuery, EndQuery, FlushBegin, Panicked
<1>5. CASE FlushDeadDone \/ FlushSkip \/ FlushTruncate \/ FlushEnd \/ \E S \in del : FlushDelete(S)
  BY <1>1, <1>5 DEF FlushDeadDone, FlushSkip, FlushTruncate, FlushEnd, FlushDelete
<1> QED
  BY <1>2, <1>3, <1>4, <1>5, SpareFlushDead, SpareFlushMove DEF Next, FlushStep

\* It holds throughout.
LEMMA SpareInvariant == Spec => []SpareInv
<1>1. Init => SpareInv
  BY DEF Init, SpareInv, TailReset, EmptyList
<1> QED
  BY <1>1, SpareStep, SlotInvariant, PTL DEF Spec

\* In a debug build the slots past the back of an entity list hold the placeholder the
\* assertion before a push expects: every slot a swap-remove or a prune gives up, across
\* the heaps of a list, is reset before a push can take it again.
THEOREM SpareTheorem == Spec => []SpareSlotsReset
<1>1. SlotInv /\ SpareInv => SpareSlotsReset
  <2> SUFFICES ASSUME SlotInv, SpareInv, DebugAssertions, NEW S \in Arch,
                      NEW h \in DOMAIN list[S].heaps, NEW s \in DOMAIN list[S].heaps[h],
                      <<h, s>> \notin Used(list[S])
               PROVE  list[S].heaps[h][s] = PLACEHOLDER
    BY DEF SpareSlotsReset
  <2>1. ListOK(list[S]) /\ TailReset(list[S])
    BY DEF SlotInv, SlotTypes, SpareInv
  <2> QED
    BY <2>1, TailIsSpare
<1> QED
  BY <1>1, SlotInvariant, SpareInvariant, PTL

-----------------------------------------------------------------------------
(* How each kind of step changes the virtual archetypes and the graph.     *)

\* The alive entities meant to be in S after the next flush.
Members(S) == {e \in alive : info[e].virt = S}

\* No entity changes tags: the counters, the alive entities and their virtual
\* archetypes stay.
SameTags ==
  /\ UNCHANGED <<alive, vcount>>
  /\ \A e \in alive : info'[e].virt = info[e].virt

\* The graph becomes <<ar, ex>> in a lookup, then loses unused archetypes.
GraphStep(ar, ex, gone) ==
  /\ archs \subseteq ar /\ ar \subseteq Arch
  /\ ext \subseteq ex /\ ex \subseteq Arch \X Tag
  /\ \A edge \in ex \ ext : edge[1] \in ar /\ edge[1] \cup {edge[2]} \in ar
  /\ \A S \in gone : Unused(vcount', list, S)
  /\ SetGraph(ar, ex, gone)

\* The types SlotTypes leaves out, the counters' aside.
GraphTypes ==
  /\ archs \subseteq Arch
  /\ ext \subseteq Arch \X Tag
  /\ containers \in [Tag -> SUBSET Arch]
  /\ queries \in Nat
  /\ trunc \subseteq Arch
  /\ del \subseteq Arch

\* Only unused archetypes become obsolete.
LEMMA ObsoleteUnused ==
  ASSUME NEW ar, NEW ex, NEW vc, NEW ls, NEW S
  PROVE  /\ Obsolete(ar, ex, vc, ls, S) \subseteq ar
         /\ \A T \in Obsolete(ar, ex, vc, ls, S) : Unused(vc, ls, T)
BY DEF Obsolete, SteppingStones

\* Placing an entity in a slot leaves its archetypes alone.
LEMMA PlacedVirt ==
  ASSUME NEW was \in DbEntity, NEW h, NEW s
  PROVE  Placed(was, h, s).virt = was.virt /\ Placed(was, h, s).phys = was.phys
BY DEF Placed, DbEntity

\* An entity which arrives is where its tags say.
LEMMA ArrivedArchs ==
  ASSUME NEW e, info[e] \in DbEntity
  PROVE  Arrived(e).virt = info[e].virt /\ Arrived(e).phys = info[e].virt
<1>1. CASE info[e].virt = Root
  <2>1. Arrived(e) = [info[e] EXCEPT !.phys = Root]
    BY <1>1, Zenon DEF Arrived
  <2> QED
    BY <2>1, <1>1, Zenon DEF DbEntity
<1>2. CASE info[e].virt # Root
  <2> DEFINE w == [info[e] EXCEPT !.phys = info[e].virt]
             dst == PushBack(list[info[e].virt], e)
  <2>1. Arrived(e) = Placed(w, Len(dst.heaps), dst.last)
    BY <1>2, Zenon DEF Arrived
  <2>2. w \in DbEntity /\ w.phys = info[e].virt /\ w.virt = info[e].virt
    BY DEF DbEntity
  <2> HIDE DEF w, dst
  <2> QED
    BY <2>1, <2>2, PlacedVirt
<1> QED
  BY <1>1, <1>2

\* A cleanup step changes nobody's archetypes.
LEMMA FlushDeadTags ==
  ASSUME SlotInv, FlushDead
  PROVE  SameTags /\ \A e \in alive : info'[e].phys = info[e].phys
<1>1. info \in [Entity -> DbEntity] /\ alive \subseteq Entity
  BY DEF SlotInv, SlotTypes
<1>2. PICK f, h, s : info' = info \/ info' = [info EXCEPT ![f] = Placed(@, h, s)]
  BY Zenon DEF FlushDead
<1>3. alive' = alive /\ vcount' = vcount
  BY DEF FlushDead, entityVars
<1>4. f \in Entity => info[f] \in DbEntity
  BY <1>1
<1>5. \A e \in Entity : info'[e] = info[e] \/ (e = f /\ info'[e] = Placed(info[f], h, s))
  BY <1>1, <1>2
<1> QED
  BY <1>1, <1>3, <1>4, <1>5, PlacedVirt DEF SameTags

\* A move makes one entity's physical archetype its virtual one.
LEMMA FlushMoveTags ==
  ASSUME SlotInv, FlushMove
  PROVE  /\ SameTags
         /\ info'[Head(dirty)].phys = info'[Head(dirty)].virt
         /\ \A e \in alive : e # Head(dirty) => info'[e].phys = info[e].phys
<1> DEFINE m == Head(dirty)
           here == Arrived(m)
           moved == [info EXCEPT ![m] = here]
<1>1. info \in [Entity -> DbEntity] /\ alive \subseteq Entity /\ dirty \in Seq(Entity)
  BY DEF SlotInv, SlotTypes
<1>2. /\ dirty # <<>> /\ m \in alive /\ alive' = alive /\ vcount' = vcount
      /\ \E f, h, s : info' = moved \/ (f # m /\ info' = [moved EXCEPT ![f] = Placed(@, h, s)])
  BY Zenon DEF FlushMove, entityVars
<1>3. m \in Entity /\ info[m] \in DbEntity
  BY <1>1, <1>2
<1>4. here.virt = info[m].virt /\ here.phys = info[m].virt
  BY <1>3, ArrivedArchs
<1> HIDE DEF m, here
<1>5. PICK f, h, s : info' = moved \/ (f # m /\ info' = [moved EXCEPT ![f] = Placed(@, h, s)])
  BY <1>2
<1>6. /\ info'[m] = here
      /\ \A e \in Entity : e # m => info'[e] = info[e] \/ (e = f /\ info'[e] = Placed(info[f], h, s))
  BY <1>1, <1>3, <1>5
<1>7. \A e \in Entity : e # m => info'[e].virt = info[e].virt /\ info'[e].phys = info[e].phys
  BY <1>1, <1>6, PlacedVirt
<1> QED
  BY <1>1, <1>2, <1>4, <1>6, <1>7 DEF SameTags, m

-----------------------------------------------------------------------------
(* The counters.                                                           *)

\* The counters count exactly.
CountInv ==
  /\ IsFiniteSet(alive)
  /\ vcount \in [Arch -> Nat]
  /\ VirtualCountExact

\* Members of an archetype are finitely many.
LEMMA MembersFinite ==
  ASSUME IsFiniteSet(alive), NEW S
  PROVE  IsFiniteSet(Members(S)) /\ Cardinality(Members(S)) \in Nat
<1>1. Members(S) \in SUBSET alive
  BY DEF Members
<1>2. IsFiniteSet(Members(S))
  BY <1>1, FS_Subset
<1> QED
  BY <1>2, FS_CardinalityType

\* Counters stay exact when everyone keeps its tags.
LEMMA CountFrame ==
  ASSUME CountInv, SameTags
  PROVE  CountInv'
<1>1. \A S : {e \in alive' : info'[e].virt = S} = {e \in alive : info[e].virt = S}
  BY DEF SameTags
<1> QED
  BY <1>1 DEF CountInv, SameTags, VirtualCountExact

\* What AddVirtual adds to which counter.
LEMMA AddVirtualOK ==
  ASSUME NEW vc \in [Arch -> Int], NEW S \in Arch, NEW n \in Int
  PROVE  /\ AddVirtual(vc, S, n) \in [Arch -> Int]
         /\ \A T \in Arch : AddVirtual(vc, S, n)[T] = vc[T] + (IF T = S /\ S # Root THEN n ELSE 0)
BY DEF AddVirtual

\* A new entity has no tags, and the root archetype is not counted.
LEMMA CountSpawn ==
  ASSUME SlotInv, CountInv, NEW e \in Entity, SpawnEntity(e)
  PROVE  CountInv'
<1>1. /\ e \notin alive /\ alive' = alive \cup {e} /\ info' = [info EXCEPT ![e] = NewEntity]
      /\ vcount' = vcount /\ info \in [Entity -> DbEntity] /\ alive \subseteq Entity
  BY DEF SpawnEntity, SlotInv, SlotTypes
<1>2. IsFiniteSet(alive')
  BY <1>1, FS_AddElement DEF CountInv
<1>3. NewEntity.virt = Root
  BY DEF NewEntity
<1>4. ASSUME NEW S \in Arch \ {Root}
      PROVE  {f \in alive' : info'[f].virt = S} = {f \in alive : info[f].virt = S}
  BY <1>1, <1>3
<1> QED
  BY <1>1, <1>2, <1>4 DEF CountInv, VirtualCountExact

\* A despawned entity leaves the count of its virtual archetype, which is not zero.
LEMMA CountDespawn ==
  ASSUME SlotInv, CountInv, NEW e \in Entity, DespawnEntity(e)
  PROVE  CountInv'
<1> DEFINE old == info[e].virt
<1>1. /\ e \in alive /\ alive' = alive \ {e} /\ info' = [info EXCEPT ![e] = NewEntity]
      /\ vcount' = AddVirtual(vcount, old, -1)
      /\ info \in [Entity -> DbEntity] /\ alive \subseteq Entity
  BY DEF DespawnEntity, SlotInv, SlotTypes
<1>2. IsFiniteSet(alive) /\ vcount \in [Arch -> Nat] /\ IsFiniteSet(alive') /\ old \in Arch
  BY <1>1, FS_RemoveElement DEF CountInv, DbEntity
<1> HIDE DEF old
<1>3. /\ vcount' \in [Arch -> Int]
      /\ \A T \in Arch : vcount'[T] = vcount[T] + (IF T = old /\ old # Root THEN -1 ELSE 0)
  <2>1. vcount \in [Arch -> Int] /\ -1 \in Int
    BY <1>2
  <2> QED
    BY <2>1, <1>1, <1>2, AddVirtualOK
<1>4. ASSUME NEW S \in Arch \ {Root}
      PROVE  vcount'[S] = Cardinality({f \in alive' : info'[f].virt = S}) /\ vcount'[S] \in Nat
  <2> DEFINE after == {f \in alive' : info'[f].virt = S}
  <2>1. after = Members(S) \ {e}
    BY <1>1 DEF Members
  <2>2. e \in Members(S) <=> S = old
    BY <1>1 DEF Members, old
  <2>3. /\ IsFiniteSet(Members(S)) /\ IsFiniteSet(Members(S) \ {e})
        /\ Cardinality(Members(S) \ {e}) =
             IF e \in Members(S) THEN Cardinality(Members(S)) - 1 ELSE Cardinality(Members(S))
    BY <1>2, MembersFinite, FS_RemoveElement
  <2>4. Cardinality(Members(S) \ {e}) \in Nat
    BY <2>3, FS_CardinalityType
  <2>5. vcount[S] = Cardinality(Members(S))
    BY DEF CountInv, VirtualCountExact, Members
  <2> HIDE DEF after
  <2>6. vcount'[S] = Cardinality(Members(S) \ {e})
    BY <2>2, <2>3, <2>5, <1>2, <1>3
  <2>7. vcount'[S] = Cardinality(after) /\ vcount'[S] \in Nat
    BY <2>1, <2>4, <2>6
  <2> QED
    BY <2>7 DEF after
<1>5. ASSUME NEW S \in Arch
      PROVE  vcount'[S] \in Nat
  <2>1. CASE S = Root
    BY <2>1, <1>2, <1>3
  <2>2. CASE S # Root
    BY <2>2, <1>4
  <2> QED
    BY <2>1, <2>2
<1>6. vcount' \in [Arch -> Nat]
  BY <1>3, <1>5
<1> QED
  BY <1>2, <1>4, <1>6 DEF CountInv, VirtualCountExact

\* A retagged entity leaves one count and enters another, or neither.
LEMMA CountRetag ==
  ASSUME SlotInv, CountInv, NEW e \in alive, NEW new \in Arch, NEW ar, NEW ex,
         SetVirtual(e, new, ar, ex)
  PROVE  CountInv'
<1> DEFINE old == info[e].virt
           mid == AddVirtual(vcount, old, -1)
           upd == [info[e] EXCEPT !.virt = new]
<1>1. /\ alive' = alive /\ vcount' = AddVirtual(mid, new, 1)
      /\ info \in [Entity -> DbEntity] /\ alive \subseteq Entity
  BY DEF SetVirtual, SlotInv, SlotTypes
<1>2. info' = [info EXCEPT ![e] = upd]
  BY Zenon DEF SetVirtual
<1>3. e \in Entity /\ info[e] \in DbEntity /\ old \in Arch
  BY <1>1 DEF DbEntity
<1>4. upd.virt = new
  BY <1>3 DEF DbEntity
<1> HIDE DEF upd
<1>5. \A f \in alive : info'[f].virt = IF f = e THEN new ELSE info[f].virt
  BY <1>1, <1>2, <1>3, <1>4
<1>6. IsFiniteSet(alive) /\ vcount \in [Arch -> Nat]
  BY DEF CountInv
<1> HIDE DEF old, mid
<1>7. /\ mid \in [Arch -> Int]
      /\ \A T \in Arch : mid[T] = vcount[T] + (IF T = old /\ old # Root THEN -1 ELSE 0)
  <2>1. vcount \in [Arch -> Int] /\ -1 \in Int
    BY <1>6
  <2> QED
    BY <2>1, <1>3, AddVirtualOK DEF mid
<1>8. /\ vcount' \in [Arch -> Int]
      /\ \A T \in Arch : vcount'[T] = mid[T] + (IF T = new /\ new # Root THEN 1 ELSE 0)
  BY <1>1, <1>7, AddVirtualOK
<1>9. ASSUME NEW S \in Arch \ {Root}
      PROVE  vcount'[S] = Cardinality({f \in alive' : info'[f].virt = S}) /\ vcount'[S] \in Nat
  <2> DEFINE after == {f \in alive' : info'[f].virt = S}
             others == Members(S) \ {e}
  <2>1. after = IF S = new THEN others \cup {e} ELSE others
    BY <1>1, <1>5 DEF Members
  <2>2. e \in Members(S) <=> S = old
    BY DEF Members, old
  <2>3. /\ IsFiniteSet(Members(S)) /\ IsFiniteSet(others)
        /\ Cardinality(others) =
             IF e \in Members(S) THEN Cardinality(Members(S)) - 1 ELSE Cardinality(Members(S))
    BY <1>6, MembersFinite, FS_RemoveElement
  <2>4. /\ Cardinality(others) \in Nat
        /\ Cardinality(others \cup {e}) = Cardinality(others) + 1
    <3>1. e \notin others
      OBVIOUS
    <3> HIDE DEF others
    <3> QED
      BY <3>1, <2>3, FS_CardinalityType, FS_AddElement
  <2>5. vcount[S] = Cardinality(Members(S)) /\ vcount[S] \in Nat
    BY <1>6 DEF CountInv, VirtualCountExact, Members
  <2>6. vcount'[S] = Cardinality(others) + (IF S = new THEN 1 ELSE 0)
    <3> HIDE DEF others
    <3> QED
      BY <2>2, <2>3, <2>5, <1>7, <1>8
  <2> HIDE DEF after, others
  <2>7. vcount'[S] = Cardinality(after) /\ vcount'[S] \in Nat
    BY <2>1, <2>4, <2>6
  <2> QED
    BY <2>7 DEF after
<1>10. ASSUME NEW S \in Arch
       PROVE  vcount'[S] \in Nat
  <2>1. CASE S = Root
    BY <2>1, <1>6, <1>7, <1>8
  <2>2. CASE S # Root
    BY <2>2, <1>9
  <2> QED
    BY <2>1, <2>2
<1>11. vcount' \in [Arch -> Nat]
  BY <1>8, <1>10
<1> QED
  BY <1>1, <1>6, <1>9, <1>11 DEF CountInv, VirtualCountExact

\* Every step which is not one of these leaves the tags alone.
LEMMA OtherTags ==
  ASSUME SlotInv, [Next]_vars,
         ~ \E e \in Entity : SpawnEntity(e) \/ DespawnEntity(e),
         ~ \E e \in Entity, t \in Tag : TagEntity(e, t) \/ UntagEntity(e, t)
  PROVE  SameTags
<1> USE DEF vars, entityVars, graphVars, flushVars, SameTags
<1>1. CASE BeginQuery \/ EndQuery \/ FlushBegin \/ Panicked \/ UNCHANGED vars
  BY <1>1 DEF BeginQuery, EndQuery, FlushBegin, Panicked
<1>2. CASE FlushDead \/ FlushMove
  BY <1>2, FlushDeadTags, FlushMoveTags
<1>3. CASE FlushDeadDone \/ FlushSkip \/ FlushTruncate \/ FlushEnd
  BY <1>3 DEF FlushDeadDone, FlushSkip, FlushTruncate, FlushEnd
<1>4. CASE \E S \in del : FlushDelete(S)
  BY <1>4 DEF FlushDelete
<1> QED
  BY <1>1, <1>2, <1>3, <1>4 DEF Next, FlushStep

\* A retag is SetVirtual, of an alive entity, to an archetype looked up from its old
\* one; the lookup adds at most the new archetype and the edge between the two.
LEMMA RetagStep ==
  ASSUME SlotInv, NEW e \in Entity, NEW t \in Tag, TagEntity(e, t) \/ UntagEntity(e, t)
  PROVE  /\ e \in alive /\ pc = "idle" /\ info[e].virt \in Arch
         /\ \E new, ar, ex :
              /\ new \in Arch
              /\ SetVirtual(e, new, ar, ex)
              /\ ar = archs \cup {new} \/ (ar = archs /\ new = info[e].virt)
              /\ \/ ex = ext
                 \/ ex = ext \cup {<<info[e].virt, t>>} /\ new = info[e].virt \cup {t}
                 \/ ex = ext \cup {<<new, t>>} /\ info[e].virt = new \cup {t}
<1> DEFINE old == info[e].virt
<1>1. e \in alive /\ pc = "idle" /\ old \in Arch
  BY DEF TagEntity, UntagEntity, SlotInv, SlotTypes, DbEntity
<1>2. old \cup {t} \in Arch /\ old \ {t} \in Arch
  BY <1>1 DEF Arch
<1>3. t \in old => old = (old \ {t}) \cup {t}
  OBVIOUS
<1>4. \/ SetVirtual(e, old, archs, ext)
      \/ SetVirtual(e, old \cup {t}, archs \cup {old \cup {t}}, ext \cup {<<old, t>>})
      \/ t \in old /\ SetVirtual(e, old \ {t}, archs \cup {old \ {t}}, ext \cup {<<old \ {t}, t>>})
  BY DEF TagEntity, UntagEntity
<1> HIDE DEF old
<1> QED
  BY <1>1, <1>2, <1>3, <1>4 DEF old

\* Every step keeps the counters exact.
LEMMA CountStep == SlotInv /\ CountInv /\ [Next]_vars => CountInv'
<1> SUFFICES ASSUME SlotInv, CountInv, [Next]_vars PROVE CountInv'
  OBVIOUS
<1>1. CASE \E e \in Entity : SpawnEntity(e) \/ DespawnEntity(e)
  BY <1>1, CountSpawn, CountDespawn
<1>2. CASE \E e \in Entity, t \in Tag : TagEntity(e, t) \/ UntagEntity(e, t)
  BY <1>2, RetagStep, CountRetag
<1> QED
  BY <1>1, <1>2, OtherTags, CountFrame

-----------------------------------------------------------------------------
(* The graph.                                                              *)

\* Every dead entity is in its slot outside a flush.
DeadInPlace ==
  pc = "idle" =>
    \A i \in DOMAIN dead : <<dead[i].heap, dead[i].slot>> \in Used(list[dead[i].arch])

RefsInv == RefsLive /\ Root \in archs /\ DeadInPlace

\* A step which changes neither the graph nor anybody's tags.
SameGraph ==
  /\ UNCHANGED graphVars
  /\ SameTags
  /\ FlushDead \/ FlushMove \/ UNCHANGED <<alive, info, list, dead>>

\* A step which changes the graph, while the lists stay; no dead entity is out of
\* its place then.
NewGraph ==
  /\ list' = list
  /\ pc = "idle" \/ pc = "delete"
  /\ pc' = pc
  /\ \E ar, ex, gone : GraphStep(ar, ex, gone) /\ \A e \in alive' : info'[e].virt \in ar

\* Every step is of one of these kinds, or a spawn.
LEMMA GraphChange ==
  ASSUME SlotInv, GraphTypes, RefsInv, [Next]_vars
  PROVE  SameGraph \/ NewGraph \/ \E e \in Entity : SpawnEntity(e)
<1>0. /\ archs \subseteq Arch /\ ext \subseteq Arch \X Tag
      /\ \A e \in alive : info[e].virt \in archs
      /\ info \in [Entity -> DbEntity] /\ alive \subseteq Entity
  BY DEF GraphTypes, RefsInv, RefsLive, SlotInv, SlotTypes
<1>1. ASSUME NEW e \in Entity, DespawnEntity(e)
      PROVE  NewGraph
  <2> DEFINE vc == AddVirtual(vcount, info[e].virt, -1)
             gone == Obsolete(archs, ext, vc, list, info[e].virt)
  <2>1. /\ pc = "idle" /\ list' = list /\ pc' = pc /\ vcount' = vc /\ SetGraph(archs, ext, gone)
        /\ alive' = alive \ {e} /\ info' = [info EXCEPT ![e] = NewEntity]
    BY <1>1 DEF DespawnEntity, flushVars
  <2>2. \A S \in gone : Unused(vc, list, S)
    BY ObsoleteUnused
  <2> HIDE DEF vc, gone
  <2>3. \A f \in alive' : info'[f].virt \in archs
    BY <2>1, <1>0
  <2>4. GraphStep(archs, ext, gone)
    BY <2>1, <2>2, <1>0 DEF GraphStep
  <2> QED
    BY <2>1, <2>3, <2>4 DEF NewGraph
<1>2. ASSUME NEW e \in Entity, NEW t \in Tag, TagEntity(e, t) \/ UntagEntity(e, t)
      PROVE  NewGraph
  <2> DEFINE old == info[e].virt
  <2>1. PICK new, ar, ex :
          /\ new \in Arch
          /\ SetVirtual(e, new, ar, ex)
          /\ ar = archs \cup {new} \/ (ar = archs /\ new = old)
          /\ \/ ex = ext
             \/ ex = ext \cup {<<old, t>>} /\ new = old \cup {t}
             \/ ex = ext \cup {<<new, t>>} /\ old = new \cup {t}
    BY <1>2, RetagStep
  <2>2. e \in alive /\ pc = "idle" /\ old \in Arch /\ old \in archs
    BY <1>0, <1>2, RetagStep
  <2> DEFINE vc == AddVirtual(AddVirtual(vcount, old, -1), new, 1)
             gone == Obsolete(ar, ex, vc, list, old)
             upd == [info[e] EXCEPT !.virt = new]
  <2>3. /\ list' = list /\ pc' = pc /\ alive' = alive /\ vcount' = vc /\ SetGraph(ar, ex, gone)
    BY <2>1 DEF SetVirtual, flushVars
  <2>4. info' = [info EXCEPT ![e] = upd]
    BY <2>1, Zenon DEF SetVirtual
  <2>5. upd.virt = new
    BY <2>2, <1>0 DEF DbEntity
  <2>6. \A S \in gone : Unused(vc, list, S)
    BY ObsoleteUnused
  <2> HIDE DEF vc, gone, upd, old
  <2>7. archs \subseteq ar /\ ar \subseteq Arch /\ new \in ar /\ old \in ar
    BY <2>1, <2>2, <1>0
  <2>8. /\ ext \subseteq ex /\ ex \subseteq Arch \X Tag
        /\ \A edge \in ex \ ext : edge[1] \in ar /\ edge[1] \cup {edge[2]} \in ar
    <3>1. CASE ex = ext
      BY <3>1, <1>0
    <3>2. CASE \E x \in ar : ex = ext \cup {<<x, t>>} /\ x \cup {t} \in ar
      <4>1. PICK x \in ar : ex = ext \cup {<<x, t>>} /\ x \cup {t} \in ar
        BY <3>2
      <4>2. <<x, t>> \in Arch \X Tag
        BY <2>7
      <4>3. \A edge \in ex \ ext : edge = <<x, t>>
        BY <4>1
      <4>4. <<x, t>>[1] = x /\ <<x, t>>[2] = t
        OBVIOUS
      <4>5. \A edge \in ex \ ext : edge[1] \in ar /\ edge[1] \cup {edge[2]} \in ar
        BY <4>1, <4>3, <4>4, Zenon
      <4>6. ext \subseteq ex /\ ex \subseteq Arch \X Tag
        BY <4>1, <4>2, <1>0, Zenon
      <4> QED
        BY <4>5, <4>6
    <3> QED
      BY <3>1, <3>2, <2>1, <2>7
  <2>9. GraphStep(ar, ex, gone)
    BY <2>3, <2>6, <2>7, <2>8 DEF GraphStep
  <2>10. \A f \in alive' : info'[f].virt \in ar
    BY <2>2, <2>3, <2>4, <2>5, <2>7, <1>0
  <2> QED
    BY <2>2, <2>3, <2>9, <2>10 DEF NewGraph
<1>3. ASSUME NEW S \in del, FlushDelete(S)
      PROVE  SameGraph \/ NewGraph
  <2> DEFINE gone == Obsolete(archs, ext, vcount, list, S)
  <2>1. /\ list' = list /\ pc = "delete" /\ alive' = alive /\ info' = info /\ vcount' = vcount
        /\ dead' = dead
        /\ \/ UNCHANGED graphVars
           \/ pc' = pc /\ SetGraph(archs, ext, gone)
    BY <1>3 DEF FlushDelete, entityVars
  <2>2. \A T \in gone : Unused(vcount, list, T)
    BY ObsoleteUnused
  <2> HIDE DEF gone
  <2>3. SetGraph(archs, ext, gone) => GraphStep(archs, ext, gone)
    BY <2>1, <2>2, <1>0 DEF GraphStep
  <2> QED
    BY <2>1, <2>3, <1>0 DEF SameGraph, SameTags, NewGraph
<1>4. CASE BeginQuery \/ EndQuery \/ FlushBegin \/ Panicked \/ UNCHANGED vars
  BY <1>4 DEF BeginQuery, EndQuery, FlushBegin, Panicked, vars, entityVars, graphVars, flushVars, SameGraph, SameTags
<1>5. CASE FlushDeadDone \/ FlushSkip \/ FlushTruncate \/ FlushEnd
  BY <1>5 DEF FlushDeadDone, FlushSkip, FlushTruncate, FlushEnd, entityVars, graphVars, SameGraph, SameTags
<1>6. CASE FlushDead \/ FlushMove
  <2>1. SameTags
    BY <1>6, FlushDeadTags, FlushMoveTags
  <2>2. UNCHANGED graphVars
    BY <1>6, Zenon DEF FlushDead, FlushMove, graphVars
  <2> QED
    BY <1>6, <2>1, <2>2 DEF SameGraph
<1> QED
  BY <1>1, <1>2, <1>3, <1>4, <1>5, <1>6 DEF Next, FlushStep

\* The graph's part of a step keeps its types and registers in the containers exactly
\* the archetypes it keeps; it keeps every archetype with an entity, and the ends of
\* every edge it keeps.
LEMMA GraphStepOK ==
  ASSUME GraphTypes, ContainersExact, RefsLive, NEW ar, NEW ex, NEW gone, GraphStep(ar, ex, gone)
  PROVE  /\ archs' \subseteq Arch /\ ext' \subseteq Arch \X Tag /\ containers' \in [Tag -> SUBSET Arch]
         /\ ContainersExact'
         /\ archs \ archs' \subseteq gone
         /\ \A S \in ar : S = Root \/ list[S].heaps # <<>> \/ vcount'[S] # 0 => S \in archs'
         /\ \A edge \in ext' : edge[1] \in archs' /\ edge[1] \cup {edge[2]} \in archs'
<1>1. /\ archs \subseteq ar /\ ar \subseteq Arch /\ ext \subseteq ex /\ ex \subseteq Arch \X Tag
      /\ \A edge \in ex \ ext : edge[1] \in ar /\ edge[1] \cup {edge[2]} \in ar
      /\ \A S \in gone : Unused(vcount', list, S)
      /\ archs' = ar \ gone
      /\ ext' = {edge \in ex : edge[1] \notin gone /\ edge[1] \cup {edge[2]} \notin gone}
      /\ containers' = [t \in Tag |-> (containers[t] \cup {S \in ar \ archs : t \in S}) \ gone]
  BY DEF GraphStep, SetGraph
<1>2. archs' \subseteq Arch /\ archs \ archs' \subseteq gone
  BY <1>1
<1>3. ext' \subseteq Arch \X Tag
  BY <1>1
<1>4. \A t \in Tag : containers[t] = {S \in archs : t \in S}
  BY DEF ContainersExact
<1>5. \A t \in Tag : containers'[t] = {S \in archs' : t \in S}
  BY <1>1, <1>4
<1>6. containers' \in [Tag -> SUBSET Arch]
  BY <1>1, <1>2, <1>4
<1>7. \A S \in ar : S = Root \/ list[S].heaps # <<>> \/ vcount'[S] # 0 => S \in archs'
  BY <1>1 DEF Unused
<1>8. ASSUME NEW edge \in ext'
      PROVE  edge[1] \in archs' /\ edge[1] \cup {edge[2]} \in archs'
  <2>1. edge \in ex /\ edge[1] \notin gone /\ edge[1] \cup {edge[2]} \notin gone
    BY <1>1
  <2>2. edge \in ext => edge[1] \in archs /\ edge[1] \cup {edge[2]} \in archs
    BY DEF RefsLive
  <2>3. edge[1] \in ar /\ edge[1] \cup {edge[2]} \in ar
    BY <2>1, <2>2, <1>1
  <2> QED
    BY <2>1, <2>3, <1>1
<1> QED
  BY <1>2, <1>3, <1>5, <1>6, <1>7, <1>8 DEF ContainersExact

\* The containers stay exact.
LEMMA ContainersStep ==
  SlotInv /\ GraphTypes /\ RefsInv /\ ContainersExact /\ [Next]_vars => ContainersExact'
<1> SUFFICES ASSUME SlotInv, GraphTypes, RefsInv, ContainersExact, [Next]_vars
             PROVE  ContainersExact'
  OBVIOUS
<1>1. CASE SameGraph \/ \E e \in Entity : SpawnEntity(e)
  BY <1>1 DEF SameGraph, SpawnEntity, graphVars, ContainersExact
<1>2. CASE NewGraph
  BY <1>2, GraphStepOK DEF NewGraph, RefsInv
<1> QED
  BY <1>1, <1>2, GraphChange

\* The types stay.
LEMMA GraphTypesStep ==
  SlotInv /\ GraphTypes /\ RefsInv /\ ContainersExact /\ [Next]_vars => GraphTypes'
<1> SUFFICES ASSUME SlotInv, GraphTypes, RefsInv, ContainersExact, [Next]_vars
             PROVE  GraphTypes'
  OBVIOUS
<1> USE DEF vars, entityVars, graphVars, flushVars
<1>1. archs' \subseteq Arch /\ ext' \subseteq Arch \X Tag /\ containers' \in [Tag -> SUBSET Arch]
  <2>1. CASE SameGraph \/ \E e \in Entity : SpawnEntity(e)
    BY <2>1 DEF SameGraph, SpawnEntity, GraphTypes
  <2>2. CASE NewGraph
    BY <2>2, GraphStepOK DEF NewGraph, RefsInv
  <2> QED
    BY <2>1, <2>2, GraphChange
<1>2. queries' \in Nat /\ trunc' \subseteq Arch /\ del' \subseteq Arch
  <2>1. queries \in Nat /\ trunc \subseteq Arch /\ del \subseteq Arch
    BY DEF GraphTypes
  <2>2. CASE \E e \in Entity : SpawnEntity(e) \/ DespawnEntity(e)
    BY <2>1, <2>2 DEF SpawnEntity, DespawnEntity
  <2>3. CASE \E e \in Entity, t \in Tag : TagEntity(e, t) \/ UntagEntity(e, t)
    BY <2>1, <2>3 DEF TagEntity, UntagEntity, SetVirtual
  <2>4. CASE BeginQuery \/ EndQuery \/ FlushBegin \/ Panicked \/ UNCHANGED vars
    BY <2>1, <2>4 DEF BeginQuery, EndQuery, FlushBegin, Panicked
  <2>5. CASE FlushDeadDone \/ FlushSkip \/ FlushTruncate \/ FlushEnd \/ \E S \in del : FlushDelete(S)
    BY <2>1, <2>5 DEF FlushDeadDone, FlushSkip, FlushTruncate, FlushEnd, FlushDelete
  <2>6. ASSUME NEW S \in Arch, NEW l, NoteShrunk(S, l)
        PROVE  trunc' \subseteq Arch /\ del' \subseteq Arch
    BY <2>1, <2>6 DEF NoteShrunk
  <2>7. CASE FlushDead
    <3>1. queries' = queries /\ \E l : NoteShrunk(Head(dead).arch, l)
      BY <2>7 DEF FlushDead
    <3>2. Head(dead) \in DbDirtyDeadEntity
      BY <2>7, TailOf DEF FlushDead, SlotInv, SlotTypes
    <3>3. Head(dead).arch \in Arch
      BY <3>2 DEF DbDirtyDeadEntity
    <3> QED
      BY <3>1, <3>3, <2>1, <2>6
  <2>8. CASE FlushMove
    <3>1. /\ queries' = queries /\ Head(dirty) \in alive
          /\ (trunc' = trunc /\ del' = del) \/ \E l : NoteShrunk(info[Head(dirty)].phys, l)
      BY <2>8 DEF FlushMove
    <3>2. info[Head(dirty)].phys \in Arch
      BY <3>1 DEF SlotInv, SlotTypes, DbEntity
    <3> QED
      BY <3>1, <3>2, <2>1, <2>6
  <2> QED
    BY <2>2, <2>3, <2>4, <2>5, <2>7, <2>8 DEF Next, FlushStep
<1> QED
  BY <1>1, <1>2 DEF GraphTypes

\* Outside a flush only a despawn adds a dead entity, and it is in its slot.
LEMMA DeadInPlaceStep ==
  ASSUME SlotInv, DeadInPlace, [Next]_vars
  PROVE  DeadInPlace'
<1> USE DEF vars, entityVars, graphVars, flushVars
<1>0. SlotTypes /\ SlotsMirror /\ DeadOK
  BY DEF SlotInv
<1>1. ASSUME pc = "idle", list' = list, dead' = dead
      PROVE  DeadInPlace'
  BY <1>1 DEF DeadInPlace
<1>2. CASE \E e \in Entity : SpawnEntity(e)
  BY <1>1, <1>2 DEF SpawnEntity
<1>3. ASSUME NEW e \in Entity, DespawnEntity(e)
      PROVE  DeadInPlace'
  <2> DEFINE d == [entity |-> e, arch |-> info[e].phys, heap |-> info[e].heap, slot |-> info[e].slot]
  <2>1. /\ pc = "idle" /\ e \in alive /\ list' = list
        /\ dead' = IF info[e].phys = Root THEN dead ELSE Append(dead, d)
    BY <1>3 DEF DespawnEntity, Buried, BuryAs
  <2>2. info[e].phys # Root => <<info[e].heap, info[e].slot>> \in Used(list[info[e].phys])
    BY <2>1, <1>0, MirrorOf
  <2>3. CASE info[e].phys = Root
    BY <2>1, <2>3, <1>1
  <2>4. CASE info[e].phys # Root
    <3>1. d \in DbDirtyDeadEntity /\ dead \in Seq(DbDirtyDeadEntity)
      <4>1. info[e] \in DbEntity
        BY <1>0 DEF SlotTypes
      <4> QED
        BY <4>1, <1>0 DEF DbEntity, DbDirtyDeadEntity, SlotTypes
    <3>2. d.arch = info[e].phys /\ d.heap = info[e].heap /\ d.slot = info[e].slot
      OBVIOUS
    <3> HIDE DEF d
    <3>3. /\ DOMAIN dead = 1 .. Len(dead) /\ DOMAIN dead' = 1 .. Len(dead) + 1 /\ Len(dead) \in Nat
          /\ \A i \in 1 .. Len(dead) : dead'[i] = dead[i]
          /\ dead'[Len(dead) + 1] = d
      BY <2>1, <2>4, <3>1, AppendProperties, LenProperties
    <3>4. ASSUME NEW i \in DOMAIN dead'
          PROVE  <<dead'[i].heap, dead'[i].slot>> \in Used(list'[dead'[i].arch])
      <4>1. CASE i \in DOMAIN dead
        BY <4>1, <3>3, <2>1 DEF DeadInPlace
      <4>2. CASE i = Len(dead) + 1
        BY <4>2, <3>2, <3>3, <2>1, <2>2, <2>4
      <4> QED
        BY <4>1, <4>2, <3>3, SMTT(30)
    <3> QED
      BY <3>4 DEF DeadInPlace
  <2> QED
    BY <2>3, <2>4
<1>4. ASSUME NEW e \in Entity, NEW t \in Tag, TagEntity(e, t) \/ UntagEntity(e, t)
      PROVE  DeadInPlace'
  <2>1. pc = "idle" /\ \E new, ar, ex : SetVirtual(e, new, ar, ex)
    BY <1>4, RetagStep
  <2> QED
    BY <2>1, <1>1 DEF SetVirtual
<1>5. CASE BeginQuery \/ EndQuery
  BY <1>1, <1>5 DEF BeginQuery, EndQuery
<1>6. CASE FlushBegin
  BY <1>6 DEF FlushBegin, DeadInPlace
<1>7. CASE UNCHANGED vars \/ Panicked
  BY <1>7 DEF Panicked, DeadInPlace
<1>8. CASE FlushDead \/ FlushDeadDone \/ FlushSkip \/ FlushMove \/ FlushTruncate
  BY <1>8, Zenon DEF FlushDead, FlushDeadDone, FlushSkip, FlushMove, FlushTruncate, DeadInPlace
<1>9. CASE \E S \in del : FlushDelete(S)
  BY <1>9 DEF FlushDelete, DeadInPlace
<1>10. CASE FlushEnd
  <2>1. dead' = <<>>
    BY <1>10, <1>0 DEF FlushEnd, DeadOK
  <2>2. DOMAIN dead' = {}
    BY <2>1
  <2> QED
    BY <2>2 DEF DeadInPlace
<1> QED
  BY <1>2, <1>3, <1>4, <1>5, <1>6, <1>7, <1>8, <1>9, <1>10 DEF Next, FlushStep

\* A list in use is not empty.
LEMMA ListInUse ==
  ASSUME SlotInv, NEW S \in Arch, NEW p \in Used(list[S])
  PROVE  list[S].heaps # <<>>
BY BackOf DEF SlotInv, SlotTypes

\* No step leaves a reference to a removed archetype behind.
LEMMA RefsStep ==
  SlotInv /\ GraphTypes /\ CountInv /\ RefsInv /\ ContainersExact /\ SlotInv' /\ CountInv' /\ [Next]_vars
    => RefsInv'
<1> SUFFICES ASSUME SlotInv, GraphTypes, CountInv, RefsInv, ContainersExact, SlotInv', CountInv', [Next]_vars
             PROVE  RefsInv'
  OBVIOUS
<1> USE DEF vars, entityVars, graphVars, flushVars
<1>0. /\ RefsLive /\ Root \in archs /\ DeadInPlace
      /\ \A e \in alive : info[e].virt \in archs /\ info[e].phys \in archs
      /\ \A S \in Arch \ archs : list[S].heaps = <<>>
      /\ archs \subseteq Arch
  BY DEF RefsInv, RefsLive, GraphTypes
<1>1. DeadInPlace'
  BY <1>0, DeadInPlaceStep
\* The graph stays: nothing new is referred to.
<1>2. ASSUME UNCHANGED graphVars,
             \A e \in alive' : info'[e].virt \in archs /\ info'[e].phys \in archs,
             Items(dead') \subseteq Items(dead),
             \A S \in Arch \ archs : list'[S].heaps = <<>>
      PROVE  RefsInv'
  BY <1>0, <1>1, <1>2 DEF RefsInv, RefsLive
<1>3. CASE \E e \in Entity : SpawnEntity(e)
  <2>1. PICK e \in Entity : SpawnEntity(e)
    BY <1>3
  <2>2. /\ alive' = alive \cup {e} /\ info' = [info EXCEPT ![e] = NewEntity]
        /\ list' = list /\ dead' = dead /\ UNCHANGED graphVars
        /\ info \in [Entity -> DbEntity] /\ alive \subseteq Entity
    BY <2>1 DEF SpawnEntity, SlotInv, SlotTypes
  <2>3. NewEntity.virt = Root /\ NewEntity.phys = Root
    BY DEF NewEntity
  <2>4. \A f \in alive' : info'[f].virt \in archs /\ info'[f].phys \in archs
    BY <2>2, <2>3, <1>0
  <2> QED
    BY <2>2, <2>4, <1>0, <1>2
<1>4. CASE SameGraph /\ FlushDead
  <2>1. /\ alive' = alive /\ dead # <<>> /\ dead' = Tail(dead)
        /\ \E l : list' = [list EXCEPT ![Head(dead).arch] = l]
    BY <1>4 DEF FlushDead
  <2>2. Items(dead') \subseteq Items(dead) /\ Head(dead) \in Items(dead)
    BY <2>1, TailOf DEF SlotInv, SlotTypes, Items
  <2>3. Head(dead).arch \in archs
    BY <2>2, <1>0 DEF RefsLive
  <2>4. \A S \in Arch \ archs : list'[S] = list[S]
    BY <2>1, <2>3 DEF SlotInv, SlotTypes
  <2>5. \A e \in alive : info'[e].virt = info[e].virt /\ info'[e].phys = info[e].phys
    BY <1>4, FlushDeadTags DEF SameTags
  <2> QED
    BY <2>1, <2>2, <2>4, <2>5, <1>0, <1>2, <1>4 DEF SameGraph
<1>5. CASE SameGraph /\ FlushMove
  <2> DEFINE m == Head(dirty)
  <2>1. /\ alive' = alive /\ dead' = dead /\ m \in alive
        /\ \E l, k : \/ list' = list \/ list' = [list EXCEPT ![info[m].virt] = l]
                     \/ list' = [list EXCEPT ![info[m].phys] = k]
                     \/ list' = [[list EXCEPT ![info[m].virt] = l] EXCEPT ![info[m].phys] = k]
    BY <1>5, Zenon DEF FlushMove, entityVars
  <2>2. info[m].virt \in archs /\ info[m].phys \in archs
    BY <2>1, <1>0
  <2>3. \A S \in Arch \ archs : list'[S] = list[S]
    BY <2>1, <2>2 DEF SlotInv, SlotTypes
  <2>4. \A e \in alive : info'[e].virt = info[e].virt
    BY <1>5, FlushMoveTags DEF SameTags
  <2>5. \A e \in alive : info'[e].phys = info[e].phys \/ (e = m /\ info'[e].phys = info'[e].virt)
    BY <1>5, FlushMoveTags
  <2>6. \A e \in alive' : info'[e].virt \in archs /\ info'[e].phys \in archs
    BY <2>1, <2>4, <2>5, <1>0
  <2> QED
    BY <2>1, <2>3, <2>6, <1>0, <1>2, <1>5 DEF SameGraph
<1>6. CASE SameGraph /\ UNCHANGED <<alive, info, list, dead>>
  BY <1>0, <1>2, <1>6 DEF SameGraph
\* The graph changes: what is in use is not removed.
<1>7. CASE NewGraph
  <2>1. PICK ar, ex, gone : GraphStep(ar, ex, gone) /\ \A e \in alive' : info'[e].virt \in ar
    BY <1>7 DEF NewGraph
  <2>2. list' = list /\ pc' = pc /\ (pc = "idle" \/ pc = "delete")
    BY <1>7 DEF NewGraph
  <2>3. /\ archs' \subseteq Arch /\ archs \ archs' \subseteq gone
        /\ \A S \in ar : S = Root \/ list[S].heaps # <<>> \/ vcount'[S] # 0 => S \in archs'
        /\ \A edge \in ext' : edge[1] \in archs' /\ edge[1] \cup {edge[2]} \in archs'
    BY <2>1, <1>0, GraphStepOK
  <2>4. archs \subseteq ar /\ ar \subseteq Arch /\ \A S \in gone : Unused(vcount', list, S)
    BY <2>1 DEF GraphStep
  <2>5. \A S \in Arch : list[S].heaps # <<>> => S \in archs'
    BY <2>3, <2>4, <1>0
  <2>6. ASSUME NEW e \in alive'
        PROVE  info'[e].virt \in archs'
    <3>1. CASE info'[e].virt = Root
      BY <3>1, <2>1, <2>3
    <3>2. CASE info'[e].virt # Root
      <4> DEFINE S == info'[e].virt
                 members == {f \in alive' : info'[f].virt = S}
      <4>1. S \in Arch \ {Root}
        BY <3>2, <2>1, <2>4
      <4>2. IsFiniteSet(alive') /\ vcount'[S] = Cardinality(members)
        BY <4>1 DEF CountInv, VirtualCountExact
      <4>3. e \in members /\ members \in SUBSET alive'
        OBVIOUS
      <4> HIDE DEF members
      <4>4. Cardinality(members) # 0
        BY <4>2, <4>3, FS_Subset, FS_EmptySet
      <4> QED
        BY <4>2, <4>4, <2>1, <2>3
    <3> QED
      BY <3>1, <3>2
  <2>7. ASSUME NEW e \in alive'
        PROVE  info'[e].phys \in archs'
    <3>1. info'[e].phys \in Arch
      BY DEF SlotInv, SlotTypes, DbEntity
    <3>2. CASE info'[e].phys = Root
      BY <3>2, <2>3, <2>4, <1>0
    <3>3. CASE info'[e].phys # Root
      <4>1. <<info'[e].heap, info'[e].slot>> \in Used(list[info'[e].phys])
        BY <3>3, <2>2 DEF SlotInv, SlotsMirror
      <4> QED
        BY <4>1, <3>1, <2>5, ListInUse
    <3> QED
      BY <3>2, <3>3
  <2>8. ASSUME NEW d \in Items(dead')
        PROVE  d.arch \in archs'
    <3>1. PICK i \in DOMAIN dead' : d = dead'[i]
      BY DEF Items
    <3>2. pc = "idle"
      <4>1. pc = "delete" => dead' = <<>>
        BY <2>2 DEF SlotInv, DeadOK
      <4>2. dead' # <<>>
        BY <3>1
      <4> QED
        BY <4>1, <4>2, <2>2
    <3>3. <<d.heap, d.slot>> \in Used(list[d.arch])
      BY <3>1, <3>2, <1>1, <2>2 DEF DeadInPlace
    <3>4. d \in DbDirtyDeadEntity
      BY <3>1, LenProperties, ElementOfSeq DEF SlotInv, SlotTypes
    <3> QED
      BY <3>3, <3>4, <2>5, ListInUse DEF DbDirtyDeadEntity
  <2>9. \A S \in Arch \ archs' : list'[S].heaps = <<>>
    BY <2>2, <2>5
  <2>10. Root \in archs'
    BY <1>0, <2>3, <2>4
  <2> QED
    BY <2>3, <2>6, <2>7, <2>8, <2>9, <2>10, <1>1 DEF RefsInv, RefsLive
<1> QED
  BY <1>3, <1>4, <1>5, <1>6, <1>7, GraphChange DEF SameGraph

-----------------------------------------------------------------------------
(* The dirty list and the queries.                                         *)

\* An entity leaves the dirty list only when it is where its tags say.
LEMMA DirtyStep == SlotInv /\ NoFalseNegatives /\ [Next]_vars => NoFalseNegatives'
<1> SUFFICES ASSUME SlotInv, NoFalseNegatives, [Next]_vars PROVE NoFalseNegatives'
  OBVIOUS
<1> USE DEF vars, entityVars, graphVars, flushVars
<1>0. /\ info \in [Entity -> DbEntity] /\ alive \subseteq Entity /\ dirty \in Seq(Entity)
      /\ \A e \in alive : info[e].phys # info[e].virt => e \in Items(dirty)
  BY DEF SlotInv, SlotTypes, NoFalseNegatives
<1>1. CASE UNCHANGED <<alive, info, dirty>>
  BY <1>1 DEF NoFalseNegatives
<1>2. CASE \E e \in Entity : SpawnEntity(e) \/ DespawnEntity(e)
  <2>1. PICK e \in Entity : SpawnEntity(e) \/ DespawnEntity(e)
    BY <1>2
  <2>2. /\ info' = [info EXCEPT ![e] = NewEntity] /\ dirty' = dirty
        /\ alive' \subseteq alive \cup {e}
    BY <2>1 DEF SpawnEntity, DespawnEntity
  <2>3. NewEntity.phys = NewEntity.virt
    BY DEF NewEntity
  <2> QED
    BY <2>2, <2>3, <1>0 DEF NoFalseNegatives
<1>3. ASSUME NEW e \in Entity, NEW t \in Tag, TagEntity(e, t) \/ UntagEntity(e, t)
      PROVE  NoFalseNegatives'
  <2>1. PICK new, ar, ex : new \in Arch /\ SetVirtual(e, new, ar, ex)
    BY <1>3, RetagStep
  <2> DEFINE upd == [info[e] EXCEPT !.virt = new]
  <2>2. info' = [info EXCEPT ![e] = upd]
    BY <2>1, Zenon DEF SetVirtual
  <2>3. /\ alive' = alive
        /\ dirty' = IF info[e].phys = info[e].virt /\ info[e].phys # new THEN Append(dirty, e) ELSE dirty
    BY <2>1 DEF SetVirtual, BecameDirty
  <2>4. upd.virt = new /\ upd.phys = info[e].phys
    BY <1>0 DEF DbEntity
  <2> HIDE DEF upd
  <2>5. Items(dirty) \subseteq Items(dirty') /\ (dirty' # dirty => e \in Items(dirty'))
    <3>1. /\ Append(dirty, e) \in Seq(Entity) /\ Len(Append(dirty, e)) = Len(dirty) + 1
          /\ \A i \in 1 .. Len(dirty) : Append(dirty, e)[i] = dirty[i]
          /\ Append(dirty, e)[Len(dirty) + 1] = e
      BY <1>0, AppendProperties
    <3>2. Len(dirty) \in Nat /\ DOMAIN dirty = 1 .. Len(dirty) /\ DOMAIN Append(dirty, e) = 1 .. Len(dirty) + 1
      BY <3>1, <1>0, LenProperties
    <3>3. Items(dirty) \subseteq Items(Append(dirty, e)) /\ e \in Items(Append(dirty, e))
      BY <3>1, <3>2 DEF Items
    <3> QED
      BY <3>3, <2>3
  <2>6. info[e].phys = info[e].virt /\ info[e].phys # new => e \in Items(dirty')
    <3>1. e \in Items(Append(dirty, e))
      <4>1. /\ Append(dirty, e) \in Seq(Entity) /\ Len(Append(dirty, e)) = Len(dirty) + 1
            /\ Append(dirty, e)[Len(dirty) + 1] = e /\ Len(dirty) \in Nat
        BY <1>0, AppendProperties, LenProperties
      <4>2. Len(dirty) + 1 \in DOMAIN Append(dirty, e)
        BY <4>1, LenProperties
      <4> QED
        BY <4>1, <4>2 DEF Items
    <3> QED
      BY <3>1, <2>3
  <2>7. ASSUME NEW f \in alive', info'[f].phys # info'[f].virt
        PROVE  f \in Items(dirty')
    <3>1. CASE f = e
      BY <3>1, <2>2, <2>3, <2>4, <2>5, <2>6, <2>7, <1>0
    <3>2. CASE f # e
      BY <3>2, <2>2, <2>3, <2>5, <2>7, <1>0
    <3> QED
      BY <3>1, <3>2
  <2> QED
    BY <2>7 DEF NoFalseNegatives
<1>4. ASSUME dirty # <<>>, dirty' = Tail(dirty)
      PROVE  \A e \in Items(dirty) : e = Head(dirty) \/ e \in Items(dirty')
  <2> TAKE e \in Items(dirty)
  <2>1. PICK i \in DOMAIN dirty : e = dirty[i]
    BY DEF Items
  <2>2. Head(dirty) = dirty[1]
    BY <1>0, <1>4, TailOf
  <2>3. i # 1 => i - 1 \in DOMAIN dirty' /\ dirty'[i - 1] = e
    BY <2>1, <1>0, <1>4, TailOf
  <2> QED
    BY <2>1, <2>2, <2>3 DEF Items
<1>5. CASE FlushSkip
  BY <1>0, <1>4, <1>5 DEF FlushSkip, NoFalseNegatives
<1>6. CASE FlushMove
  <2>1. dirty # <<>> /\ dirty' = Tail(dirty) /\ alive' = alive
    BY <1>6 DEF FlushMove
  <2> QED
    BY <2>1, <1>0, <1>4, <1>6, FlushMoveTags DEF SameTags, NoFalseNegatives
<1>7. CASE FlushDead
  <2>1. dirty' = dirty /\ alive' = alive
    BY <1>7 DEF FlushDead
  <2> QED
    BY <2>1, <1>0, <1>7, FlushDeadTags DEF SameTags, NoFalseNegatives
<1>8. CASE BeginQuery \/ EndQuery \/ FlushBegin \/ Panicked \/ UNCHANGED vars
  BY <1>1, <1>8 DEF BeginQuery, EndQuery, FlushBegin, Panicked
<1>9. CASE FlushDeadDone \/ FlushTruncate \/ FlushEnd \/ \E S \in del : FlushDelete(S)
  BY <1>1, <1>9 DEF FlushDeadDone, FlushTruncate, FlushEnd, FlushDelete
<1> QED
  BY <1>2, <1>3, <1>5, <1>6, <1>7, <1>8, <1>9 DEF Next, FlushStep

\* A query and a flush never run at the same time.
QueryInv == queries \in Nat /\ (queries > 0 => pc = "idle")

\* A flush begins only without queries, and no query begins during a flush.
LEMMA QueryStep == QueryInv /\ [Next]_vars => QueryInv'
<1> SUFFICES ASSUME QueryInv, [Next]_vars PROVE QueryInv'
  OBVIOUS
<1> USE DEF vars, entityVars, graphVars, flushVars, QueryInv
<1>1. CASE \E e \in Entity : SpawnEntity(e) \/ DespawnEntity(e)
  BY <1>1 DEF SpawnEntity, DespawnEntity
<1>2. CASE \E e \in Entity, t \in Tag : TagEntity(e, t) \/ UntagEntity(e, t)
  BY <1>2 DEF TagEntity, UntagEntity, SetVirtual
<1>3. CASE BeginQuery \/ EndQuery \/ FlushBegin \/ Panicked \/ UNCHANGED vars
  BY <1>3 DEF BeginQuery, EndQuery, FlushBegin, Panicked
<1>4. CASE FlushStep
  <2>1. pc # "idle" /\ queries' = queries
    BY <1>4, Zenon DEF FlushStep, FlushDead, FlushDeadDone, FlushSkip, FlushMove, FlushTruncate, FlushDelete, FlushEnd
  <2> QED
    BY <2>1
<1> QED
  BY <1>1, <1>2, <1>3, <1>4 DEF Next

-----------------------------------------------------------------------------
(* The theorems.                                                           *)

\* The inductive invariant.
Inv ==
  /\ SlotInv
  /\ GraphTypes
  /\ CountInv
  /\ RefsInv
  /\ ContainersExact
  /\ NoFalseNegatives
  /\ QueryInv

\* It holds at first, when nothing is alive.
LEMMA InvInit == Init => Inv
<1> SUFFICES ASSUME Init PROVE Inv
  OBVIOUS
<1> USE DEF Init
<1>1. SlotInv
  BY SlotInit
<1>2. GraphTypes
  BY DEF GraphTypes, Arch, Root
<1>3. CountInv
  <2>1. \A S : {e \in alive : info[e].virt = S} = {}
    OBVIOUS
  <2>2. IsFiniteSet(alive) /\ vcount \in [Arch -> Nat]
    BY FS_EmptySet
  <2> QED
    BY <2>1, <2>2, FS_EmptySet DEF CountInv, VirtualCountExact
<1>4. RefsInv
  <2>1. DOMAIN dead = {}
    OBVIOUS
  <2> QED
    BY <2>1 DEF RefsInv, RefsLive, DeadInPlace, Items, EmptyList
<1>5. ContainersExact
  BY DEF ContainersExact, Root
<1>6. NoFalseNegatives /\ QueryInv
  BY DEF NoFalseNegatives, QueryInv
<1> QED
  BY <1>1, <1>2, <1>3, <1>4, <1>5, <1>6 DEF Inv

\* It holds of every reachable state.
LEMMA Invariant == Spec => []Inv
<1>1. Inv /\ [Next]_vars => Inv'
  BY SlotStep, GraphTypesStep, CountStep, RefsStep, ContainersStep, DirtyStep, QueryStep DEF Inv
<1> QED
  BY <1>1, InvInit, PTL DEF Spec

\* Every variable keeps its type; in particular virtual_count, an unsigned counter
\* decremented without a check on every retag and despawn, never passes below zero.
THEOREM TypeCorrect == Spec => []TypeOK
<1>1. Inv => TypeOK
  BY DEF Inv, SlotInv, SlotTypes, GraphTypes, CountInv, TypeOK
<1> QED
  BY <1>1, Invariant, PTL

\* virtual_count counts exactly the alive entities whose virtual archetype this is,
\* whatever the retags, despawns and flushes: what can_remove_archetype relies on.
THEOREM VirtualCountTheorem == Spec => []VirtualCountExact
<1>1. Inv => VirtualCountExact
  BY DEF Inv, CountInv
<1> QED
  BY <1>1, Invariant, PTL

\* No archetype is given back to the arena while an alive entity, an entity waiting
\* for its cleanup, a nonempty list or an edge of the graph still names it.
THEOREM RefsLiveTheorem == Spec => []RefsLive
<1>1. Inv => RefsLive
  BY DEF Inv, RefsInv
<1> QED
  BY <1>1, Invariant, PTL

\* tag_map registers exactly the archetypes which exist: a query misses none and
\* meets no removed one.
THEOREM ContainersTheorem == Spec => []ContainersExact
<1>1. Inv => ContainersExact
  BY DEF Inv
<1> QED
  BY <1>1, Invariant, PTL

\* An entity whose slot is not where its tags say is in the list the next flush goes
\* through: no retag is forgotten ("no false negatives").
THEOREM DirtyTheorem == Spec => []NoFalseNegatives
<1>1. Inv => NoFalseNegatives
  BY DEF Inv
<1> QED
  BY <1>1, Invariant, PTL

\* While a query runs no call changes the entity lists it iterates over, nor removes
\* an archetype which has one.
THEOREM QueryStabilityTheorem == Spec => QueryStability
<1>1. ASSUME Inv, [Next]_vars
      PROVE  [queries > 0 => /\ list' = list
                             /\ \A S \in archs : list[S].heaps # <<>> => S \in archs']_vars
  <2> SUFFICES ASSUME queries > 0
               PROVE  /\ list' = list
                      /\ \A S \in archs : list[S].heaps # <<>> => S \in archs'
    OBVIOUS
  <2>1. pc = "idle"
    BY <1>1 DEF Inv, QueryInv
  <2>2. list' = list
    <3>1. CASE \E e \in Entity : SpawnEntity(e) \/ DespawnEntity(e)
      BY <3>1 DEF SpawnEntity, DespawnEntity
    <3>2. CASE \E e \in Entity, t \in Tag : TagEntity(e, t) \/ UntagEntity(e, t)
      BY <3>2 DEF TagEntity, UntagEntity, SetVirtual
    <3>3. CASE BeginQuery \/ EndQuery \/ FlushBegin \/ Panicked \/ UNCHANGED vars
      BY <3>3 DEF BeginQuery, EndQuery, FlushBegin, Panicked, vars
    <3>4. ~ FlushStep
      BY <2>1 DEF FlushStep, FlushDead, FlushDeadDone, FlushSkip, FlushMove, FlushTruncate, FlushDelete, FlushEnd
    <3> QED
      BY <1>1, <3>1, <3>2, <3>3, <3>4 DEF Next
  <2>3. SameGraph \/ NewGraph \/ \E e \in Entity : SpawnEntity(e)
    BY <1>1, GraphChange DEF Inv
  <2>4. CASE SameGraph \/ \E e \in Entity : SpawnEntity(e)
    BY <2>2, <2>4 DEF SameGraph, SpawnEntity, graphVars
  <2>5. CASE NewGraph
    <3>1. PICK ar, ex, gone : GraphStep(ar, ex, gone)
      BY <2>5 DEF NewGraph
    <3>2. archs \subseteq ar
      BY <3>1 DEF GraphStep
    <3>3. \A S \in ar : list[S].heaps # <<>> => S \in archs'
      BY <1>1, <3>1, GraphStepOK DEF Inv, RefsInv
    <3> QED
      BY <2>2, <3>2, <3>3
  <2> QED
    BY <2>3, <2>4, <2>5
<1> QED
  BY <1>1, Invariant, PTL DEF Spec, QueryStability

-----------------------------------------------------------------------------
(* No archetype is leaked.                                                 *)

\* What rec_remove_stepping_stone_arches leaves behind: an archetype which could be
\* removed from the graph it leaves could be removed before, and was not the one it
\* was asked about.
LEMMA NothingLeftBehind ==
  ASSUME NEW ar, NEW ex, NEW vc, NEW ls, NEW S,
         SetGraph(ar, ex, Obsolete(ar, ex, vc, ls, S)),
         NEW T \in archs', CanRemoveArchetype(ext', vc, ls, T)
  PROVE  T \in ar /\ T # S /\ CanRemoveArchetype(ex, vc, ls, T)
<1> DEFINE gone == Obsolete(ar, ex, vc, ls, S)
<1>0. /\ T \in ar /\ T \notin gone
      /\ ext' = {edge \in ex : edge[1] \notin gone /\ edge[1] \cup {edge[2]} \notin gone}
  BY DEF SetGraph
<1> DEFINE Closed(X) == \A U \in X : /\ Unused(vc, ls, U)
                                     /\ Extensions(ex, U) \subseteq X
                                     /\ U = S \/ Extensions(ex, U) # {}
<1>1. Unused(vc, ls, T) /\ \A edge \in ext' : edge[1] # T
  BY DEF CanRemoveArchetype, Extensions
<1>2. CASE ~ CanRemoveArchetype(ex, vc, ls, S)
  <2>1. gone = {} /\ ext' = ex
    <3>1. gone = {}
      BY <1>2 DEF Obsolete
    <3> HIDE DEF gone
    <3> QED
      BY <3>1, <1>0
  <2> QED
    BY <2>1, <1>0, <1>2
<1>3. CASE CanRemoveArchetype(ex, vc, ls, S)
  <2>1. gone = UNION {X \in SUBSET ar : Closed(X)}
    BY <1>3, Zenon DEF Obsolete, SteppingStones
  <2> HIDE DEF gone
  <2>2. T # S
    <3>1. S \in ar => Closed({S}) /\ {S} \in SUBSET ar
      BY <1>3 DEF CanRemoveArchetype
    <3> HIDE DEF Closed
    <3> QED
      BY <2>1, <3>1, <1>0
  <2>3. \A edge \in ex : edge[1] = T => T \cup {edge[2]} \in gone
    BY <1>0, <1>1
  <2>4. Extensions(ex, T) \subseteq gone
    BY <2>3 DEF Extensions
  <2>5. Extensions(ex, T) # {} => Closed(gone \cup {T})
    <3> SUFFICES ASSUME Extensions(ex, T) # {}, NEW U \in gone \cup {T}
                 PROVE  /\ Unused(vc, ls, U)
                        /\ Extensions(ex, U) \subseteq gone \cup {T}
                        /\ U = S \/ Extensions(ex, U) # {}
      OBVIOUS
    <3>1. CASE U = T
      BY <3>1, <2>4, <1>1
    <3>2. CASE U \in gone
      <4>1. PICK X \in SUBSET ar : Closed(X) /\ U \in X
        BY <2>1, <3>2
      <4>2. X \subseteq gone
        <5> HIDE DEF Closed
        <5> QED
          BY <2>1, <4>1
      <4> QED
        BY <4>1, <4>2
    <3> QED
      BY <3>1, <3>2
  <2>6. gone \cup {T} \in SUBSET ar
    BY <2>1, <1>0
  <2>7. Extensions(ex, T) = {}
    <3> HIDE DEF Closed
    <3> QED
      BY <2>1, <2>5, <2>6, <1>0
  <2> QED
    BY <2>2, <2>7, <1>0, <1>1 DEF CanRemoveArchetype
<1> QED
  BY <1>2, <1>3

\* Fewer edges, fewer extensions.
LEMMA FewerExtensions ==
  ASSUME NEW ex, NEW ex2, ex \subseteq ex2, NEW vc, NEW vc2, NEW ls, NEW T,
         CanRemoveArchetype(ex2, vc2, ls, T), vc[T] = vc2[T]
  PROVE  CanRemoveArchetype(ex, vc, ls, T)
BY DEF CanRemoveArchetype, Unused, Extensions

\* A list which a flush empties has its archetype checked at the end of it.
LEMMA ShrunkNoted ==
  ASSUME NoLeakedArchetypes, UNCHANGED <<archs, ext, vcount>>, del \subseteq del',
         \A T \in archs : list'[T].heaps = <<>> => list[T].heaps = <<>> \/ T \in del'
  PROVE  NoLeakedArchetypes'
BY DEF NoLeakedArchetypes, CanRemoveArchetype, Unused

\* Every step either removes what has become useless or leaves it to be checked.
LEMMA LeakStep == Inv /\ NoLeakedArchetypes /\ [Next]_vars => NoLeakedArchetypes'
<1> SUFFICES ASSUME Inv, NoLeakedArchetypes, [Next]_vars PROVE NoLeakedArchetypes'
  OBVIOUS
<1> USE DEF vars, entityVars, graphVars, flushVars
<1>0. /\ SlotInv /\ info \in [Entity -> DbEntity] /\ alive \subseteq Entity
      /\ vcount \in [Arch -> Nat] /\ archs \subseteq Arch
      /\ list \in [Arch -> EntityList] /\ \A S \in Arch : ListOK(list[S])
      /\ dead \in Seq(DbDirtyDeadEntity) /\ dirty \in Seq(Entity)
  BY DEF Inv, SlotInv, SlotTypes, CountInv, GraphTypes
<1>1. CASE UNCHANGED <<archs, ext, vcount, list, del>>
  BY <1>1 DEF NoLeakedArchetypes
<1>2. ASSUME NEW e \in Entity, DespawnEntity(e)
      PROVE  NoLeakedArchetypes'
  <2> DEFINE S == info[e].virt
  <2>1. S \in Arch /\ vcount' = AddVirtual(vcount, S, -1) /\ list' = list /\ del' = del
    BY <1>0, <1>2 DEF DespawnEntity, DbEntity
  <2>2. SetGraph(archs, ext, Obsolete(archs, ext, vcount', list, S))
    BY <1>2 DEF DespawnEntity
  <2>3. \A T \in Arch : T # S => vcount'[T] = vcount[T]
    BY <2>1, <1>0 DEF AddVirtual
  <2> HIDE DEF S
  <2> SUFFICES ASSUME NEW T \in archs', CanRemoveArchetype(ext', vcount', list', T)
               PROVE  T \in del'
    BY DEF NoLeakedArchetypes
  <2>4. T \in archs /\ T # S /\ CanRemoveArchetype(ext, vcount', list, T)
    <3>1. CanRemoveArchetype(ext', vcount', list, T)
      BY <2>1
    <3>2. T # S /\ CanRemoveArchetype(ext, vcount', list, T) /\ T \in archs
      BY <3>1, <2>2, NothingLeftBehind
    <3> QED
      BY <3>2
  <2>5. CanRemoveArchetype(ext, vcount, list, T)
    BY <2>3, <2>4, <1>0, FewerExtensions
  <2> QED
    BY <2>1, <2>4, <2>5 DEF NoLeakedArchetypes
<1>3. ASSUME NEW e \in Entity, NEW t \in Tag, TagEntity(e, t) \/ UntagEntity(e, t)
      PROVE  NoLeakedArchetypes'
  <2> DEFINE S == info[e].virt
  <2>1. PICK new, ar, ex :
          /\ new \in Arch /\ SetVirtual(e, new, ar, ex)
          /\ ar \subseteq archs \cup {new} /\ ext \subseteq ex
    <3>1. PICK new, ar, ex :
            /\ new \in Arch
            /\ SetVirtual(e, new, ar, ex)
            /\ ar = archs \cup {new} \/ (ar = archs /\ new = info[e].virt)
            /\ \/ ex = ext
               \/ ex = ext \cup {<<info[e].virt, t>>} /\ new = info[e].virt \cup {t}
               \/ ex = ext \cup {<<new, t>>} /\ info[e].virt = new \cup {t}
      BY <1>0, <1>3, RetagStep
    <3>2. ar \subseteq archs \cup {new} /\ ext \subseteq ex
      BY <3>1
    <3> QED
      BY <3>1, <3>2
  <2>2. S \in Arch
    BY <1>0 DEF DbEntity
  <2>3. /\ vcount' = AddVirtual(AddVirtual(vcount, S, -1), new, 1)
        /\ list' = list /\ del' = del
        /\ SetGraph(ar, ex, Obsolete(ar, ex, vcount', list, S))
    BY <2>1 DEF SetVirtual
  <2> HIDE DEF S
  <2>4. \A T \in Arch : /\ T # S /\ T # new => vcount'[T] = vcount[T]
                        /\ T # S /\ T = new /\ T # Root => vcount'[T] = vcount[T] + 1
    <3> DEFINE mid == AddVirtual(vcount, S, -1)
    <3>1. mid \in [Arch -> Int] /\ \A T \in Arch : T # S => mid[T] = vcount[T]
      BY <1>0, <2>2 DEF AddVirtual
    <3> HIDE DEF mid
    <3> QED
      BY <3>1, <2>3, <2>1 DEF AddVirtual, mid
  <2> SUFFICES ASSUME NEW T \in archs', CanRemoveArchetype(ext', vcount', list', T)
               PROVE  T \in del'
    BY DEF NoLeakedArchetypes
  <2>5. T \in ar /\ T # S /\ CanRemoveArchetype(ex, vcount', list, T)
    <3>1. CanRemoveArchetype(ext', vcount', list, T)
      BY <2>3
    <3> QED
      BY <3>1, <2>3, NothingLeftBehind
  <2>6. T # Root /\ vcount'[T] = 0 /\ T \in Arch
    BY <2>1, <2>5, <1>0 DEF CanRemoveArchetype, Unused
  <2>7. T # new
    BY <2>4, <2>5, <2>6, <1>0
  <2>8. CanRemoveArchetype(ext, vcount, list, T)
    BY <2>1, <2>4, <2>5, <2>6, <2>7, FewerExtensions
  <2> QED
    BY <2>1, <2>3, <2>5, <2>7, <2>8 DEF NoLeakedArchetypes
<1>4. ASSUME NEW S \in del, FlushDelete(S)
      PROVE  NoLeakedArchetypes'
  <2>1. vcount' = vcount /\ list' = list /\ del' = del \ {S}
    BY <1>4 DEF FlushDelete
  <2>2. CASE S \in archs
    <3>1. SetGraph(archs, ext, Obsolete(archs, ext, vcount, list, S))
      BY <1>4, <2>2 DEF FlushDelete
    <3>2. ASSUME NEW T \in archs', CanRemoveArchetype(ext', vcount', list', T)
          PROVE  T \in archs /\ T # S /\ CanRemoveArchetype(ext, vcount, list, T)
      <4>1. CanRemoveArchetype(ext', vcount, list, T)
        BY <2>1, <3>2
      <4> QED
        BY <4>1, <3>1, NothingLeftBehind
    <3> QED
      BY <2>1, <3>2 DEF NoLeakedArchetypes
  <2>3. CASE S \notin archs
    BY <1>4, <2>1, <2>3 DEF FlushDelete, NoLeakedArchetypes
  <2> QED
    BY <2>2, <2>3
<1>5. CASE FlushDead
  <2> DEFINE S == Head(dead).arch
  <2>1. UNCHANGED <<archs, ext, vcount>>
        /\ \E l : list' = [list EXCEPT ![S] = l] /\ NoteShrunk(S, l)
    BY <1>5, Zenon DEF FlushDead
  <2> HIDE DEF S
  <2>2. PICK l : list' = [list EXCEPT ![S] = l] /\ NoteShrunk(S, l)
    BY <2>1
  <2>3. \A T \in Arch : list'[T] = IF T = S THEN l ELSE list[T]
    BY <2>2, <1>0
  <2>4. del \subseteq del' /\ (l.heaps = <<>> => list[S].heaps = <<>> \/ S \in del')
    BY <2>2 DEF NoteShrunk
  <2> QED
    BY <2>1, <2>3, <2>4, <1>0, ShrunkNoted
<1>6. CASE FlushMove
  <2> DEFINE e == Head(dirty)
             src == info[e].phys
             dst == info[e].virt
             pushed == PushBack(list[dst], e)
             entered == IF dst = Root THEN list ELSE [list EXCEPT ![dst] = pushed]
  <2>1. /\ UNCHANGED <<archs, ext, vcount>> /\ e \in alive /\ src # dst
        /\ \/ list' = entered /\ del' = del
           \/ \E l : list' = [entered EXCEPT ![src] = l] /\ NoteShrunk(src, l)
    BY <1>6, Zenon DEF FlushMove
  <2>2. src \in Arch /\ dst \in Arch /\ e \in Content
    BY <2>1, <1>0 DEF DbEntity, Content
  <2>3. pushed.heaps # <<>> /\ ListOK(pushed)
    BY <2>2, <1>0, PushBackOK
  <2> HIDE DEF e, src, dst, pushed
  <2>4. \A T \in Arch : entered[T] = list[T] \/ entered[T] = pushed
    BY <2>2, <1>0
  <2>5. entered[src] = list[src] /\ entered \in [Arch -> EntityList]
    BY <2>1, <2>2, <2>3, <1>0 DEF ListOK
  <2> HIDE DEF entered
  <2>6. CASE list' = entered /\ del' = del
    BY <2>1, <2>3, <2>4, <2>6, <1>0, ShrunkNoted
  <2>7. ASSUME NEW l, list' = [entered EXCEPT ![src] = l], NoteShrunk(src, l)
        PROVE  NoLeakedArchetypes'
    <3>1. \A T \in Arch : list'[T] = IF T = src THEN l ELSE entered[T]
      BY <2>5, <2>7
    <3>2. del \subseteq del' /\ (l.heaps = <<>> => list[src].heaps = <<>> \/ src \in del')
      BY <2>7 DEF NoteShrunk
    <3> QED
      BY <3>1, <3>2, <2>1, <2>3, <2>4, <1>0, ShrunkNoted
  <2> QED
    BY <2>1, <2>6, <2>7
<1>7. CASE (\E e \in Entity : SpawnEntity(e)) \/ BeginQuery \/ EndQuery \/ FlushBegin \/ Panicked \/ UNCHANGED vars
  BY <1>1, <1>7 DEF SpawnEntity, BeginQuery, EndQuery, FlushBegin, Panicked
<1>8. CASE FlushDeadDone \/ FlushSkip \/ FlushTruncate \/ FlushEnd
  BY <1>1, <1>8 DEF FlushDeadDone, FlushSkip, FlushTruncate, FlushEnd
<1> QED
  BY <1>2, <1>3, <1>4, <1>5, <1>6, <1>7, <1>8 DEF Next, FlushStep

\* No archetype is leaked: one which could be removed is gone, or waits for the end of
\* the flush which found it so.  What a removal leaves behind it has nothing to remove.
THEOREM NoLeakTheorem == Spec => []NoLeakedArchetypes
<1>1. Init => NoLeakedArchetypes
  BY DEF Init, NoLeakedArchetypes, CanRemoveArchetype, Unused
<1> QED
  BY <1>1, LeakStep, Invariant, PTL DEF Spec

-----------------------------------------------------------------------------
(* The promise is kept: every step is one of EntityTags or none.           *)

\* The second loop of a flush ends with an empty dirty list.
Drained == pc = "delete" => dirty = <<>>

\* Nothing gets dirty while archetypes are deleted.
LEMMA DrainedStep == Drained /\ [Next]_vars => Drained'
<1> SUFFICES ASSUME Drained, [Next]_vars PROVE Drained'
  OBVIOUS
<1> USE DEF vars, entityVars, graphVars, flushVars, Drained
<1>1. CASE \E e \in Entity : SpawnEntity(e) \/ DespawnEntity(e)
  BY <1>1 DEF SpawnEntity, DespawnEntity
<1>2. CASE \E e \in Entity, t \in Tag : TagEntity(e, t) \/ UntagEntity(e, t)
  BY <1>2 DEF TagEntity, UntagEntity, SetVirtual
<1>3. CASE BeginQuery \/ EndQuery \/ FlushBegin \/ Panicked \/ UNCHANGED vars
  BY <1>3 DEF BeginQuery, EndQuery, FlushBegin, Panicked
<1>4. CASE FlushStep
  BY <1>4, Zenon DEF FlushStep, FlushDead, FlushDeadDone, FlushSkip, FlushMove, FlushTruncate, FlushDelete, FlushEnd
<1> QED
  BY <1>1, <1>2, <1>3, <1>4 DEF Next

\* The abstract picture, of which Promise is an instance.
Picture == IF pc = "idle" THEN [e \in Entity |-> Listed(e)] ELSE VirtualTags

\* Entities which keep their tags are seen to keep them.
LEMMA TagsKept ==
  ASSUME SameTags
  PROVE  VirtualTags' = VirtualTags
BY DEF SameTags, VirtualTags

\* The picture stays while the lists and the phase do.
LEMMA PictureKept ==
  ASSUME list' = list, pc = "idle", pc' = "idle"
  PROVE  Picture' = Picture
BY DEF Picture, Listed

\* Once everyone is where its tags say and no dead entity is listed, the lists show
\* each entity under its tags and nowhere else.
LEMMA ListsShowTags ==
  ASSUME SlotInv, NoFalseNegatives, dirty = <<>>, pc = "delete", NEW e \in Entity
  PROVE  Listed(e) = VirtualTags[e]
<1>1. SlotTypes /\ SlotsMirror /\ RootUnlisted /\ DOMAIN dead = {}
  BY DEF SlotInv, DeadOK
<1>2. \A S \in Arch : \A p \in Used(list[S]) : At(list[S], p) = e =>
        e \in alive /\ info[e].phys = S /\ S # Root
  BY <1>1, MirrorOf DEF RootUnlisted
<1>3. VirtualTags[e] = IF e \in alive THEN info[e].virt ELSE {}
  BY DEF VirtualTags
<1> DEFINE homes == {S \in Arch : \E p \in Used(list[S]) : At(list[S], p) = e}
<1>4. CASE e \notin alive
  <2>1. homes = {}
    BY <1>2, <1>4
  <2> QED
    BY <2>1, <1>3, <1>4 DEF Listed
<1>5. CASE e \in alive
  <2>1. info[e].phys = info[e].virt /\ info[e].phys \in Arch
    BY <1>1, <1>5 DEF NoFalseNegatives, Items, SlotTypes, DbEntity
  <2>2. CASE info[e].phys = Root
    <3>1. homes = {}
      BY <1>2, <2>2
    <3> QED
      BY <3>1, <2>1, <2>2, <1>3, <1>5 DEF Listed, Root
  <2>3. CASE info[e].phys # Root
    <3>1. info[e].phys \in homes
      BY <1>1, <1>5, <2>1, <2>3, MirrorOf
    <3>2. homes = {info[e].phys}
      BY <3>1, <1>2
    <3> QED
      BY <3>2, <2>1, <1>3, <1>5 DEF Listed
  <2> QED
    BY <2>2, <2>3
<1> QED
  BY <1>4, <1>5

\* At first nothing is alive and nothing is listed.
LEMMA PromiseInit == Init => Promise!Init
<1> SUFFICES ASSUME Init PROVE Promise!Init
  OBVIOUS
<1>1. Used(EmptyList) = {}
  BY EmptyListOK, BackOf DEF EmptyList
<1>2. \A e \in Entity : Listed(e) = {}
  BY <1>1 DEF Init, Listed
<1> QED
  BY <1>2 DEF Init, Promise!Init, VirtualTags

\* An abstract step or none, in terms of the concrete state.
LEMMA PromiseMap ==
  ASSUME \/ UNCHANGED <<spawned, VirtualTags, alive, Picture, queries>>
         \/ Promise!Next
  PROVE  [Promise!Next]_Promise!vars
BY DEF Promise!vars, Picture

\* Every step is an abstract step or changes nothing the promise speaks of.
LEMMA PromiseStep ==
  ASSUME Inv, Drained, [Next]_vars
  PROVE  [Promise!Next]_Promise!vars
<1> USE DEF entityVars, graphVars, flushVars
<1>0. /\ SlotInv /\ info \in [Entity -> DbEntity] /\ alive \subseteq Entity /\ NoFalseNegatives
  BY DEF Inv, SlotInv, SlotTypes
<1>1. ASSUME NEW e \in Entity, SpawnEntity(e)
      PROVE  Promise!Spawn(e)
  <2>1. VirtualTags' = VirtualTags
    <3>1. e \notin alive
      BY <1>0, <1>1 DEF SpawnEntity, SlotInv, SlotTypes
    <3>2. NewEntity.virt = {}
      BY DEF NewEntity, Root
    <3> QED
      BY <1>0, <1>1, <3>1, <3>2 DEF SpawnEntity, VirtualTags
  <2>2. Picture' = Picture
    BY <1>1, PictureKept DEF SpawnEntity
  <2> QED
    BY <2>1, <2>2, <1>1 DEF SpawnEntity, Promise!Spawn, Picture
<1>2. ASSUME NEW e \in Entity, DespawnEntity(e)
      PROVE  Promise!Despawn(e)
  <2>1. VirtualTags' = [VirtualTags EXCEPT ![e] = {}]
    BY <1>0, <1>2 DEF DespawnEntity, VirtualTags
  <2>2. Picture' = Picture
    BY <1>2, PictureKept DEF DespawnEntity
  <2> QED
    BY <2>1, <2>2, <1>2 DEF DespawnEntity, Promise!Despawn, Picture
<1>3. ASSUME NEW e \in Entity, NEW t \in Tag, TagEntity(e, t) \/ UntagEntity(e, t)
      PROVE  Promise!Retag(e)
  <2>1. e \in alive /\ pc = "idle"
    BY <1>3 DEF TagEntity, UntagEntity
  <2>2. PICK new, ar, ex : /\ SetVirtual(e, new, ar, ex)
                           /\ new = info[e].virt \cup {t} \/ new = info[e].virt \ {t}
    <3>1. t \in info[e].virt => info[e].virt = info[e].virt \cup {t}
      OBVIOUS
    <3>2. t \notin info[e].virt => info[e].virt = info[e].virt \ {t}
      OBVIOUS
    <3> QED
      BY <1>3, <3>1, <3>2 DEF TagEntity, UntagEntity
  <2> DEFINE upd == [info[e] EXCEPT !.virt = new]
  <2>3. info' = [info EXCEPT ![e] = upd]
    BY <2>2, Zenon DEF SetVirtual
  <2>4. UNCHANGED <<spawned, alive, list, queries, pc>>
    BY <2>2 DEF SetVirtual
  <2>5. upd.virt = new
    BY <1>0 DEF DbEntity
  <2> HIDE DEF upd
  <2>6. VirtualTags' = [VirtualTags EXCEPT ![e] = new] /\ VirtualTags[e] = info[e].virt
    BY <2>1, <2>3, <2>4, <2>5, <1>0 DEF VirtualTags
  <2>7. Picture' = Picture
    BY <2>1, <2>4, PictureKept
  <2>8. \/ VirtualTags' = [VirtualTags EXCEPT ![e] = @ \cup {t}]
        \/ VirtualTags' = [VirtualTags EXCEPT ![e] = @ \ {t}]
    BY <2>2, <2>6
  <2> QED
    BY <2>1, <2>4, <2>7, <2>8 DEF Promise!Retag, Picture
<1>4. CASE \/ \E e \in Entity : SpawnEntity(e) \/ DespawnEntity(e)
           \/ \E e \in Entity, t \in Tag : TagEntity(e, t) \/ UntagEntity(e, t)
  <2>1. \E e \in Entity : Promise!Spawn(e) \/ Promise!Despawn(e) \/ Promise!Retag(e)
    BY <1>1, <1>2, <1>3, <1>4
  <2> QED
    BY <2>1, PromiseMap DEF Promise!Next
<1>5. CASE ~ \E e \in Entity : SpawnEntity(e) \/ DespawnEntity(e)
  <2> SUFFICES ASSUME ~ \E e \in Entity, t \in Tag : TagEntity(e, t) \/ UntagEntity(e, t)
               PROVE  [Promise!Next]_Promise!vars
    BY <1>4
  <2>1. SameTags
    BY <1>0, <1>5, OtherTags
  <2>2. VirtualTags' = VirtualTags /\ alive' = alive
    BY <2>1, TagsKept DEF SameTags
  <2>3. CASE BeginQuery \/ EndQuery
    <3>1. Picture' = Picture
      BY <2>3, PictureKept DEF BeginQuery, EndQuery
    <3>2. Promise!BeginQuery \/ Promise!EndQuery
      BY <3>1, <2>2, <2>3 DEF BeginQuery, EndQuery, Promise!BeginQuery, Promise!EndQuery, Picture
    <3> QED
      BY <3>2, PromiseMap DEF Promise!Next
  <2>4. CASE FlushBegin
    <3>1. Picture' = VirtualTags'
      BY <2>4 DEF FlushBegin, Picture
    <3>2. Promise!Flush
      BY <3>1, <2>2, <2>4 DEF FlushBegin, Promise!Flush, Picture
    <3> QED
      BY <3>2, PromiseMap DEF Promise!Next
  <2>5. CASE FlushEnd
    <3>1. Picture = VirtualTags
      BY <2>5 DEF FlushEnd, Picture
    <3>2. \A e \in Entity : Listed(e) = VirtualTags[e]
      BY <2>5, <1>0, ListsShowTags DEF FlushEnd, Drained
    <3>3. Picture' = [e \in Entity |-> Listed(e)]
      BY <2>5 DEF FlushEnd, Picture, Listed
    <3>4. VirtualTags = [e \in Entity |-> VirtualTags[e]]
      BY DEF VirtualTags
    <3>5. Picture' = Picture
      BY <3>1, <3>2, <3>3, <3>4
    <3> QED
      BY <3>5, <2>2, <2>5, PromiseMap DEF FlushEnd
  <2>6. CASE FlushDead \/ FlushDeadDone \/ FlushSkip \/ FlushMove \/ FlushTruncate \/ \E S \in del : FlushDelete(S)
    <3>1. UNCHANGED <<spawned, queries>> /\ pc # "idle" /\ pc' # "idle"
      BY <2>6, Zenon DEF FlushDead, FlushDeadDone, FlushSkip, FlushMove, FlushTruncate, FlushDelete
    <3>2. Picture' = Picture
      BY <3>1, <2>2 DEF Picture
    <3> QED
      BY <3>1, <3>2, <2>2, PromiseMap
  <2>7. CASE Panicked \/ UNCHANGED vars
    <3>1. UNCHANGED <<spawned, queries, list, pc>>
      BY <2>7 DEF Panicked, vars
    <3>2. Picture' = Picture
      BY <3>1, <2>2 DEF Picture, Listed
    <3> QED
      BY <3>1, <3>2, <2>2, PromiseMap
  <2> QED
    BY <1>5, <2>3, <2>4, <2>5, <2>6, <2>7 DEF Next, FlushStep
<1> QED
  BY <1>4, <1>5

\* The queue is empty whenever archetypes are deleted.
LEMMA DrainedInvariant == Spec => []Drained
<1>1. Init => Drained
  BY DEF Init, Drained
<1> QED
  BY <1>1, DrainedStep, PTL DEF Spec

\* The database keeps its promise (EntityTags): tags change at once for the caller, and
\* what the heaps show follows at a flush, all of it, whatever steps the flush takes.
THEOREM PromiseTheorem == Spec => KeepsPromise
BY Invariant, DrainedInvariant, PromiseInit, PromiseStep, PTL DEF Spec, KeepsPromise, Promise!Spec

-----------------------------------------------------------------------------
(* The removal of stepping stones, call by call (ArchetypeRemoval).        *)

\* Every edge adds a tag, and leads from an archetype of the graph to another.
GraphOf(ar, ex) ==
  \A edge \in ex : /\ edge[1] \in ar
                   /\ edge[2] \in Tag \ edge[1]
                   /\ edge[1] \cup {edge[2]} \in ar

ContainersOf(ar) == [t \in Tag |-> {S \in ar : t \in S}]

GraphOK ==
  /\ archs \subseteq Arch
  /\ IsFiniteSet(archs)
  /\ GraphOf(archs, ext)
  /\ containers = ContainersOf(archs)

\* T is as many tags short of S as there are calls above it.
Below(S, T, n) ==
  /\ T \subseteq S
  /\ IsFiniteSet(S \ T)
  /\ Cardinality(S \ T) = n

\* What a call has left to look at was a stepping stone, and is larger than all
\* that inner calls remove.
FramesOK ==
  /\ frames \in Seq(SUBSET Arch)
  /\ \A i \in 1 .. Len(frames) : \A T \in frames[i] :
       T \in archs /\ Below(started.of, T, i) /\ Extensions(started.ex, T) # {}

\* What the outermost call and those within it have removed so far.
Gone == started.ar \ archs

\* T was unused, and the last larger archetype behind it went before it.
Justified(T) ==
  /\ Unused(vcount, list, T)
  /\ Extensions(started.ex, T) \subseteq Gone
  /\ T = started.of \/ Extensions(started.ex, T) # {}

\* T can be removed now, and not because nothing was ever behind it.
Due(T) ==
  /\ CanRemoveArchetype(ext, vcount, list, T)
  /\ Extensions(started.ex, T) # {}

StartedOK ==
  /\ IsFiniteSet(started.ar)
  /\ archs \subseteq started.ar
  /\ GraphOf(started.ar, started.ex)
  /\ ext = {edge \in started.ex : edge[1] \notin Gone /\ edge[1] \cup {edge[2]} \notin Gone}
  /\ started.cs = ContainersOf(started.ar)
  /\ started.of \in Gone

\* Nothing has gone which should not, and what has yet to go is on the stack.
RemovalInv ==
  /\ GraphOK
  /\ FramesOK
  /\ frames # <<>> =>
       /\ StartedOK
       /\ \A T \in Gone : Justified(T)
       /\ \A T \in archs : Due(T) => \E i \in 1 .. Len(frames) : T \in frames[i]

\* A nonempty set of sets of a finite family has one which no other contains.
LEMMA MaximalMember ==
  ASSUME NEW A, IsFiniteSet(A), NEW Y, Y \subseteq A, Y # {}
  PROVE  \E T \in Y : \A U \in Y : ~ (T \subseteq U /\ T # U)
<1> DEFINE Above(T) == {U \in A : T \subseteq U /\ T # U}
           N == {Cardinality(Above(T)) : T \in Y}
           R == {xy \in Nat \X Nat : xy[1] < xy[2]}
<1>1. \A T : IsFiniteSet(Above(T)) /\ Cardinality(Above(T)) \in Nat
  <2> TAKE T
  <2>1. Above(T) \in SUBSET A
    OBVIOUS
  <2> HIDE DEF Above
  <2> QED
    BY <2>1, FS_Subset, FS_CardinalityType
<1>2. \A T \in Y : \A U \in Y : T \subseteq U /\ T # U => Cardinality(Above(U)) < Cardinality(Above(T))
  <2> TAKE T \in Y
  <2> TAKE U \in Y
  <2> HAVE T \subseteq U /\ T # U
  <2>1. Above(U) \subseteq Above(T) /\ U \in Above(T) /\ U \notin Above(U)
    OBVIOUS
  <2>2. Above(U) \in SUBSET Above(T) /\ Above(U) # Above(T)
    BY <2>1
  <2> HIDE DEF Above
  <2> QED
    BY <2>2, <1>1, FS_Subset
<1>3. N \subseteq Nat /\ N # {}
  <2> HIDE DEF Above
  <2>1. PICK T \in Y : TRUE
    OBVIOUS
  <2>2. Cardinality(Above(T)) \in N
    OBVIOUS
  <2> QED
    BY <1>1, <2>2
<1>4. IsWellFoundedOn(R, Nat)
  BY NatLessThanWellFounded DEF OpToRel
<1>5. PICK x \in N : \A y \in N : ~ (<<y, x>> \in R)
  <2> HIDE DEF N
  <2> QED
    BY <1>3, <1>4, WFMin
<1>6. PICK T \in Y : x = Cardinality(Above(T))
  BY <1>5
<1>7. \A y \in N : ~ (y < x)
  <2> HIDE DEF N
  <2> QED
    BY <1>3, <1>5
<1>8. ASSUME NEW U \in Y
      PROVE  ~ (T \subseteq U /\ T # U)
  <2> HIDE DEF Above
  <2>1. Cardinality(Above(U)) \in N
    OBVIOUS
  <2> QED
    BY <2>1, <1>2, <1>6, <1>7
<1> QED
  BY <1>8

\* An archetype behind T has T, and more.
LEMMA ExtensionLarger ==
  ASSUME NEW ar, NEW ex, GraphOf(ar, ex), NEW T, NEW U \in Extensions(ex, T)
  PROVE  U \in ar /\ T \in ar /\ T \subseteq U /\ T # U
<1>1. PICK edge \in ex : edge[1] = T /\ U = T \cup {edge[2]}
  BY DEF Extensions
<1> QED
  BY <1>1 DEF GraphOf

\* With nothing left on the stack, what has gone is the fixpoint.
LEMMA GoneIsFixpoint ==
  ASSUME StartedOK,
         \A T \in Gone : Justified(T),
         \A T \in archs : ~ Due(T)
  PROVE  Gone = SteppingStones(started.ar, started.ex, vcount, list, started.of)
<1> DEFINE Closed(X) == \A T \in X : /\ Unused(vcount, list, T)
                                     /\ Extensions(started.ex, T) \subseteq X
                                     /\ T = started.of \/ Extensions(started.ex, T) # {}
           Y == {X \in SUBSET started.ar : Closed(X)}
<1>1. SteppingStones(started.ar, started.ex, vcount, list, started.of) = UNION Y
  BY DEF SteppingStones
<1>2. Gone \in Y
  BY DEF Justified, Gone
<1>3. ASSUME NEW X \in Y
      PROVE  X \subseteq Gone
  <2>1. SUFFICES ASSUME X \cap archs # {} PROVE FALSE
    BY DEF Gone
  <2>2. PICK T \in X \cap archs : \A U \in X \cap archs : ~ (T \subseteq U /\ T # U)
    <3> DEFINE Left == X \cap archs
    <3>1. Left \subseteq started.ar /\ Left # {} /\ IsFiniteSet(started.ar)
      BY <2>1 DEF StartedOK
    <3>2. \E T \in Left : \A U \in Left : ~ (T \subseteq U /\ T # U)
      <4> HIDE DEF Left
      <4> QED
        BY <3>1, MaximalMember
    <3> QED
      BY <3>2
  <2>3. Closed(X)
    OBVIOUS
  <2>4. T # started.of
    BY DEF StartedOK, Gone
  <2>5. Unused(vcount, list, T) /\ Extensions(started.ex, T) # {} /\ Extensions(started.ex, T) \subseteq X
    BY <2>2, <2>3, <2>4
  <2>6. \A U \in Extensions(started.ex, T) : U \notin archs
    <3> TAKE U \in Extensions(started.ex, T)
    <3>1. T \subseteq U /\ T # U
      BY ExtensionLarger DEF StartedOK
    <3> QED
      BY <2>2, <2>5, <3>1
  <2>7. Extensions(ext, T) = {}
    <3>1. SUFFICES ASSUME NEW edge \in ext, edge[1] = T PROVE FALSE
      BY DEF Extensions
    <3>2. edge \in started.ex /\ T \cup {edge[2]} \notin Gone
      BY <3>1 DEF StartedOK
    <3>3. T \cup {edge[2]} \in Extensions(started.ex, T)
      BY <3>1, <3>2 DEF Extensions
    <3>4. T \cup {edge[2]} \in started.ar
      BY <3>3, ExtensionLarger DEF StartedOK
    <3> QED
      BY <2>6, <3>2, <3>3, <3>4 DEF Gone
  <2>8. Due(T)
    BY <2>5, <2>7 DEF Due, CanRemoveArchetype
  <2> QED
    BY <2>8
<1> HIDE DEF Y
<1> QED
  BY <1>1, <1>2, <1>3

\* What an archetype was an extension of lacks one of its tags.
LEMMA SourceOf ==
  ASSUME NEW ar, NEW ex, GraphOf(ar, ex), NEW S, NEW T \in DeExtensions(ex, S)
  PROVE  T \in ar /\ \E t \in S : t \notin T /\ S = T \cup {t}
<1>1. PICK edge \in ex : edge[1] \cup {edge[2]} = S /\ T = edge[1]
  BY DEF DeExtensions
<1> QED
  BY <1>1 DEF GraphOf

\* And has it behind it.
LEMMA SourceBehind ==
  ASSUME NEW ex, NEW S, NEW T \in DeExtensions(ex, S)
  PROVE  S \in Extensions(ex, T)
BY DEF DeExtensions, Extensions

\* It is one level further down.
LEMMA SourceBelow ==
  ASSUME NEW R, NEW S, NEW n \in Nat, Below(R, S, n),
         NEW T, NEW t \in S, t \notin T, S = T \cup {t}
  PROVE  Below(R, T, n + 1)
<1>1. T \subseteq R /\ R \ T = (R \ S) \cup {t} /\ t \notin R \ S
  BY DEF Below
<1>2. IsFiniteSet((R \ S) \cup {t}) /\ Cardinality((R \ S) \cup {t}) = n + 1
  BY FS_AddElement DEF Below
<1> QED
  BY <1>1, <1>2 DEF Below

\* A removal leaves a graph, and containers which are true to it.
LEMMA RemoveGraph ==
  ASSUME GraphOK, NEW S \in archs, NEW fs, RecRemove(S, fs)
  PROVE  GraphOK'
<1>1. /\ archs' = archs \ {S}
      /\ ext' = {edge \in ext : edge[1] # S /\ edge[1] \cup {edge[2]} # S}
      /\ containers' = [t \in Tag |-> containers[t] \ {S}]
  BY DEF RecRemove, Unlinked, Unregistered
<1>2. IsFiniteSet(archs')
  BY <1>1, FS_RemoveElement DEF GraphOK
<1>3. GraphOf(archs', ext')
  BY <1>1 DEF GraphOK, GraphOf
<1>4. containers' = ContainersOf(archs')
  BY <1>1 DEF GraphOK, ContainersOf
<1> QED
  BY <1>1, <1>2, <1>3, <1>4 DEF GraphOK

\* The stack, of which the innermost call is the last.
LEMMA FrontLast ==
  ASSUME NEW X, NEW s \in Seq(X), s # <<>>
  PROVE  /\ Len(s) \in Nat \ {0} /\ Last(s) = s[Len(s)] /\ Last(s) \in X
         /\ Front(s) \in Seq(X) /\ Len(Front(s)) = Len(s) - 1
         /\ \A i \in 1 .. Len(s) - 1 : Front(s)[i] = s[i]
<1>1. Len(s) \in Nat \ {0}
  BY EmptySeq, LenProperties
<1>2. \A i \in 1 .. Len(s) : s[i] \in X
  BY ElementOfSeq
<1>3. 1 \in Int /\ Len(s) - 1 \in Int /\ \A i \in 1 .. Len(s) - 1 : s[i] \in X
  BY <1>1, <1>2
<1>4. /\ Front(s) \in Seq(X) /\ Len(Front(s)) = Len(s) - 1
      /\ \A i \in 1 .. Len(s) - 1 : Front(s)[i] = s[i]
  <2> DEFINE n == Len(s) - 1
  <2>1. /\ SubSeq(s, 1, n) \in Seq(X)
        /\ Len(SubSeq(s, 1, n)) = IF 1 <= n THEN n - 1 + 1 ELSE 0
        /\ \A i \in 1 .. n - 1 + 1 : SubSeq(s, 1, n)[i] = s[1 + i - 1]
    BY <1>3, SubSeqProperties
  <2>2. n - 1 + 1 = n /\ (1 <= n \/ n = 0) /\ \A i \in 1 .. n : 1 + i - 1 = i
    BY <1>1
  <2>3. Front(s) = SubSeq(s, 1, n)
    BY DEF Front
  <2> HIDE DEF n
  <2>4. Len(Front(s)) = n
    BY <2>1, <2>2, <2>3
  <2>5. \A i \in 1 .. n : Front(s)[i] = s[i]
    BY <2>1, <2>2, <2>3
  <2> QED
    BY <2>1, <2>3, <2>4, <2>5 DEF n
<1> QED
  BY <1>1, <1>2, <1>4 DEF Last

\* The stack without the archetype looked at.
LEMMA PastOf ==
  ASSUME frames \in Seq(SUBSET Arch), frames # <<>>, NEW src
  PROVE  /\ Past(src) \in Seq(SUBSET Arch) /\ Len(Past(src)) = Len(frames)
         /\ \A i \in 1 .. Len(frames) :
              Past(src)[i] = IF i = Len(frames) THEN frames[i] \ {src} ELSE frames[i]
<1>1. /\ Len(frames) \in Nat \ {0} /\ Last(frames) = frames[Len(frames)] /\ Last(frames) \in SUBSET Arch
      /\ Front(frames) \in Seq(SUBSET Arch) /\ Len(Front(frames)) = Len(frames) - 1
      /\ \A i \in 1 .. Len(frames) - 1 : Front(frames)[i] = frames[i]
  BY FrontLast
<1>2. Last(frames) \ {src} \in SUBSET Arch
  BY <1>1
<1>3. /\ Past(src) \in Seq(SUBSET Arch) /\ Len(Past(src)) = Len(Front(frames)) + 1
      /\ \A i \in 1 .. Len(Front(frames)) : Past(src)[i] = Front(frames)[i]
      /\ Past(src)[Len(Front(frames)) + 1] = Last(frames) \ {src}
  BY <1>1, <1>2, AppendProperties DEF Past
<1>4. Len(Front(frames)) + 1 = Len(frames)
  BY <1>1
<1>5. Len(Past(src)) = Len(frames) /\ Past(src)[Len(frames)] = frames[Len(frames)] \ {src}
  BY <1>1, <1>3, <1>4
<1>6. ASSUME NEW i \in 1 .. Len(frames)
      PROVE  Past(src)[i] = IF i = Len(frames) THEN frames[i] \ {src} ELSE frames[i]
  <2>1. CASE i = Len(frames)
    BY <2>1, <1>5
  <2>2. CASE i # Len(frames)
    <3>1. i \in 1 .. Len(Front(frames)) /\ i \in 1 .. Len(frames) - 1
      BY <2>2, <1>1, <1>4
    <3> QED
      BY <3>1, <2>2, <1>1, <1>3
  <2> QED
    BY <2>1, <2>2
<1> QED
  BY <1>3, <1>5, <1>6

\* The stack after a call for S made with the stack fs.
LEMMA StackAfter ==
  ASSUME NEW fs \in Seq(SUBSET Arch), NEW S, GraphOK, RecRemove(S, fs)
  PROVE  /\ frames' \in Seq(SUBSET Arch) /\ Len(frames') = Len(fs) + 1
         /\ \A i \in 1 .. Len(fs) : frames'[i] = fs[i]
         /\ frames'[Len(fs) + 1] = DeExtensions(ext, S)
<1>1. DeExtensions(ext, S) \in SUBSET Arch
  BY SourceOf DEF GraphOK
<1> QED
  BY <1>1, AppendProperties DEF RecRemove

\* The edges after a removal are those of the graph the outermost call started
\* with which have neither end gone.
LEMMA RemoveStarted ==
  ASSUME GraphOK, StartedOK, NEW S \in archs, NEW fs, RecRemove(S, fs), UNCHANGED started
  PROVE  StartedOK' /\ Gone' = Gone \cup {S}
<1>1. /\ archs' = archs \ {S}
      /\ ext' = {edge \in ext : edge[1] # S /\ edge[1] \cup {edge[2]} # S}
  BY DEF RecRemove, Unlinked
<1>2. Gone' = Gone \cup {S}
  BY <1>1 DEF StartedOK, Gone
<1>3. ext' = {edge \in started.ex : edge[1] \notin Gone' /\ edge[1] \cup {edge[2]} \notin Gone'}
  BY <1>1, <1>2 DEF StartedOK
<1> QED
  BY <1>1, <1>2, <1>3 DEF StartedOK

\* Nothing but archetypes which have gone was behind one which can be removed.
LEMMA RemovableBehind ==
  ASSUME StartedOK, NEW S, CanRemoveArchetype(ext, vcount, list, S), S \notin Gone
  PROVE  Extensions(started.ex, S) \subseteq Gone /\ Unused(vcount, list, S)
<1>1. SUFFICES ASSUME NEW U \in Extensions(started.ex, S), U \notin Gone PROVE FALSE
  BY DEF CanRemoveArchetype
<1>2. PICK edge \in started.ex : edge[1] = S /\ U = S \cup {edge[2]}
  BY DEF Extensions
<1>3. edge \in ext
  BY <1>1, <1>2 DEF StartedOK
<1>4. U \in Extensions(ext, S)
  BY <1>2, <1>3 DEF Extensions
<1> QED
  BY <1>4 DEF CanRemoveArchetype

\* An archetype which can be removed only now was kept by the one removed.
LEMMA NewlyDue ==
  ASSUME NEW S, NEW fs, RecRemove(S, fs), NEW T, T # S,
         CanRemoveArchetype(ext, vcount, list, T)'
  PROVE  CanRemoveArchetype(ext, vcount, list, T) \/ T \in DeExtensions(ext, S)
<1>1. /\ ext' = {edge \in ext : edge[1] # S /\ edge[1] \cup {edge[2]} # S}
      /\ vcount' = vcount /\ list' = list
  BY DEF RecRemove, Unlinked
<1>2. Unused(vcount, list, T) /\ Extensions(ext', T) = {}
  BY <1>1 DEF CanRemoveArchetype
<1>3. SUFFICES ASSUME NEW edge \in ext, edge[1] = T PROVE T \in DeExtensions(ext, S)
  BY <1>2 DEF CanRemoveArchetype, Extensions
<1>4. edge \notin ext'
  BY <1>2, <1>3 DEF Extensions
<1>5. edge[1] \cup {edge[2]} = S
  BY <1>1, <1>3, <1>4
<1> QED
  BY <1>3, <1>5 DEF DeExtensions

LEMMA CallStep ==
  ASSUME RemovalInv, NEW S, Call(S)
  PROVE  RemovalInv'
<1>1. /\ frames = <<>> /\ S \in archs /\ CanRemoveArchetype(ext, vcount, list, S)
      /\ started' = [ar |-> archs, ex |-> ext, cs |-> containers, of |-> S]
      /\ RecRemove(S, <<>>) /\ GraphOK
  BY DEF Call, RemovalInv
<1>2. GraphOK'
  BY <1>1, RemoveGraph
<1>3. /\ archs' = archs \ {S} /\ vcount' = vcount /\ list' = list
      /\ ext' = {edge \in ext : edge[1] # S /\ edge[1] \cup {edge[2]} # S}
  BY <1>1 DEF RecRemove, Unlinked
<1>4. /\ frames' \in Seq(SUBSET Arch) /\ Len(frames') = 1
      /\ frames'[1] = DeExtensions(ext, S)
  <2> DEFINE fs == <<>>
  <2>1. fs \in Seq(SUBSET Arch) /\ Len(fs) = 0
    BY EmptySeq
  <2>2. RecRemove(S, fs)
    BY <1>1
  <2> HIDE DEF fs
  <2>3. /\ frames' \in Seq(SUBSET Arch) /\ Len(frames') = Len(fs) + 1
        /\ frames'[Len(fs) + 1] = DeExtensions(ext, S)
    BY <1>1, <2>1, <2>2, StackAfter
  <2>4. Len(fs) + 1 = 1
    BY <2>1
  <2> QED
    BY <2>3, <2>4
<1>5. Gone' = {S}
  BY <1>1, <1>3 DEF Gone
<1>6. StartedOK'
  BY <1>1, <1>3, <1>5 DEF StartedOK, GraphOK
<1>7. Below(S, S, 0)
  BY FS_EmptySet DEF Below
<1>8. FramesOK'
  <2>1. ASSUME NEW T \in DeExtensions(ext, S)
        PROVE  T \in archs' /\ Below(S, T, 1) /\ Extensions(ext, T) # {}
    <3>1. T \in archs /\ \E t \in S : t \notin T /\ S = T \cup {t}
      BY <1>1, SourceOf DEF GraphOK
    <3>2. Below(S, T, 0 + 1)
      BY <3>1, <1>7, SourceBelow
    <3> QED
      BY <2>1, <3>1, <3>2, <1>3, SourceBehind
  <2> QED
    BY <1>1, <1>4, <2>1 DEF FramesOK
<1>9. \A T \in Gone' : Justified(T)'
  <2>1. Extensions(ext, S) = {} /\ Unused(vcount, list, S)
    BY <1>1 DEF CanRemoveArchetype
  <2> QED
    BY <1>1, <1>3, <1>5, <2>1 DEF Justified
<1>10. ASSUME NEW T \in archs', Due(T)'
       PROVE  T \in frames'[1]
  <2>1. CanRemoveArchetype(ext, vcount, list, T)' /\ Extensions(ext, T) # {} /\ T # S
    BY <1>1, <1>3, <1>10 DEF Due
  <2>2. CanRemoveArchetype(ext, vcount, list, T) \/ T \in DeExtensions(ext, S)
    BY <1>1, <2>1, NewlyDue
  <2> QED
    BY <1>4, <2>1, <2>2 DEF CanRemoveArchetype
<1> QED
  BY <1>2, <1>4, <1>6, <1>8, <1>9, <1>10 DEF RemovalInv

LEMMA RecurseStep ==
  ASSUME RemovalInv, NEW src, Recurse(src)
  PROVE  RemovalInv'
<1>1. /\ frames # <<>> /\ src \in Last(frames) /\ src \in archs
      /\ CanRemoveArchetype(ext, vcount, list, src) /\ RecRemove(src, Past(src))
      /\ UNCHANGED started /\ GraphOK /\ StartedOK /\ FramesOK
      /\ \A T \in Gone : Justified(T)
      /\ \A T \in archs : Due(T) => \E i \in 1 .. Len(frames) : T \in frames[i]
  BY DEF Recurse, Visits, RemovalInv
<1> DEFINE n == Len(frames)
<1>2. GraphOK' /\ StartedOK' /\ Gone' = Gone \cup {src}
  BY <1>1, RemoveGraph, RemoveStarted
<1>3. archs' = archs \ {src} /\ vcount' = vcount /\ list' = list /\ started' = started
  BY <1>1 DEF RecRemove
<1>4. n \in Nat \ {0} /\ src \in frames[n]
  BY <1>1, FrontLast DEF FramesOK
<1>5. /\ Past(src) \in Seq(SUBSET Arch) /\ Len(Past(src)) = n
      /\ \A i \in 1 .. n : Past(src)[i] = IF i = n THEN frames[i] \ {src} ELSE frames[i]
  BY <1>1, PastOf DEF FramesOK
<1>6. /\ frames' \in Seq(SUBSET Arch) /\ Len(frames') = n + 1
      /\ \A i \in 1 .. n : frames'[i] = IF i = n THEN frames[i] \ {src} ELSE frames[i]
      /\ frames'[n + 1] = DeExtensions(ext, src)
  BY <1>1, <1>5, StackAfter
<1>7. Below(started.of, src, n)
  BY <1>1, <1>4 DEF FramesOK
<1> HIDE DEF n
<1>8. FramesOK'
  <2>1. ASSUME NEW T \in DeExtensions(ext, src)
        PROVE  T \in archs' /\ Below(started.of, T, n + 1) /\ Extensions(started.ex, T) # {}
    <3>1. T \in archs /\ \E t \in src : t \notin T /\ src = T \cup {t}
      BY <1>1, SourceOf DEF GraphOK
    <3>2. Below(started.of, T, n + 1)
      BY <3>1, <1>4, <1>7, SourceBelow
    <3>3. src \in Extensions(started.ex, T)
      <4>1. T \in DeExtensions(started.ex, src)
        BY <1>1 DEF StartedOK, DeExtensions
      <4> QED
        BY <4>1, SourceBehind
    <3> QED
      BY <3>1, <3>2, <3>3, <1>3
  <2>2. ASSUME NEW i \in 1 .. n, NEW T \in frames'[i]
        PROVE  T \in archs' /\ Below(started.of, T, i) /\ Extensions(started.ex, T) # {}
    <3>1. T \in frames[i] /\ (i = n => T # src)
      BY <1>6, <2>2
    <3>2. T \in archs /\ Below(started.of, T, i) /\ Extensions(started.ex, T) # {}
      BY <1>1, <3>1 DEF FramesOK, n
    <3>3. T # src
      BY <3>1, <3>2, <1>7 DEF Below
    <3> QED
      BY <3>2, <3>3, <1>3
  <2>3. ASSUME NEW i \in 1 .. Len(frames'), NEW T \in frames'[i]
        PROVE  T \in archs' /\ Below(started'.of, T, i) /\ Extensions(started'.ex, T) # {}
    <3>1. CASE i = n + 1
      BY <2>1, <2>3, <3>1, <1>3, <1>6
    <3>2. CASE i # n + 1
      <4>1. i \in 1 .. n
        BY <3>2, <1>4, <1>6
      <4> QED
        BY <4>1, <2>2, <2>3, <1>3
    <3> QED
      BY <3>1, <3>2
  <2> QED
    BY <1>6, <2>3 DEF FramesOK
<1>9. ASSUME NEW T \in Gone'
      PROVE  Justified(T)'
  <2>1. Extensions(started.ex, T) \subseteq Gone' /\ Unused(vcount, list, T)
    <3>1. CASE T \in Gone
      BY <3>1, <1>1, <1>2 DEF Justified
    <3>2. CASE T = src
      BY <3>2, <1>1, <1>2, RemovableBehind DEF Gone
    <3> QED
      BY <3>1, <3>2, <1>2
  <2>2. T = started.of \/ Extensions(started.ex, T) # {}
    <3>1. CASE T \in Gone
      BY <3>1, <1>1 DEF Justified
    <3>2. CASE T = src
      BY <3>2, <1>1, <1>4 DEF FramesOK, n
    <3> QED
      BY <3>1, <3>2, <1>2
  <2> QED
    BY <2>1, <2>2, <1>3 DEF Justified
<1>10. ASSUME NEW T \in archs', Due(T)'
       PROVE  \E i \in 1 .. n + 1 : T \in frames'[i]
  <2>1. CanRemoveArchetype(ext, vcount, list, T)' /\ Extensions(started.ex, T) # {} /\ T \in archs /\ T # src
    BY <1>3, <1>10 DEF Due
  <2>2. CASE T \in DeExtensions(ext, src)
    BY <2>2, <1>4, <1>6
  <2>3. CASE CanRemoveArchetype(ext, vcount, list, T)
    <3>1. PICK i \in 1 .. n : T \in frames[i]
      BY <1>1, <2>1, <2>3 DEF Due, n
    <3>2. T \in frames'[i]
      <4>1. frames'[i] = IF i = n THEN frames[i] \ {src} ELSE frames[i]
        BY <1>6, <3>1
      <4> QED
        BY <2>1, <3>1, <4>1
    <3>3. i \in 1 .. n + 1
      BY <3>1, <1>4
    <3> QED
      BY <3>2, <3>3
  <2> QED
    BY <1>1, <2>1, <2>2, <2>3, NewlyDue
<1> QED
  BY <1>2, <1>6, <1>8, <1>9, <1>10 DEF RemovalInv

LEMMA KeepStoneStep ==
  ASSUME RemovalInv, NEW src, KeepStone(src)
  PROVE  RemovalInv'
<1>1. /\ frames # <<>> /\ src \in archs /\ ~ CanRemoveArchetype(ext, vcount, list, src)
      /\ frames' = Past(src) /\ UNCHANGED <<vars, started>>
      /\ GraphOK /\ StartedOK /\ FramesOK
      /\ \A T \in Gone : Justified(T)
      /\ \A T \in archs : Due(T) => \E i \in 1 .. Len(frames) : T \in frames[i]
  BY DEF KeepStone, Visits, RemovalInv
<1>2. /\ frames' \in Seq(SUBSET Arch) /\ Len(frames') = Len(frames)
      /\ \A i \in 1 .. Len(frames) :
           frames'[i] = IF i = Len(frames) THEN frames[i] \ {src} ELSE frames[i]
  BY <1>1, PastOf DEF FramesOK
<1>3. UNCHANGED <<archs, ext, containers, vcount, list, started>>
  BY <1>1 DEF vars
<1>4. /\ GraphOK' /\ StartedOK' /\ Gone' = Gone /\ \A T : Justified(T)' <=> Justified(T)
      /\ \A T : Due(T)' <=> Due(T)
  BY <1>1, <1>3 DEF GraphOK, StartedOK, Gone, Justified, Due
<1>5. \A i \in 1 .. Len(frames) : frames'[i] \subseteq frames[i]
  BY <1>2
<1>6. FramesOK'
  BY <1>1, <1>2, <1>3, <1>5 DEF FramesOK
<1>7. ASSUME NEW T \in archs, Due(T)
      PROVE  \E i \in 1 .. Len(frames') : T \in frames'[i]
  <2>1. PICK i \in 1 .. Len(frames) : T \in frames[i]
    BY <1>1, <1>7
  <2>2. T # src
    BY <1>1, <1>7 DEF Due
  <2> QED
    BY <1>2, <2>1, <2>2
<1> QED
  BY <1>1, <1>3, <1>4, <1>6, <1>7 DEF RemovalInv

LEMMA ReturnStep ==
  ASSUME RemovalInv, Return
  PROVE  RemovalInv'
<1>1. /\ frames # <<>> /\ Last(frames) = {} /\ frames' = Front(frames) /\ UNCHANGED vars
      /\ started' = IF Len(frames) = 1 THEN NotStarted ELSE started
      /\ GraphOK /\ StartedOK /\ FramesOK
      /\ \A T \in Gone : Justified(T)
      /\ \A T \in archs : Due(T) => \E i \in 1 .. Len(frames) : T \in frames[i]
  BY DEF Return, RemovalInv
<1> DEFINE n == Len(frames)
<1>2. /\ n \in Nat \ {0} /\ frames[n] = {}
      /\ frames' \in Seq(SUBSET Arch) /\ Len(frames') = n - 1
      /\ \A i \in 1 .. n - 1 : frames'[i] = frames[i]
  BY <1>1, FrontLast DEF FramesOK
<1>3. UNCHANGED <<archs, ext, containers, vcount, list>>
  BY <1>1 DEF vars
<1>4. GraphOK'
  BY <1>1, <1>3 DEF GraphOK
<1>5. CASE n = 1
  <2>1. frames' = <<>>
    BY <1>2, <1>5, EmptySeq
  <2>2. FramesOK'
    BY <1>2, <1>5 DEF FramesOK
  <2> QED
    BY <1>4, <2>1, <2>2 DEF RemovalInv
<1>6. CASE n # 1
  <2>1. started' = started
    BY <1>1, <1>6
  <2>2. /\ StartedOK' /\ Gone' = Gone /\ \A T : Justified(T)' <=> Justified(T)
        /\ \A T : Due(T)' <=> Due(T)
    BY <1>1, <1>3, <2>1 DEF StartedOK, Gone, Justified, Due
  <2>3. FramesOK'
    <3> SUFFICES ASSUME NEW i \in 1 .. n - 1, NEW T \in frames[i]
                 PROVE  T \in archs /\ Below(started.of, T, i) /\ Extensions(started.ex, T) # {}
      BY <1>2, <1>3, <2>1 DEF FramesOK
    <3>1. i \in 1 .. n
      BY <1>2
    <3> QED
      BY <1>1, <3>1 DEF FramesOK
  <2>4. ASSUME NEW T \in archs, Due(T)
        PROVE  \E i \in 1 .. n - 1 : T \in frames'[i]
    <3>1. PICK i \in 1 .. n : T \in frames[i]
      BY <1>1, <2>4
    <3>2. i \in 1 .. n - 1
      BY <1>2, <3>1
    <3> QED
      BY <1>2, <3>1, <3>2
  <2> QED
    BY <1>1, <1>2, <1>3, <1>4, <2>2, <2>3, <2>4 DEF RemovalInv
<1> QED
  BY <1>5, <1>6

\* Between the calls the graph may grow.
LEMMA BetweenCallsStep ==
  ASSUME RemovalInv, AddEdge \/ Occupy
  PROVE  RemovalInv'
<1>1. frames = <<>> /\ frames' = frames /\ started' = started /\ GraphOK
  BY DEF AddEdge, Occupy, callVars, RemovalInv
<1>2. ASSUME AddEdge
      PROVE  GraphOK'
  <2>1. PICK S \in Arch : \E t \in Tag \ S :
          ext' = ext \cup {<<S, t>>} /\ archs' = archs \cup {S, S \cup {t}}
    BY <1>2 DEF AddEdge
  <2>2. PICK t \in Tag \ S : ext' = ext \cup {<<S, t>>} /\ archs' = archs \cup {S, S \cup {t}}
    BY <2>1
  <2>3. archs' \subseteq Arch
    BY <1>1, <2>2 DEF GraphOK, Arch
  <2>4. IsFiniteSet(archs')
    <3>1. IsFiniteSet(archs \cup {S}) /\ IsFiniteSet((archs \cup {S}) \cup {S \cup {t}})
      BY <1>1, FS_AddElement DEF GraphOK
    <3>2. archs' = (archs \cup {S}) \cup {S \cup {t}}
      BY <2>2
    <3> QED
      BY <3>1, <3>2
  <2>5. GraphOf(archs', ext')
    BY <1>1, <2>2 DEF GraphOK, GraphOf
  <2>6. containers' = ContainersOf(archs')
    BY <1>2 DEF AddEdge, ContainersOf
  <2> QED
    BY <2>3, <2>4, <2>5, <2>6 DEF GraphOK
<1>3. ASSUME Occupy
      PROVE  GraphOK'
  BY <1>1, <1>3 DEF Occupy, graphVars, GraphOK
<1>4. FramesOK'
  BY <1>1, EmptySeq DEF FramesOK
<1> QED
  BY <1>1, <1>2, <1>3, <1>4 DEF RemovalInv

LEMMA RemovalStep == RemovalInv /\ [RemovalNext]_removalVars => RemovalInv'
<1> SUFFICES ASSUME RemovalInv, [RemovalNext]_removalVars PROVE RemovalInv'
  OBVIOUS
<1>1. CASE UNCHANGED removalVars
  <2>1. UNCHANGED <<archs, ext, containers, vcount, list, frames, started>>
    BY <1>1 DEF removalVars, callVars, vars
  <2> QED
    BY <2>1 DEF RemovalInv, GraphOK, FramesOK, StartedOK, Gone, Justified, Due
<1>2. CASE RemovalNext
  BY <1>2, BetweenCallsStep, CallStep, RecurseStep, KeepStoneStep, ReturnStep DEF RemovalNext
<1> QED
  BY <1>1, <1>2

LEMMA RemovalInvariant == RemovalSpec => []RemovalInv
<1>1. RemovalInit => RemovalInv
  <2> SUFFICES ASSUME RemovalInit PROVE RemovalInv
    OBVIOUS
  <2>1. /\ archs = {Root} /\ ext = {} /\ frames = <<>>
        /\ containers = [t \in Tag |-> {}]
    BY DEF RemovalInit, Init
  <2>2. GraphOK
    BY <2>1, FS_Singleton DEF GraphOK, GraphOf, ContainersOf, Arch, Root
  <2>3. FramesOK
    BY <2>1, EmptySeq DEF FramesOK
  <2> QED
    BY <2>1, <2>2, <2>3 DEF RemovalInv
<1> QED
  BY <1>1, RemovalStep, PTL DEF RemovalSpec

\* The recursion removes exactly the archetypes which Database removes in one
\* step (SteppingStones), with their edges and from the containers, whatever the
\* graph, the archetypes in use and the order of the hash maps.
THEOREM RemovalTheorem == RemovalSpec => []RemovalAsCoded
<1>1. RemovalInv => RemovalAsCoded
  <2> SUFFICES ASSUME RemovalInv, frames = <<{}>>
               PROVE  LET gone == SteppingStones(started.ar, started.ex, vcount, list, started.of)
                      IN /\ archs = started.ar \ gone
                         /\ ext = {e \in started.ex : e[1] \notin gone /\ e[1] \cup {e[2]} \notin gone}
                         /\ containers = [t \in Tag |-> started.cs[t] \ gone]
    BY DEF RemovalAsCoded
  <2>1. frames # <<>> /\ Len(frames) = 1 /\ frames[1] = {}
    OBVIOUS
  <2>2. /\ GraphOK /\ StartedOK /\ \A T \in Gone : Justified(T)
        /\ \A T \in archs : Due(T) => \E i \in 1 .. Len(frames) : T \in frames[i]
    BY <2>1 DEF RemovalInv
  <2>3. \A T \in archs : ~ Due(T)
    BY <2>1, <2>2
  <2>4. Gone = SteppingStones(started.ar, started.ex, vcount, list, started.of)
    BY <2>2, <2>3, GoneIsFixpoint
  <2>5. archs = started.ar \ Gone
    BY <2>2 DEF StartedOK, Gone
  <2>6. containers = [t \in Tag |-> started.cs[t] \ Gone]
    BY <2>2, <2>5 DEF GraphOK, StartedOK, ContainersOf
  <2> QED
    BY <2>2, <2>4, <2>5, <2>6 DEF StartedOK
<1> QED
  BY <1>1, RemovalInvariant, PTL

\* No call meets an archetype which is gone already, or a tag without its entry:
\* neither the arena's panic nor the unreachable!() can be reached from here.
THEOREM NeverStaleTheorem == RemovalSpec => []NeverStale
<1>1. RemovalInv => NeverStale
  <2> SUFFICES ASSUME RemovalInv PROVE NeverStale
    OBVIOUS
  <2>1. ASSUME NEW i \in DOMAIN frames
        PROVE  frames[i] \subseteq archs
    BY <2>1, LenProperties DEF RemovalInv, FramesOK
  <2>2. ASSUME NEW S \in archs, NEW t \in S
        PROVE  S \in containers[t]
    BY <2>2 DEF RemovalInv, GraphOK, ContainersOf, Arch
  <2> QED
    BY <2>1, <2>2 DEF NeverStale
<1> QED
  BY <1>1, RemovalInvariant, PTL
=============================================================================
