--------------------------- MODULE DbStorageProofs ---------------------------
(***************************************************************************)
(* The component storage of DbStorage, for any number of entities, tags    *)
(* and managing tags, and any size of the heaps: through every insertion,  *)
(* removal, destruction and step of a flush the data of an entity stays    *)
(* beside it.                                                              *)
(***************************************************************************)
EXTENDS DbStorage, DatabaseProofs

-----------------------------------------------------------------------------
(* The sizes of the heaps.  Every heap has twice the size of the one       *)
(* before, so a column left longer than a list fits it again when the list *)
(* regrows.                                                                *)

\* The heaps of a are the first heaps of b, their content aside.
Shorter(a, b) ==
  /\ Len(a) <= Len(b)
  /\ \A i \in 1 .. Len(a) : Len(a[i]) = Len(b[i])

Doubling(hs) ==
  /\ hs # <<>> => Len(hs[1]) = HeapMin
  /\ \A i \in 1 .. Len(hs) : HeapMin <= Len(hs[i])
  /\ \A i \in 1 .. Len(hs) : i + 1 \in 1 .. Len(hs) => Len(hs[i + 1]) = 2 * Len(hs[i])

\* The heaps of a column, and those of the entity list beside it.
Heaps == Seq(Seq(Content))

\* A column fits a list: where both have a heap, they have the same size.
Fits(c, hs) ==
  /\ Doubling(c) /\ Doubling(hs)
  /\ \A i \in 1 .. Len(c) : i \in 1 .. Len(hs) => Len(c[i]) = Len(hs[i])

\* Sizes are numbers.
LEMMA HeapsLen ==
  ASSUME NEW hs \in Heaps
  PROVE  /\ Len(hs) \in Nat /\ DOMAIN hs = 1 .. Len(hs)
         /\ hs # <<>> <=> Len(hs) # 0
         /\ \A i \in 1 .. Len(hs) :
              hs[i] \in Seq(Content) /\ Len(hs[i]) \in Nat /\ DOMAIN hs[i] = 1 .. Len(hs[i])
<1>1. Len(hs) \in Nat /\ DOMAIN hs = 1 .. Len(hs) /\ (hs # <<>> <=> Len(hs) # 0)
  BY LenProperties, EmptyLen DEF Heaps
<1>2. \A i \in 1 .. Len(hs) : hs[i] \in Seq(Content)
  BY ElementOfSeq DEF Heaps
<1> QED
  BY <1>1, <1>2, LenProperties

\* The first heaps of heaps doubling in size do so too.
LEMMA ShorterDoubling ==
  ASSUME NEW a \in Heaps, NEW b \in Heaps, Shorter(a, b), Doubling(b)
  PROVE  Doubling(a)
<1>1. Len(a) \in Nat /\ Len(b) \in Nat /\ (a # <<>> <=> Len(a) # 0) /\ (b # <<>> <=> Len(b) # 0)
  BY HeapsLen
<1>2. a # <<>> => b # <<>> /\ 1 \in 1 .. Len(a)
  BY <1>1 DEF Shorter
<1>3. \A i \in 1 .. Len(a) : i \in 1 .. Len(b)
  BY <1>1 DEF Shorter
<1> QED
  BY <1>2, <1>3 DEF Shorter, Doubling

\* The order is transitive.
LEMMA ShorterTransitive ==
  ASSUME NEW a \in Heaps, NEW b \in Heaps, NEW c \in Heaps, Shorter(a, b), Shorter(b, c)
  PROVE  Shorter(a, c)
<1>1. Len(a) \in Nat /\ Len(b) \in Nat /\ Len(c) \in Nat
  BY HeapsLen
<1> QED
  BY <1>1 DEF Shorter

\* A column which fits a list fits what is left of it, and so on.
LEMMA ShorterFits ==
  ASSUME NEW c \in Heaps, NEW hs \in Heaps, NEW c2 \in Heaps, NEW hs2 \in Heaps,
         Fits(c, hs), Shorter(c2, c), Shorter(hs2, hs)
  PROVE  Fits(c2, hs2)
<1>1. Len(c) \in Nat /\ Len(hs) \in Nat /\ Len(c2) \in Nat /\ Len(hs2) \in Nat
  BY HeapsLen
<1>2. Doubling(c2) /\ Doubling(hs2)
  BY ShorterDoubling DEF Fits
<1>3. \A i \in 1 .. Len(c2) : i \in 1 .. Len(c)
  BY <1>1 DEF Shorter
<1>4. \A i \in 1 .. Len(hs2) : i \in 1 .. Len(hs)
  BY <1>1 DEF Shorter
<1> QED
  BY <1>2, <1>3, <1>4 DEF Fits, Shorter

\* Overwriting a slot changes no size, cutting a list takes its first heaps.
LEMMA SetAtShorter ==
  ASSUME NEW l, ListOK(l), NEW h, NEW s, NEW e \in Content
  PROVE  Shorter(SetAt(l, h, s, e).heaps, l.heaps)
<1>1. Len(SetAt(l, h, s, e).heaps) = Len(l.heaps) /\ Len(l.heaps) \in Nat
  BY SetAtOK, ListParts
<1>2. \A i \in 1 .. Len(l.heaps) : Len(SetAt(l, h, s, e).heaps[i]) = Len(l.heaps[i])
  BY SetAtOK
<1> QED
  BY <1>1, <1>2 DEF Shorter

\* So does giving up the back.
LEMMA PopBackShorter ==
  ASSUME NEW l, ListOK(l), l.heaps # <<>>
  PROVE  Shorter(PopBack(l).heaps, l.heaps)
<1> DEFINE k == Len(l.heaps)
           front == Front(l.heaps)
<1>1. k \in Nat \ {0} /\ l.last \in 1 .. Len(l.heaps[k]) /\ Len(l.heaps[k]) \in Nat
  <2>1. k \in Nat \ {0}
    BY ListParts, EmptyLen
  <2> QED
    BY <2>1, ListParts DEF ListOK, Last
<1>2. CASE l.last > 1
  <2>1. k \in 1 .. k /\ l.last - 1 \in 1 .. Len(l.heaps[k])
    BY <1>1, <1>2
  <2>2. PopBack(l) = Cut(l, k, l.last - 1)
    BY <1>2 DEF PopBack
  <2>3. FirstHeaps(PopBack(l), l, k, l.last - 1)
    BY <2>1, <2>2, CutOK
  <2> QED
    BY <1>1, <2>3 DEF FirstHeaps, Shorter
<1>3. CASE ~ (l.last > 1)
  <2>1. PopBack(l).heaps = front
    BY <1>3 DEF PopBack
  <2>2. Len(front) = k - 1 /\ \A i \in 1 .. k - 1 : front[i] = l.heaps[i]
    <3>1. l.heaps \in Seq(Seq(Content))
      BY ListParts
    <3> QED
      BY <3>1, FrontOK
  <2> HIDE DEF front, k
  <2>3. k - 1 <= k
    BY <1>1
  <2> QED
    BY <2>1, <2>2, <2>3 DEF Shorter, k
<1> QED
  BY <1>2, <1>3

\* And pruning.
LEMMA PrunedShorter ==
  ASSUME NEW l, ListOK(l)
  PROVE  Shorter(Pruned(l).heaps, l.heaps)
<1> DEFINE survivors == {p \in Used(l) : At(l, p) \in alive}
           back == CHOOSE p \in survivors : \A q \in survivors : Before(q, p)
<1>0. Len(l.heaps) \in Nat
  BY ListParts
<1>1. CASE survivors = {}
  <2>1. Pruned(l).heaps = <<>>
    BY <1>1 DEF Pruned, EmptyList
  <2> QED
    BY <2>1, <1>0 DEF Shorter
<1>2. CASE survivors # {}
  <2>1. back \in survivors
    <3>1. survivors \in SUBSET Used(l)
      OBVIOUS
    <3> HIDE DEF survivors
    <3> QED
      BY <3>1, <1>2, LastSlot
  <2>2. Pruned(l) = Cut(l, back[1], back[2])
    BY <1>2 DEF Pruned
  <2> HIDE DEF back
  <2>3. back[1] \in 1 .. Len(l.heaps) /\ back[2] \in 1 .. HeapLen(l, back[1])
    BY <2>1, UsedOf
  <2>4. HeapLen(l, back[1]) \in 1 .. Len(l.heaps[back[1]]) /\ Len(l.heaps[back[1]]) \in Nat
    BY <2>3, UsedOf, ListParts
  <2>5. back[2] \in 1 .. Len(l.heaps[back[1]])
    BY <2>3, <2>4
  <2>6. FirstHeaps(Pruned(l), l, back[1], back[2])
    BY <2>2, <2>3, <2>5, CutOK
  <2> QED
    BY <2>3, <2>6, <1>0 DEF FirstHeaps, Shorter
<1> QED
  BY <1>1, <1>2

\* A push keeps the heaps there are, and a heap it adds has twice the size of the last:
\* the size of whatever a column still has there.
LEMMA PushBackFits ==
  ASSUME NEW l, ListOK(l), NEW e \in Content, NEW c \in Heaps, Fits(c, l.heaps)
  PROVE  /\ Fits(c, PushBack(l, e).heaps)
         /\ Shorter(l.heaps, PushBack(l, e).heaps)
<1> DEFINE k == Len(l.heaps)
           lastCap == IF l.heaps = <<>> THEN 0 ELSE Len(Last(l.heaps))
           newCap == IF 2 * lastCap > HeapMin THEN 2 * lastCap ELSE HeapMin
           newHeap == [s \in 1 .. newCap |-> IF s = 1 THEN e ELSE PLACEHOLDER]
           new == PushBack(l, e).heaps
<1>1. /\ k \in Nat /\ l.heaps \in Heaps /\ DOMAIN l.heaps = 1 .. k
      /\ \A i \in 1 .. k : Len(l.heaps[i]) \in Nat \ {0}
      /\ l.heaps # <<>> <=> k # 0
  BY ListParts, EmptyLen DEF Heaps
<1>2. lastCap \in Nat /\ (k # 0 => lastCap = Len(l.heaps[k]))
  BY <1>1 DEF Last
<1>3. HeapMin \in Nat \ {0}
  BY DatabaseAssumption
<1>4. /\ Len(c) \in Nat
      /\ c # <<>> <=> Len(c) # 0
  BY HeapsLen
<1>5. CASE l.last = lastCap
  <2>1. new = Append(l.heaps, newHeap)
    BY <1>5 DEF PushBack
  <2>2. newCap \in Nat \ {0}
    BY <1>2, <1>3
  <2>3. newHeap \in Seq(Content) /\ Len(newHeap) = newCap
    <3> HIDE DEF newCap
    <3>1. newHeap \in [1 .. newCap -> Content]
      BY DEF Content
    <3> QED
      BY <3>1, <2>2
  <2>4. /\ Len(new) = k + 1 /\ new[k + 1] = newHeap
        /\ \A i \in 1 .. k : new[i] = l.heaps[i]
    <3> DEFINE SC == Seq(Content)
    <3>1. l.heaps \in Seq(SC) /\ newHeap \in SC
      BY <1>1, <2>3 DEF Heaps
    <3> HIDE DEF SC, newHeap, new
    <3> QED
      BY <3>1, <2>1, AppendProperties
  <2> HIDE DEF newHeap, new
  <2>5. Shorter(l.heaps, new)
    BY <2>4, <1>1 DEF Shorter
  <2>6. newCap = IF k = 0 THEN HeapMin ELSE 2 * Len(l.heaps[k])
    <3>1. CASE k = 0
      BY <3>1, <1>1, <1>3
    <3>2. CASE k # 0
      <4>1. k \in 1 .. k /\ HeapMin <= lastCap
        BY <3>2, <1>1, <1>2 DEF Fits, Doubling
      <4> QED
        BY <4>1, <3>2, <1>2, <1>3
    <3> QED
      BY <3>1, <3>2
  <2>7. Len(new[k + 1]) = newCap /\ HeapMin <= newCap
    BY <2>3, <2>4, <1>2, <1>3
  <2> HIDE DEF newCap
  <2>8. \A i \in 1 .. k : Len(new[i]) = Len(l.heaps[i]) /\ HeapMin <= Len(new[i])
    BY <2>4 DEF Fits, Doubling
  <2> HIDE DEF k
  <2>9. Doubling(new)
    <3>1. ASSUME NEW i \in 1 .. Len(new)
          PROVE  HeapMin <= Len(new[i]) /\ (i + 1 \in 1 .. Len(new) => Len(new[i + 1]) = 2 * Len(new[i]))
      <4>1. i \in 1 .. k \/ i = k + 1
        BY <2>4, <1>1
      <4>2. CASE i = k + 1
        BY <4>2, <2>4, <2>7, <1>1
      <4>3. CASE i \in 1 .. k /\ i # k
        <5>1. i + 1 \in 1 .. k
          BY <4>3, <1>1
        <5> QED
          BY <4>3, <5>1, <2>8 DEF Fits, Doubling, k
      <4>4. CASE i = k
        <5>1. k \in 1 .. k /\ k # 0
          BY <4>4, <3>1, <1>1
        <5>2. Len(new[k]) = Len(l.heaps[k]) /\ HeapMin <= Len(new[k])
          BY <5>1, <2>8
        <5>3. Len(new[k + 1]) = 2 * Len(l.heaps[k])
          BY <5>1, <2>6, <2>7
        <5> QED
          BY <4>4, <5>2, <5>3
      <4> QED
        BY <4>1, <4>2, <4>3, <4>4
    <3>2. Len(new[1]) = HeapMin
      <4>1. CASE k = 0
        BY <4>1, <2>6, <2>7
      <4>2. CASE k # 0
        <5>1. 1 \in 1 .. k /\ Len(l.heaps[1]) = HeapMin
          BY <4>2, <1>1 DEF Fits, Doubling
        <5> QED
          BY <5>1, <2>8
      <4> QED
        BY <4>1, <4>2
    <3> QED
      BY <3>1, <3>2 DEF Doubling
  <2>10. ASSUME NEW i \in 1 .. Len(c), i \in 1 .. Len(new)
         PROVE  Len(c[i]) = Len(new[i])
    <3>1. CASE i \in 1 .. k
      BY <3>1, <2>8 DEF Fits, k
    <3>2. CASE i \notin 1 .. k
      <4>1. i = k + 1
        BY <3>2, <2>4, <2>10, <1>1
      <4>2. CASE k = 0
        <5>1. c # <<>> /\ i = 1
          BY <4>1, <4>2, <1>4
        <5> QED
          BY <5>1, <4>1, <4>2, <2>6, <2>7 DEF Fits, Doubling
      <4>3. CASE k # 0
        <5>1. k \in 1 .. k /\ k \in 1 .. Len(c) /\ k + 1 \in 1 .. Len(c)
          BY <4>1, <4>3, <1>1, <1>4
        <5>2. Len(c[k]) = Len(l.heaps[k])
          BY <5>1 DEF Fits, k
        <5>3. Len(c[k + 1]) = 2 * Len(c[k])
          BY <5>1 DEF Fits, Doubling
        <5> QED
          BY <5>2, <5>3, <4>1, <4>3, <2>6, <2>7
      <4> QED
        BY <4>2, <4>3
    <3> QED
      BY <3>1, <3>2
  <2> QED
    BY <2>5, <2>9, <2>10 DEF Fits, new
<1>6. CASE l.last # lastCap
  <2>1. l.heaps # <<>>
    BY <1>6 DEF ListOK
  <2>2. new = SetAt(l, k, l.last + 1, e).heaps
    BY <1>6, <2>1 DEF PushBack
  <2>3. /\ Len(SetAt(l, k, l.last + 1, e).heaps) = k
        /\ \A i \in 1 .. k : Len(SetAt(l, k, l.last + 1, e).heaps[i]) = Len(l.heaps[i])
    <3> HIDE DEF newHeap, newCap, lastCap, new
    <3>1. Len(SetAt(l, k, l.last + 1, e).heaps) = k
      BY SetAtOK
    <3>2. \A i \in 1 .. Len(l.heaps) : Len(SetAt(l, k, l.last + 1, e).heaps[i]) = Len(l.heaps[i])
      <4> DEFINE s1 == l.last + 1
      <4>1. k = Len(l.heaps)
        OBVIOUS
      <4> HIDE DEF s1, k
      <4>2. \A i \in 1 .. Len(l.heaps) : Len(SetAt(l, k, s1, e).heaps[i]) = Len(l.heaps[i])
        BY SetAtOK
      <4> QED
        BY <4>2 DEF s1
    <3> QED
      BY <3>1, <3>2
  <2> HIDE DEF new
  <2>4. new \in Heaps
    <3>1. ListOK(PushBack(l, e))
      BY PushBackOK
    <3> QED
      BY <3>1, ListParts DEF new, Heaps
  <2>5. Shorter(new, l.heaps) /\ Shorter(l.heaps, new)
    BY <2>2, <2>3, <1>1 DEF Shorter
  <2>6. Shorter(c, c)
    BY <1>4 DEF Shorter
  <2> QED
    BY <2>4, <2>5, <2>6, <1>1, ShorterFits DEF new
<1> QED
  BY <1>5, <1>6

-----------------------------------------------------------------------------
(* The cells of the columns.                                               *)

Columns == [Arch -> Heaps]

\* Where a component may be.
Homes == {NoHome, Anonymous} \cup {External(h, s) : h \in Index, s \in Index}

\* The owner of a slot of a column; slots which do not exist have none.
CellOf(c, h, s) ==
  IF h \in 1 .. Len(c) /\ s \in 1 .. Len(c[h]) THEN c[h][s] ELSE PLACEHOLDER

Cell(col, S, h, s) == CellOf(col[S], h, s)

SameSizes(a, b) == Shorter(a, b) /\ Shorter(b, a)

\* Cells hold entities or nothing.
LEMMA CellOK ==
  ASSUME NEW c \in Heaps, NEW h, NEW s
  PROVE  CellOf(c, h, s) \in Content
<1> SUFFICES ASSUME h \in 1 .. Len(c), s \in 1 .. Len(c[h]) PROVE c[h][s] \in Content
  BY DEF CellOf, Content
<1>1. c[h] \in Seq(Content)
  BY HeapsLen
<1> QED
  BY <1>1, ElementOfSeq

\* Homes of different kinds or at different slots differ.
LEMMA HomesDiffer ==
  /\ NoHome # Anonymous
  /\ \A h, s : External(h, s) # NoHome /\ External(h, s) # Anonymous
  /\ \A h, s, h2, s2 : External(h, s) = External(h2, s2) => h = h2 /\ s = s2
  /\ \A h, s : External(h, s).kind = "external" /\ External(h, s).heap = h /\ External(h, s).slot = s
  /\ NoHome.kind = "none" /\ Anonymous.kind = "anonymous"
<1>1. \A h, s : External(h, s).kind = "external" /\ External(h, s).heap = h /\ External(h, s).slot = s
  BY DEF External
<1>2. NoHome.kind = "none" /\ Anonymous.kind = "anonymous"
  BY DEF NoHome, Anonymous
<1> QED
  BY <1>1, <1>2

\* Columns of the same sizes have the same length.
LEMMA SameSizesOf ==
  ASSUME NEW a \in Heaps, NEW b \in Heaps
  PROVE  SameSizes(a, b) <=> Len(a) = Len(b) /\ \A i \in 1 .. Len(a) : Len(a[i]) = Len(b[i])
<1>1. Len(a) \in Nat /\ Len(b) \in Nat
  BY HeapsLen
<1> QED
  BY <1>1 DEF SameSizes, Shorter

\* Writing a slot which exists.
Put(col, S, h, s, x) == [col EXCEPT ![S][h][s] = x]

\* The columns "new" are col but for the owner x of one slot.
DifferAt(new, col, S, h, s, x) ==
  /\ new \in Columns
  /\ \A T \in Arch : SameSizes(new[T], col[T])
  /\ \A T \in Arch : \A i, j :
       Cell(new, T, i, j) = IF T = S /\ i = h /\ j = s THEN x ELSE Cell(col, T, i, j)

\* A write changes the slot it is to and no size.
LEMMA PutOK ==
  ASSUME NEW col \in Columns, NEW S \in Arch,
         NEW h \in 1 .. Len(col[S]), NEW s \in 1 .. Len(col[S][h]), NEW x \in Content
  PROVE  DifferAt(Put(col, S, h, s, x), col, S, h, s, x)
<1> DEFINE new == Put(col, S, h, s, x)
<1>0. new = [col EXCEPT ![S][h][s] = x]
  BY DEF Put
<1> HIDE DEF new
<1> DEFINE heap == [col[S][h] EXCEPT ![s] = x]
           c == [col[S] EXCEPT ![h] = heap]
<1>1. col[S] \in Heaps /\ \A T \in Arch : col[T] \in Heaps
  BY DEF Columns
<1>2. /\ Len(col[S]) \in Nat /\ DOMAIN col[S] = 1 .. Len(col[S])
      /\ col[S][h] \in Seq(Content) /\ Len(col[S][h]) \in Nat /\ DOMAIN col[S][h] = 1 .. Len(col[S][h])
  BY <1>1, HeapsLen
<1>3. /\ heap \in Seq(Content) /\ Len(heap) = Len(col[S][h])
      /\ \A j \in 1 .. Len(col[S][h]) : heap[j] = IF j = s THEN x ELSE col[S][h][j]
  BY <1>2, ExceptSeq
<1>4. new = [col EXCEPT ![S] = c]
  BY <1>0, Zenon
<1> HIDE DEF heap
<1>5. /\ c \in Heaps /\ Len(c) = Len(col[S])
      /\ \A i \in 1 .. Len(col[S]) : c[i] = IF i = h THEN heap ELSE col[S][i]
  <2> DEFINE SC == Seq(Content)
  <2>1. col[S] \in Seq(SC) /\ heap \in SC
    BY <1>1, <1>3 DEF Heaps
  <2> HIDE DEF SC
  <2>2. /\ c \in Seq(SC) /\ Len(c) = Len(col[S])
        /\ \A i \in 1 .. Len(col[S]) : c[i] = IF i = h THEN heap ELSE col[S][i]
    BY <2>1, ExceptSeq
  <2> QED
    BY <2>2 DEF SC, Heaps
<1> HIDE DEF c
<1>6. new \in Columns /\ \A T \in Arch : new[T] = IF T = S THEN c ELSE col[T]
  BY <1>4, <1>5 DEF Columns
<1>7. SameSizes(c, col[S]) /\ \A T \in Arch : SameSizes(col[T], col[T])
  BY <1>1, <1>3, <1>5, SameSizesOf
<1>8. \A i, j : CellOf(c, i, j) = IF i = h /\ j = s THEN x ELSE CellOf(col[S], i, j)
  BY <1>3, <1>5 DEF CellOf
<1>9. ASSUME NEW T \in Arch
      PROVE  SameSizes(new[T], col[T])
  BY <1>6, <1>7
<1>10. ASSUME NEW T \in Arch, NEW i, NEW j
       PROVE  Cell(new, T, i, j) = IF T = S /\ i = h /\ j = s THEN x ELSE Cell(col, T, i, j)
  <2>1. CASE T = S
    <3>1. new[T] = c /\ col[T] = col[S]
      BY <2>1, <1>6
    <3>2. Cell(new, T, i, j) = CellOf(c, i, j) /\ Cell(col, T, i, j) = CellOf(col[S], i, j)
      BY <3>1 DEF Cell
    <3> QED
      BY <2>1, <3>2, <1>8
  <2>2. CASE T # S
    <3>1. new[T] = col[T]
      BY <2>2, <1>6
    <3> QED
      BY <2>2, <3>1 DEF Cell
  <2> QED
    BY <2>1, <2>2
<1> QED
  BY <1>6, <1>9, <1>10 DEF new, DifferAt

\* A column extended to the heap n of the list beside it.
LEMMA GrownOK ==
  ASSUME NEW c \in Heaps, NEW l, ListOK(l), Fits(c, l.heaps), NEW n \in 1 .. Len(l.heaps)
  PROVE  /\ Grown(c, l, n) \in Heaps
         /\ Fits(Grown(c, l, n), l.heaps)
         /\ Len(Grown(c, l, n)) = IF Len(c) < n THEN n ELSE Len(c)
         /\ n \in 1 .. Len(Grown(c, l, n))
         /\ Len(Grown(c, l, n)[n]) = Len(l.heaps[n])
         /\ \A i, j : CellOf(Grown(c, l, n), i, j) = CellOf(c, i, j)
<1> DEFINE m == IF Len(c) < n THEN n ELSE Len(c)
           fresh(i) == [s \in DOMAIN l.heaps[i] |-> PLACEHOLDER]
           g == Grown(c, l, n)
<1>1. /\ l.heaps \in Heaps /\ Len(l.heaps) \in Nat
      /\ \A i \in 1 .. Len(l.heaps) :
           Len(l.heaps[i]) \in Nat /\ DOMAIN l.heaps[i] = 1 .. Len(l.heaps[i])
  BY ListParts DEF Heaps
<1>2. /\ Len(c) \in Nat /\ DOMAIN c = 1 .. Len(c)
      /\ \A i \in 1 .. Len(c) : c[i] \in Seq(Content) /\ Len(c[i]) \in Nat
  BY HeapsLen
<1>3. m \in Nat /\ n \in 1 .. m /\ Len(c) <= m /\ (m # Len(c) => m = n)
  <2>1. Len(l.heaps) \in Nat /\ Len(c) \in Nat
    BY <1>1, <1>2
  <2>2. n \in Nat \ {0}
    BY <2>1
  <2> QED
    BY <2>1, <2>2
<1>4. g = [i \in 1 .. m |-> IF i \in 1 .. Len(c) THEN c[i] ELSE fresh(i)]
  BY <1>2 DEF Grown
<1>5. \A i \in 1 .. Len(l.heaps) :
        /\ fresh(i) \in Seq(Content) /\ Len(fresh(i)) = Len(l.heaps[i])
        /\ \A s \in 1 .. Len(l.heaps[i]) : fresh(i)[s] = PLACEHOLDER
  <2> TAKE i \in 1 .. Len(l.heaps)
  <2> DEFINE k == Len(l.heaps[i])
  <2>1. fresh(i) \in [1 .. k -> Content] /\ k \in Nat
    BY <1>1 DEF Content
  <2>2. fresh(i) \in Seq(Content) /\ Len(fresh(i)) = k
    <3> HIDE DEF fresh, k
    <3> QED
      BY <2>1
  <2> QED
    BY <2>2, <1>1
<1> HIDE DEF fresh, g
<1>6. \A i \in 1 .. m : i \notin 1 .. Len(c) => i \in 1 .. Len(l.heaps)
  <2>1. Len(l.heaps) \in Nat /\ Len(c) \in Nat
    BY <1>1, <1>2
  <2> HIDE DEF m
  <2> QED
    BY <2>1, <1>3
<1>7. g \in Heaps /\ Len(g) = m
  <2>1. \A i \in 1 .. m : g[i] \in Seq(Content)
    BY <1>2, <1>4, <1>5, <1>6
  <2>2. g \in [1 .. m -> Seq(Content)]
    BY <2>1, <1>4
  <2> HIDE DEF m
  <2> QED
    BY <2>2, <1>3 DEF Heaps
<1>8. \A i \in 1 .. m : g[i] = IF i \in 1 .. Len(c) THEN c[i] ELSE fresh(i)
  BY <1>4
<1> HIDE DEF m
<1>9. ASSUME NEW i, NEW j
      PROVE  CellOf(g, i, j) = CellOf(c, i, j)
  <2>1. CASE i \in 1 .. Len(c)
    <3>0. Len(c) \in Nat /\ m \in Nat /\ Len(c) <= m
      BY <1>2, <1>3, Zenon
    <3>1. i \in 1 .. m
      BY <2>1, <3>0
    <3>2. g[i] = c[i]
      BY <2>1, <3>1, <1>8
    <3> QED
      BY <2>1, <3>1, <3>2, <1>7 DEF CellOf
  <2>2. CASE i \notin 1 .. Len(c)
    <3>1. i \in 1 .. m => g[i] = fresh(i) /\ i \in 1 .. Len(l.heaps)
      BY <2>2, <1>6, <1>8
    <3>2. CellOf(c, i, j) = PLACEHOLDER
      BY <2>2 DEF CellOf
    <3> QED
      BY <3>1, <3>2, <1>5, <1>7 DEF CellOf
  <2> QED
    BY <2>1, <2>2
<1>10. Len(g[n]) = Len(l.heaps[n])
  BY <1>3, <1>5, <1>8 DEF Fits
<1>11. Fits(g, l.heaps)
  <2>1. CASE m = Len(c)
    <3>1. SameSizes(g, c)
      BY <2>1, <1>7, <1>8, SameSizesOf
    <3>2. Shorter(l.heaps, l.heaps)
      BY <1>1 DEF Shorter
    <3> QED
      BY <3>1, <3>2, <1>1, <1>7, ShorterFits DEF SameSizes
  <2>2. CASE m # Len(c)
    <3>1. m = n
      BY <2>2, <1>3
    <3>2. \A i \in 1 .. m : Len(g[i]) = Len(l.heaps[i])
      BY <3>1, <1>1, <1>5, <1>8 DEF Fits
    <3>3. Shorter(g, l.heaps)
      BY <3>1, <3>2, <1>1, <1>7 DEF Shorter
    <3>4. Doubling(g)
      BY <3>3, <1>1, <1>7, ShorterDoubling DEF Fits
    <3> QED
      BY <3>2, <3>4, <1>7 DEF Fits
  <2> QED
    BY <2>1, <2>2
<1> QED
  BY <1>3, <1>7, <1>9, <1>10, <1>11 DEF g, m

-----------------------------------------------------------------------------
(* Moving a component.                                                     *)

\* The component of e, if any, is where the info "at" of e says.
Settled(st, at, e) ==
  \/ st.home[e] = NoHome
  \/ ~Manages(at.phys) /\ st.home[e] = Anonymous
  \/ /\ Manages(at.phys)
     /\ st.home[e] = External(at.heap, at.slot)
     /\ Cell(st.column, at.phys, at.heap, at.slot) = e

\* The owner g of a cell knows of it, and is alive in that archetype or waits there
\* for its destructor and its cleanup.
OwnerOK(st, inf, S, h, s, g) ==
  /\ st.home[g] = External(h, s)
  /\ g \in alive => inf[g].phys = S
  /\ g \notin alive =>
       /\ g \in dtors
       /\ [entity |-> g, arch |-> S, heap |-> h, slot |-> s] \in Items(dead)

\* Cells and homes agree, the alive entities being where "inf" says.
StorageOK(st, inf) ==
  /\ st \in [home : [Entity -> Homes], column : Columns, failed : {FALSE}]
  /\ \A S \in Arch : st.column[S] # <<>> => Manages(S)
  /\ \A e \in alive : Settled(st, inf[e], e)
  /\ \A S \in Arch : \A h, s :
       Cell(st.column, S, h, s) # PLACEHOLDER =>
         OwnerOK(st, inf, S, h, s, Cell(st.column, S, h, s))

\* What moving the component of e to <<h, s>> of dst asks for: no other entity is
\* there, and the list beside the column of dst has the slot.
Vacant(st, inf, dst, h, s, l) ==
  Manages(dst) =>
    /\ ListOK(l) /\ Fits(st.column[dst], l.heaps)
    /\ h \in 1 .. Len(l.heaps) /\ s \in 1 .. Len(l.heaps[h])
    /\ \A g \in alive : ~ (inf[g].phys = dst /\ inf[g].heap = h /\ inf[g].slot = s)

\* A cell is owned by an entity settled in it.
LEMMA CellOwner ==
  ASSUME NEW st, NEW inf, StorageOK(st, inf), dtors = {}, NEW S \in Arch, NEW h, NEW s,
         Cell(st.column, S, h, s) # PLACEHOLDER
  PROVE  LET g == Cell(st.column, S, h, s) IN
         /\ g \in alive /\ inf[g].phys = S /\ inf[g].heap = h /\ inf[g].slot = s
         /\ st.home[g] = External(h, s)
<1> DEFINE g == Cell(st.column, S, h, s)
<1>1. g \in alive /\ inf[g].phys = S /\ st.home[g] = External(h, s)
  BY DEF StorageOK, OwnerOK
<1>2. Manages(S)
  <2>1. st.column[S] # <<>>
    <3>1. Len(st.column[S]) # 0
      <4>1. h \in 1 .. Len(st.column[S])
        BY DEF Cell, CellOf
      <4> QED
        BY <4>1
    <3> QED
      BY <3>1, HeapsLen DEF StorageOK, Columns
  <2> QED
    BY <2>1 DEF StorageOK
<1>3. st.home[g] = External(inf[g].heap, inf[g].slot)
  <2>1. Settled(st, inf[g], g)
    BY <1>1 DEF StorageOK
  <2> HIDE DEF g
  <2> QED
    BY <2>1, <1>1, <1>2, HomesDiffer DEF Settled
<1> HIDE DEF g
<1>4. inf[g].heap = h /\ inf[g].slot = s
  <2>1. External(inf[g].heap, inf[g].slot) = External(h, s)
    BY <1>1, <1>3
  <2>2. \A a, b : External(a, b) = External(h, s) => a = h /\ b = s
    BY HomesDiffer
  <2> QED
    BY <2>1, <2>2
<1> QED
  BY <1>1, <1>4 DEF g

\* The component of e now is at <<h, s>> of dst, or in a block of its own if dst has
\* no column.
MovedAs(new, st, e, dst, h, s, l) ==
  /\ new.home = [st.home EXCEPT ![e] = IF Manages(dst) THEN External(h, s) ELSE Anonymous]
  /\ new.column \in Columns
  /\ new.failed = FALSE
  /\ \A T \in Arch : T # dst \/ ~Manages(dst) => SameSizes(new.column[T], st.column[T])
  /\ Manages(dst) =>
       /\ Fits(new.column[dst], l.heaps)
       /\ Len(new.column[dst]) = IF Len(st.column[dst]) < h THEN h ELSE Len(st.column[dst])
  /\ \A T \in Arch : \A i, j :
       Cell(new.column, T, i, j) =
         IF Manages(dst) /\ T = dst /\ i = h /\ j = s THEN e
         ELSE IF Cell(st.column, T, i, j) = e THEN PLACEHOLDER
         ELSE Cell(st.column, T, i, j)

\* What move_entity_into_empty_never_truncate does when its contract is met: one cell
\* and one home change, no assertion fails.
LEMMA MovedEffect ==
  ASSUME NEW st, NEW inf, StorageOK(st, inf), dtors = {},
         PLACEHOLDER \notin alive, alive \subseteq Entity,
         NEW e \in alive, st.home[e] # NoHome,
         NEW src \in Arch, inf[e].phys = src, inf[e].heap \in Index, inf[e].slot \in Index,
         NEW dst \in Arch, NEW h, NEW s, NEW l, Vacant(st, inf, dst, h, s, l),
         NEW new, new = Moved(st, e, src, dst, h, s, l)
  PROVE  MovedAs(new, st, e, dst, h, s, l)
<1> DEFINE was == st.home[e]
           column0 == st.column
           grown == [st.column EXCEPT ![dst] = Grown(@, l, h)]
           there == grown[dst][h][s]
<1>0. /\ st.home \in [Entity -> Homes] /\ st.column \in Columns /\ st.failed = FALSE
      /\ \A S \in Arch : st.column[S] # <<>> => Manages(S)
      /\ Settled(st, inf[e], e)
      /\ \A S \in Arch : st.column[S] \in Heaps
      /\ e \in Content /\ PLACEHOLDER \in Content /\ e # PLACEHOLDER /\ e \in Entity
  BY DEF StorageOK, Content, Columns
\* The cells of e.
<1>1. ASSUME NEW T \in Arch, NEW i, NEW j, Cell(st.column, T, i, j) = e
      PROVE  T = src /\ was = External(i, j) /\ i = inf[e].heap /\ j = inf[e].slot
  BY <1>0, <1>1, CellOwner
<1>2. was # Anonymous => /\ Manages(src) /\ was = External(inf[e].heap, inf[e].slot)
                         /\ Cell(st.column, src, inf[e].heap, inf[e].slot) = e
  BY <1>0 DEF Settled
<1>3. was = Anonymous \/ was.kind = "external"
  BY <1>2, HomesDiffer
<1>4. was # Anonymous =>
        /\ was.heap = inf[e].heap /\ was.slot = inf[e].slot
        /\ was.heap \in 1 .. Len(st.column[src]) /\ was.slot \in 1 .. Len(st.column[src][was.heap])
  <2> SUFFICES ASSUME was # Anonymous
               PROVE  /\ was.heap = inf[e].heap /\ was.slot = inf[e].slot
                      /\ was.heap \in 1 .. Len(st.column[src])
                      /\ was.slot \in 1 .. Len(st.column[src][was.heap])
    OBVIOUS
  <2>1. was.heap = inf[e].heap /\ was.slot = inf[e].slot
    BY <1>2, HomesDiffer
  <2> HIDE DEF was
  <2> QED
    BY <2>1, <1>0, <1>2 DEF Cell, CellOf
<1>5. (st.column[dst] # <<>> \/ Manages(dst)) <=> Manages(dst)
  BY <1>0
\* Without a column to go to.
<1>6. CASE ~Manages(dst) /\ was = Anonymous
  <2>1. new = st
    BY <1>5, <1>6, HomesDiffer DEF Moved
  <2>2. st.home = [st.home EXCEPT ![e] = Anonymous]
    BY <1>0, <1>6
  <2>3. \A T \in Arch : SameSizes(st.column[T], st.column[T])
    BY <1>0, SameSizesOf
  <2>4. \A T \in Arch : \A i, j : Cell(st.column, T, i, j) # e
    BY <1>1, <1>6, HomesDiffer
  <2> QED
    BY <2>1, <2>2, <2>3, <2>4, <1>0, <1>6 DEF MovedAs
<1>7. CASE ~Manages(dst) /\ was # Anonymous
  <2> DEFINE col == [st.column EXCEPT ![src][was.heap][was.slot] = PLACEHOLDER]
  <2>1. was.kind = "external" /\ "external" # "none" /\ "external" # "anonymous"
    BY <1>3, <1>7
  <2>2. new = [st EXCEPT !.home[e] = Anonymous, !.column[src][was.heap][was.slot] = PLACEHOLDER]
    <3> HIDE DEF was
    <3> QED
      BY <1>5, <1>7, <2>1, Zenon DEF Moved, was
  <2>3. new.home = [st.home EXCEPT ![e] = Anonymous] /\ new.column = col /\ new.failed = FALSE
    <3>1. st \in [home : [Entity -> Homes], column : Columns, failed : {FALSE}]
      BY DEF StorageOK
    <3> HIDE DEF was
    <3> QED
      BY <2>2, <3>1
  <2> HIDE DEF was
  <2>4. /\ col \in Columns
        /\ \A T \in Arch : SameSizes(col[T], st.column[T])
        /\ \A T \in Arch : \A i, j :
             Cell(col, T, i, j) = IF T = src /\ i = was.heap /\ j = was.slot THEN PLACEHOLDER
                                  ELSE Cell(st.column, T, i, j)
    <3>1. col = Put(st.column, src, was.heap, was.slot, PLACEHOLDER)
      BY DEF col, Put
    <3> HIDE DEF col
    <3>2. DifferAt(col, st.column, src, was.heap, was.slot, PLACEHOLDER)
      BY <3>1, <1>0, <1>4, <1>7, PutOK
    <3> QED
      BY <3>2 DEF DifferAt
  <2> HIDE DEF col
  <2>5. ASSUME NEW T \in Arch, NEW i, NEW j
        PROVE  Cell(col, T, i, j) = IF Cell(st.column, T, i, j) = e THEN PLACEHOLDER
                                    ELSE Cell(st.column, T, i, j)
    <3>1. Cell(st.column, T, i, j) = e <=> T = src /\ i = was.heap /\ j = was.slot
      BY <1>1, <1>2, <1>4, <1>7
    <3> QED
      BY <3>1, <2>4
  <2> QED
    BY <2>3, <2>4, <2>5, <1>7 DEF MovedAs
\* With a column to go to, there is nobody in the new slot yet.
<1>8. ASSUME Manages(dst)
      PROVE  /\ ListOK(l) /\ Fits(st.column[dst], l.heaps) /\ h \in 1 .. Len(l.heaps)
             /\ s \in 1 .. Len(l.heaps[h])
             /\ Cell(st.column, dst, h, s) = PLACEHOLDER
  <2>1. /\ ListOK(l) /\ Fits(st.column[dst], l.heaps)
        /\ h \in 1 .. Len(l.heaps) /\ s \in 1 .. Len(l.heaps[h])
        /\ \A g \in alive : ~ (inf[g].phys = dst /\ inf[g].heap = h /\ inf[g].slot = s)
    BY <1>8 DEF Vacant
  <2>2. Cell(st.column, dst, h, s) = PLACEHOLDER
    BY <2>1, CellOwner
  <2> QED
    BY <2>1, <2>2
<1>9. ASSUME Manages(dst)
      PROVE  /\ grown \in Columns
             /\ \A T \in Arch : T # dst => grown[T] = st.column[T]
             /\ Fits(grown[dst], l.heaps)
             /\ Len(grown[dst]) = IF Len(st.column[dst]) < h THEN h ELSE Len(st.column[dst])
             /\ h \in 1 .. Len(grown[dst]) /\ s \in 1 .. Len(grown[dst][h])
             /\ \A T \in Arch : \A i, j : Cell(grown, T, i, j) = Cell(st.column, T, i, j)
             /\ there = PLACEHOLDER
  <2> DEFINE gr == Grown(st.column[dst], l, h)
  <2>1. /\ gr \in Heaps /\ Fits(gr, l.heaps)
        /\ Len(gr) = IF Len(st.column[dst]) < h THEN h ELSE Len(st.column[dst])
        /\ h \in 1 .. Len(gr) /\ Len(gr[h]) = Len(l.heaps[h])
        /\ \A i, j : CellOf(gr, i, j) = CellOf(st.column[dst], i, j)
    BY <1>0, <1>8, <1>9, GrownOK
  <2>2. grown = [st.column EXCEPT ![dst] = gr]
    OBVIOUS
  <2> HIDE DEF gr, grown
  <2>3. grown \in Columns /\ \A T \in Arch : grown[T] = IF T = dst THEN gr ELSE st.column[T]
    BY <2>1, <2>2, <1>0 DEF Columns
  <2>4. \A T \in Arch : \A i, j : Cell(grown, T, i, j) = Cell(st.column, T, i, j)
    BY <2>1, <2>3 DEF Cell
  <2>5. grown[dst] = gr /\ s \in 1 .. Len(gr[h])
    BY <2>1, <2>3, <1>8, <1>9
  <2>6. there = Cell(grown, dst, h, s)
    BY <2>1, <2>5 DEF Cell, CellOf
  <2>7. there = PLACEHOLDER
    BY <2>4, <2>6, <1>8, <1>9
  <2> QED
    BY <2>1, <2>3, <2>4, <2>5, <2>7
<1> DEFINE put == [grown EXCEPT ![dst][h][s] = e]
<1>10. ASSUME Manages(dst)
       PROVE  /\ put \in Columns
              /\ \A T \in Arch : SameSizes(put[T], grown[T])
              /\ \A T \in Arch : \A i, j :
                   Cell(put, T, i, j) = IF T = dst /\ i = h /\ j = s THEN e
                                        ELSE Cell(st.column, T, i, j)
  <2> HIDE DEF grown
  <2>1. put = Put(grown, dst, h, s, e)
    BY DEF put, Put
  <2> HIDE DEF put
  <2>2. /\ put \in Columns
        /\ \A T \in Arch : SameSizes(put[T], grown[T])
        /\ \A T \in Arch : \A i, j :
             Cell(put, T, i, j) = IF T = dst /\ i = h /\ j = s THEN e ELSE Cell(grown, T, i, j)
    <3>1. DifferAt(put, grown, dst, h, s, e)
      BY <2>1, <1>0, <1>9, <1>10, PutOK
    <3> QED
      BY <3>1 DEF DifferAt
  <2> QED
    BY <2>2, <1>9, <1>10
\* What does not depend on which cells change.
<1>11. ASSUME Manages(dst), NEW col \in Columns, \A T \in Arch : SameSizes(col[T], grown[T])
       PROVE  /\ \A T \in Arch : T # dst => SameSizes(col[T], st.column[T])
              /\ Fits(col[dst], l.heaps)
              /\ Len(col[dst]) = IF Len(st.column[dst]) < h THEN h ELSE Len(st.column[dst])
  <2> HIDE DEF grown
  <2>1. \A T \in Arch : col[T] \in Heaps
    BY <1>11 DEF Columns
  <2>2. /\ grown \in Columns /\ Fits(grown[dst], l.heaps) /\ ListOK(l)
        /\ Len(grown[dst]) = IF Len(st.column[dst]) < h THEN h ELSE Len(st.column[dst])
        /\ \A T \in Arch : T # dst => grown[T] = st.column[T]
    BY <1>8, <1>9, <1>11
  <2>3. grown[dst] \in Heaps /\ l.heaps \in Heaps
    BY <2>2, ListParts DEF Columns, Heaps
  <2>4. Len(col[dst]) = Len(grown[dst])
    BY <1>11, <2>1, <2>3, SameSizesOf
  <2>5. Fits(col[dst], l.heaps)
    <3>1. Shorter(col[dst], grown[dst])
      BY <1>11 DEF SameSizes
    <3>2. Shorter(l.heaps, l.heaps)
      BY <2>3, HeapsLen DEF Shorter
    <3> QED
      BY <3>1, <3>2, <2>1, <2>2, <2>3, ShorterFits
  <2> QED
    BY <2>2, <2>4, <2>5, <1>11
<1>12. CASE Manages(dst) /\ was = Anonymous
  <2>1. new = [home |-> [st.home EXCEPT ![e] = External(h, s)],
               column |-> put,
               failed |-> st.failed \/ (DebugAssertions /\ there # PLACEHOLDER)]
    BY <1>5, <1>12, HomesDiffer DEF Moved
  <2>2. st.failed = FALSE /\ there = PLACEHOLDER
    BY <1>0, <1>9, <1>12
  <2> HIDE DEF grown, there, put
  <2>3. new.home = [st.home EXCEPT ![e] = External(h, s)] /\ new.column = put
    BY <2>1
  <2>4. new.failed = FALSE
    <3>1. new.failed = (st.failed \/ (DebugAssertions /\ there # PLACEHOLDER))
      BY <2>1
    <3>2. DebugAssertions \in BOOLEAN
      BY DatabaseAssumption
    <3> QED
      BY <3>1, <3>2, <2>2
  <2>5. \A T \in Arch : \A i, j : Cell(st.column, T, i, j) # e
    BY <1>1, <1>12, HomesDiffer
  <2>6. /\ put \in Columns
        /\ \A T \in Arch : T # dst => SameSizes(put[T], st.column[T])
        /\ Fits(put[dst], l.heaps)
        /\ Len(put[dst]) = IF Len(st.column[dst]) < h THEN h ELSE Len(st.column[dst])
    BY <1>10, <1>11, <1>12
  <2>7. \A T \in Arch : \A i, j :
          Cell(put, T, i, j) = IF T = dst /\ i = h /\ j = s THEN e ELSE Cell(st.column, T, i, j)
    BY <1>10, <1>12
  <2> QED
    BY <2>3, <2>4, <2>5, <2>6, <2>7, <1>12 DEF MovedAs
<1>13. CASE Manages(dst) /\ was # Anonymous
  <2> DEFINE col == [grown EXCEPT ![dst][h][s] = e, ![src][was.heap][was.slot] = there]
  <2>1. was.kind = "external" /\ "external" # "none" /\ "external" # "anonymous"
    BY <1>3, <1>13
  <2>2. new = [home |-> [st.home EXCEPT ![e] = External(h, s)],
               column |-> col,
               failed |-> st.failed \/ (DebugAssertions /\
                            (there # PLACEHOLDER \/ grown[src][was.heap][was.slot] # e))]
    <3> HIDE DEF was
    <3> QED
      BY <1>5, <1>13, <2>1, Zenon DEF Moved, was
  <2>3. /\ st.failed = FALSE /\ there = PLACEHOLDER
        /\ was.heap \in 1 .. Len(st.column[src]) /\ was.slot \in 1 .. Len(st.column[src][was.heap])
        /\ was.heap = inf[e].heap /\ was.slot = inf[e].slot
        /\ Cell(st.column, src, was.heap, was.slot) = e
    <3> HIDE DEF was, there
    <3> QED
      BY <1>0, <1>2, <1>4, <1>9, <1>13
  <2> HIDE DEF was, there
  <2>4. col = Put(put, src, was.heap, was.slot, PLACEHOLDER)
    BY <2>3, Zenon DEF Put
  <2> HIDE DEF grown, put, col
  <2>5. /\ put \in Columns /\ \A T \in Arch : SameSizes(put[T], grown[T])
        /\ \A T \in Arch : \A i, j :
             Cell(put, T, i, j) = IF T = dst /\ i = h /\ j = s THEN e
                                  ELSE Cell(st.column, T, i, j)
        /\ grown \in Columns
        /\ \A T \in Arch : \A i, j : Cell(grown, T, i, j) = Cell(st.column, T, i, j)
        /\ Cell(st.column, dst, h, s) = PLACEHOLDER
    BY <1>8, <1>9, <1>10, <1>13
  \* The slot left is another one than the slot reached.
  <2>6. ~ (src = dst /\ was.heap = h /\ was.slot = s)
    BY <2>3, <2>5, <1>0
  <2>7. Cell(put, src, was.heap, was.slot) = e /\ Cell(grown, src, was.heap, was.slot) = e
    BY <2>3, <2>5, <2>6
  <2>8. was.heap \in 1 .. Len(put[src]) /\ was.slot \in 1 .. Len(put[src][was.heap])
    BY <2>7, <1>0 DEF Cell, CellOf
  <2>9. grown[src][was.heap][was.slot] = e
    BY <2>7, <1>0 DEF Cell, CellOf
  <2>10. new.home = [st.home EXCEPT ![e] = External(h, s)] /\ new.column = col
    BY <2>2
  <2>11. new.failed = FALSE
    <3>1. new.failed = (st.failed \/ (DebugAssertions /\
                          (there # PLACEHOLDER \/ grown[src][was.heap][was.slot] # e)))
      BY <2>2
    <3>2. DebugAssertions \in BOOLEAN
      BY DatabaseAssumption
    <3> QED
      BY <3>1, <3>2, <2>3, <2>9
  <2>12. /\ col \in Columns
         /\ \A T \in Arch : SameSizes(col[T], put[T])
         /\ \A T \in Arch : \A i, j :
              Cell(col, T, i, j) = IF T = src /\ i = was.heap /\ j = was.slot THEN PLACEHOLDER
                                   ELSE Cell(put, T, i, j)
    <3>1. DifferAt(col, put, src, was.heap, was.slot, PLACEHOLDER)
      BY <2>4, <2>5, <2>8, <1>0, PutOK
    <3> QED
      BY <3>1 DEF DifferAt
  <2>13. \A T \in Arch : SameSizes(col[T], grown[T])
    <3> SUFFICES ASSUME NEW T \in Arch PROVE SameSizes(col[T], grown[T])
      OBVIOUS
    <3>1. col[T] \in Heaps /\ put[T] \in Heaps /\ grown[T] \in Heaps
      BY <2>5, <2>12 DEF Columns
    <3>2. SameSizes(col[T], put[T]) /\ SameSizes(put[T], grown[T])
      BY <2>5, <2>12
    <3> QED
      BY <3>1, <3>2, ShorterTransitive DEF SameSizes
  <2>14. /\ \A T \in Arch : T # dst => SameSizes(col[T], st.column[T])
         /\ Fits(col[dst], l.heaps)
         /\ Len(col[dst]) = IF Len(st.column[dst]) < h THEN h ELSE Len(st.column[dst])
    BY <1>11, <1>13, <2>12, <2>13
  <2>15. ASSUME NEW T \in Arch, NEW i, NEW j
         PROVE  Cell(col, T, i, j) = IF T = dst /\ i = h /\ j = s THEN e
                                     ELSE IF Cell(st.column, T, i, j) = e THEN PLACEHOLDER
                                     ELSE Cell(st.column, T, i, j)
    <3>1. Cell(st.column, T, i, j) = e <=> T = src /\ i = was.heap /\ j = was.slot
      BY <1>1, <2>3
    <3> QED
      BY <3>1, <2>5, <2>6, <2>12
  <2> QED
    BY <2>10, <2>11, <2>12, <2>14, <2>15, <1>13 DEF MovedAs
<1> QED
  BY <1>6, <1>7, <1>12, <1>13

\* Cells and homes agree still, and the same entities have a component; only the
\* column of dst may have grown, up to its heap h.
StillOK(new, st, inf, dst, h, l) ==
  /\ StorageOK(new, inf)
  /\ \A g \in Entity : new.home[g] = NoHome <=> st.home[g] = NoHome
  /\ \A T \in Arch : T # dst \/ ~Manages(dst) => SameSizes(new.column[T], st.column[T])
  /\ Manages(dst) =>
       /\ Fits(new.column[dst], l.heaps)
       /\ Len(new.column[dst]) \in {h, Len(st.column[dst])}

\* Moving a component to where its entity has gone leaves cells and homes agreeing.
LEMMA MovedOK ==
  ASSUME NEW st, NEW inf, StorageOK(st, inf), dtors = {},
         PLACEHOLDER \notin alive, alive \subseteq Entity,
         NEW e \in alive, inf[e].heap \in Index, inf[e].slot \in Index,
         NEW src \in Arch, inf[e].phys = src,
         NEW dst \in Arch, NEW h \in Index, NEW s \in Index, NEW l, Vacant(st, inf, dst, h, s, l),
         \A g \in alive : inf[g].phys \in Arch,
         NEW inf2, \A g \in alive : g # e => inf2[g] = inf[g],
         inf2[e].phys = dst, Manages(dst) => inf2[e].heap = h /\ inf2[e].slot = s
  PROVE  StillOK(Moved(st, e, src, dst, h, s, l), st, inf2, dst, h, l)
<1> DEFINE new == Moved(st, e, src, dst, h, s, l)
<1>0. /\ st \in [home : [Entity -> Homes], column : Columns, failed : {FALSE}]
      /\ \A S \in Arch : st.column[S] # <<>> => Manages(S)
      /\ \A g \in alive : Settled(st, inf[g], g)
      /\ \A S \in Arch : \A i, j : Cell(st.column, S, i, j) # PLACEHOLDER =>
           /\ st.home[Cell(st.column, S, i, j)] = External(i, j)
           /\ Cell(st.column, S, i, j) \in alive
           /\ inf[Cell(st.column, S, i, j)].phys = S
  <2>1. /\ st \in [home : [Entity -> Homes], column : Columns, failed : {FALSE}]
        /\ \A S \in Arch : st.column[S] # <<>> => Manages(S)
        /\ \A g \in alive : Settled(st, inf[g], g)
        /\ \A S \in Arch : \A i, j : Cell(st.column, S, i, j) # PLACEHOLDER =>
             OwnerOK(st, inf, S, i, j, Cell(st.column, S, i, j))
    BY DEF StorageOK
  <2>2. \A S, i, j, g : OwnerOK(st, inf, S, i, j, g) =>
          st.home[g] = External(i, j) /\ g \in alive /\ inf[g].phys = S
    BY DEF OwnerOK
  <2>3. ASSUME NEW S \in Arch, NEW i, NEW j, Cell(st.column, S, i, j) # PLACEHOLDER
        PROVE  /\ st.home[Cell(st.column, S, i, j)] = External(i, j)
               /\ Cell(st.column, S, i, j) \in alive
               /\ inf[Cell(st.column, S, i, j)].phys = S
    <3>1. OwnerOK(st, inf, S, i, j, Cell(st.column, S, i, j))
      BY <2>1, <2>3
    <3> QED
      BY <3>1, <2>2
  <2> QED
    BY <2>1, <2>3
<1>1. /\ st.home \in [Entity -> Homes] /\ st.column \in Columns /\ st.failed = FALSE
      /\ \A S \in Arch : st.column[S] \in Heaps
      /\ e \in Entity /\ e # PLACEHOLDER
  BY <1>0 DEF Columns
<1>2. CASE st.home[e] = NoHome
  <2>1. new = st
    BY <1>2, HomesDiffer DEF Moved
  <2>2. \A g \in alive : Settled(st, inf2[g], g)
    BY <1>0, <1>2 DEF Settled
  <2>3. ASSUME NEW S \in Arch, NEW i, NEW j, Cell(st.column, S, i, j) # PLACEHOLDER
        PROVE  OwnerOK(st, inf2, S, i, j, Cell(st.column, S, i, j))
    <3>1. Cell(st.column, S, i, j) # e
      BY <1>0, <1>2, <2>3, HomesDiffer
    <3> QED
      BY <1>0, <2>3, <3>1 DEF OwnerOK
  <2>4. StorageOK(st, inf2)
    BY <1>0, <2>2, <2>3 DEF StorageOK
  <2>5. \A T \in Arch : SameSizes(st.column[T], st.column[T])
    BY <1>1, SameSizesOf
  <2>6. Manages(dst) => Fits(st.column[dst], l.heaps)
    BY DEF Vacant
  <2> HIDE DEF new
  <2> QED
    BY <2>1, <2>4, <2>5, <2>6 DEF new, StillOK
<1>3. CASE st.home[e] # NoHome
  <2>1. /\ new.home = [st.home EXCEPT ![e] = IF Manages(dst) THEN External(h, s) ELSE Anonymous]
        /\ new.column \in Columns
        /\ new.failed = FALSE
        /\ \A T \in Arch : T # dst \/ ~Manages(dst) => SameSizes(new.column[T], st.column[T])
        /\ Manages(dst) =>
             /\ Fits(new.column[dst], l.heaps)
             /\ Len(new.column[dst]) = IF Len(st.column[dst]) < h THEN h ELSE Len(st.column[dst])
        /\ \A T \in Arch : \A i, j :
             Cell(new.column, T, i, j) =
               IF Manages(dst) /\ T = dst /\ i = h /\ j = s THEN e
               ELSE IF Cell(st.column, T, i, j) = e THEN PLACEHOLDER
               ELSE Cell(st.column, T, i, j)
    <3> HIDE DEF new
    <3>1. MovedAs(new, st, e, dst, h, s, l)
      BY <1>3, MovedEffect DEF new
    <3> QED
      BY <3>1 DEF MovedAs
  <2>2. new = [home |-> new.home, column |-> new.column, failed |-> new.failed]
    <3>1. st = [home |-> st.home, column |-> st.column, failed |-> st.failed]
      BY <1>0
    <3> QED
      BY <1>0, <3>1, Zenon DEF Moved
  <2> HIDE DEF new
  <2> DEFINE there == IF Manages(dst) THEN External(h, s) ELSE Anonymous
  <2>3. there \in Homes /\ there # NoHome
    BY HomesDiffer DEF Homes
  <2>4. /\ new.home \in [Entity -> Homes] /\ new.home[e] = there
        /\ \A g \in Entity : g # e => new.home[g] = st.home[g]
    BY <1>1, <2>1, <2>3
  <2> HIDE DEF there
  <2>5. new \in [home : [Entity -> Homes], column : Columns, failed : {FALSE}]
    BY <2>1, <2>2, <2>4
  <2>6. ASSUME NEW T \in Arch, new.column[T] # <<>>
        PROVE  Manages(T)
    <3> SUFFICES ASSUME ~Manages(T) PROVE FALSE
      OBVIOUS
    <3>1. st.column[T] = <<>>
      BY <1>0
    <3>2. SameSizes(new.column[T], st.column[T])
      BY <2>1
    <3>3. new.column[T] \in Heaps /\ st.column[T] \in Heaps
      BY <1>1, <2>1 DEF Columns
    <3>4. Len(new.column[T]) = 0
      BY <3>1, <3>2, <3>3, SameSizesOf, HeapsLen
    <3> QED
      BY <2>6, <3>3, <3>4, HeapsLen
  <2>7. ASSUME NEW g \in alive
        PROVE  Settled(new, inf2[g], g)
    <3>1. CASE g = e
      <4>1. Manages(dst) => Cell(new.column, dst, h, s) = e
        BY <2>1
      <4> QED
        BY <3>1, <4>1, <2>4 DEF Settled, there
    <3>2. CASE g # e
      <4>1. inf2[g] = inf[g] /\ new.home[g] = st.home[g] /\ Settled(st, inf[g], g)
        BY <1>0, <2>4, <3>2
      <4>2. ASSUME Manages(inf[g].phys),
                   Cell(st.column, inf[g].phys, inf[g].heap, inf[g].slot) = g
            PROVE  Cell(new.column, inf[g].phys, inf[g].heap, inf[g].slot) = g
        <5>1. ~ (Manages(dst) /\ inf[g].phys = dst /\ inf[g].heap = h /\ inf[g].slot = s)
          BY DEF Vacant
        <5> QED
          BY <2>1, <3>2, <4>2, <5>1
      <4> QED
        BY <4>1, <4>2 DEF Settled
    <3> QED
      BY <3>1, <3>2
  <2>8. ASSUME NEW S \in Arch, NEW i, NEW j, Cell(new.column, S, i, j) # PLACEHOLDER
        PROVE  OwnerOK(new, inf2, S, i, j, Cell(new.column, S, i, j))
    <3>1. CASE Manages(dst) /\ S = dst /\ i = h /\ j = s
      <4>1. Cell(new.column, S, i, j) = e
        BY <2>1, <3>1
      <4> QED
        BY <4>1, <3>1, <2>4 DEF OwnerOK, there
    <3>2. CASE ~ (Manages(dst) /\ S = dst /\ i = h /\ j = s)
      <4> DEFINE g == Cell(st.column, S, i, j)
      <4>1. Cell(new.column, S, i, j) = g /\ g # e /\ g # PLACEHOLDER
        BY <2>1, <2>8, <3>2
      <4>2. g \in alive /\ g \in Entity /\ inf2[g] = inf[g] /\ new.home[g] = st.home[g]
        BY <1>0, <2>4, <4>1
      <4> QED
        BY <1>0, <4>1, <4>2 DEF OwnerOK
    <3> QED
      BY <3>1, <3>2
  <2>9. StorageOK(new, inf2)
    BY <2>5, <2>6, <2>7, <2>8 DEF StorageOK
  <2> QED
    BY <1>3, <2>1, <2>3, <2>4, <2>9 DEF new, StillOK
<1> QED
  BY <1>2, <1>3

\* From "inf" to info' at most f moves, within S, and if so from where info says.
OneFills(inf, S, f) ==
  \A g \in alive :
    /\ inf[g] \in DbEntity /\ inf[g].phys = info'[g].phys
    /\ inf[g].phys = S => inf[g] = info[g]
    /\ Manages(inf[g].phys) /\ inf[g].phys # S => info'[g] = inf[g]
    /\ info[g].phys = S /\ info'[g].phys = S => inf[g].phys = S
    /\ g # f => info'[g] = inf[g]

\* Cells and homes agree after the step, and the column of S has grown at most to
\* the list it is left with.
RefilledOK(new, st, S) ==
  /\ StorageOK(new, info')
  /\ \A g \in Entity : new.home[g] = NoHome <=> st.home[g] = NoHome
  /\ \A T \in Arch : T # S => SameSizes(new.column[T], st.column[T])
  /\ Fits(new.column[S], list[S].heaps)
  /\ Len(new.column[S]) <= Len(list'[S].heaps) \/ Len(new.column[S]) = Len(st.column[S])

\* The move within its archetype S of the filler of a swap-remove, if there is one.
\* The alive entities are where "inf" says before, where info' says after it.
LEMMA FilledOK ==
  ASSUME NEW st, NEW inf, StorageOK(st, inf), dtors = {}, SlotInv, SlotInv',
         alive' = alive, NEW S \in Arch,
         NEW f, OneFills(inf, S, f),
         Fits(st.column[S], list[S].heaps), Shorter(list'[S].heaps, list[S].heaps)
  PROVE  RefilledOK(Filled(st, S), st, S)
<1> DEFINE new == Filled(st, S)
           r == CHOOSE r \in Relocated(S) : TRUE
           l == list[S]
<1>0. /\ \A g \in alive : inf[g] \in DbEntity /\ inf[g].phys = info'[g].phys
      /\ \A g \in alive : inf[g].phys = S => inf[g] = info[g]
      /\ \A g \in alive : Manages(inf[g].phys) /\ inf[g].phys # S => info'[g] = inf[g]
      /\ \A g \in alive : info[g].phys = S /\ info'[g].phys = S => inf[g].phys = S
      /\ \A g \in alive : g # f => info'[g] = inf[g]
  BY DEF OneFills
<1>1. /\ alive \subseteq Entity /\ PLACEHOLDER \notin alive
      /\ list \in [Arch -> EntityList] /\ ListOK(l) /\ ListOK(list'[S])
      /\ \A g \in alive : info'[g] \in DbEntity
  BY DatabaseAssumption DEF SlotInv, SlotTypes
<1>2. /\ st.column \in Columns /\ \A T \in Arch : st.column[T] \in Heaps
      /\ st \in [home : [Entity -> Homes], column : Columns, failed : {FALSE}]
      /\ \A T \in Arch : st.column[T] # <<>> => Manages(T)
      /\ \A g \in alive : Settled(st, inf[g], g)
      /\ \A T \in Arch : \A i, j : Cell(st.column, T, i, j) # PLACEHOLDER =>
           OwnerOK(st, inf, T, i, j, Cell(st.column, T, i, j))
  BY DEF StorageOK, Columns
\* The filler is in S, and the only entity which moves.
<1>3. ASSUME NEW g \in Relocated(S)
      PROVE  g = f /\ g \in alive /\ inf[g] = info[g] /\ inf[g].phys = S
  BY <1>0, <1>3 DEF Relocated
<1>4. CASE Relocated(S) = {} \/ ~Manages(S)
  <2>1. new = st
    BY <1>4 DEF Filled
  <2>2. ASSUME NEW g \in alive
        PROVE  Settled(st, info'[g], g)
    <3>1. Settled(st, inf[g], g) /\ inf[g].phys = info'[g].phys
      BY <1>0, <1>2
    <3>2. CASE ~Manages(inf[g].phys)
      BY <3>1, <3>2 DEF Settled
    <3>3. CASE Manages(inf[g].phys) /\ inf[g].phys # S
      BY <3>1, <3>3, <1>0
    <3>4. CASE Manages(inf[g].phys) /\ inf[g].phys = S
      <4>1. info[g].phys = S /\ info'[g].phys = S /\ inf[g] = info[g]
        BY <3>4, <3>1, <1>0
      <4>2. <<info[g].heap, info[g].slot>> = <<info'[g].heap, info'[g].slot>>
        BY <4>1, <1>4, <3>4 DEF Relocated
      <4> QED
        BY <4>1, <4>2, <3>1 DEF Settled
    <3> QED
      BY <3>2, <3>3, <3>4
  <2>3. \A T \in Arch : \A i, j : Cell(st.column, T, i, j) # PLACEHOLDER =>
          OwnerOK(st, info', T, i, j, Cell(st.column, T, i, j))
    BY <1>0, <1>2 DEF OwnerOK
  <2>4. StorageOK(st, info')
    BY <1>2, <2>2, <2>3 DEF StorageOK
  <2>5. \A T \in Arch : SameSizes(st.column[T], st.column[T])
    BY <1>2, SameSizesOf
  <2> HIDE DEF new
  <2> QED
    BY <2>1, <2>4, <2>5 DEF new, RefilledOK
<1>5. CASE Relocated(S) # {} /\ Manages(S)
  <2> DEFINE h == info'[r].heap
             s == info'[r].slot
  <2>1. new = Moved(st, r, S, S, h, s, l) /\ r \in Relocated(S)
    BY <1>5 DEF Filled
  <2> HIDE DEF r, new
  <2>2. /\ r = f /\ r \in alive /\ inf[r] = info[r] /\ inf[r].phys = S /\ info'[r].phys = S
        /\ <<inf[r].heap, inf[r].slot>> # <<h, s>>
    BY <1>0, <1>3, <2>1 DEF Relocated
  <2>3. /\ h \in Index /\ s \in Index /\ inf[r].heap \in Index /\ inf[r].slot \in Index
        /\ \A g \in alive : inf[g].phys \in Arch
    BY <1>0, <1>1, <2>2 DEF DbEntity
  <2>4. S # Root
    BY <1>5 DEF Manages, Root
  <2>5. SlotTypes' /\ SlotsMirror'
    BY DEF SlotInv
  <2>6. \A g \in alive : info'[g].phys = S =>
          /\ <<info'[g].heap, info'[g].slot>> \in Used(list'[S])
          /\ At(list'[S], <<info'[g].heap, info'[g].slot>>) = g
    BY <2>5, <2>4 DEF SlotsMirror
  <2>7. h \in 1 .. Len(l.heaps) /\ s \in 1 .. Len(l.heaps[h]) /\ h <= Len(list'[S].heaps)
    <3>1. <<h, s>> \in Used(list'[S])
      BY <2>2, <2>6
    <3>2. h \in 1 .. Len(list'[S].heaps) /\ s \in 1 .. HeapLen(list'[S], h)
      BY <3>1, <1>1, UsedOf
    <3>3. HeapLen(list'[S], h) \in 1 .. Len(list'[S].heaps[h]) /\ Len(list'[S].heaps[h]) \in Nat
      BY <3>2, <1>1, UsedOf, ListParts
    <3> HIDE DEF h, s
    <3>4. Len(l.heaps) \in Nat /\ Len(list'[S].heaps) \in Nat
      BY <1>1, ListParts
    <3>5. h \in 1 .. Len(l.heaps) /\ Len(list'[S].heaps[h]) = Len(l.heaps[h])
      <4>1. /\ Len(list'[S].heaps) <= Len(l.heaps)
            /\ \A i \in 1 .. Len(list'[S].heaps) : Len(list'[S].heaps[i]) = Len(l.heaps[i])
        BY DEF Shorter
      <4> QED
        BY <3>2, <3>4, <4>1
    <3>6. s \in 1 .. Len(list'[S].heaps[h])
      BY <3>2, <3>3
    <3> QED
      BY <3>2, <3>4, <3>5, <3>6
  <2>8. Vacant(st, inf, S, h, s, l)
    <3>1. ASSUME NEW g \in alive, inf[g].phys = S, inf[g].heap = h, inf[g].slot = s
          PROVE  FALSE
      <4>1. g # r
        BY <2>2, <3>1
      <4>2. info'[g] = inf[g]
        BY <1>0, <2>2, <4>1
      <4>3. At(list'[S], <<h, s>>) = g /\ At(list'[S], <<h, s>>) = r
        BY <2>2, <2>6, <3>1, <4>2
      <4> QED
        BY <4>1, <4>3
    <3> HIDE DEF h, s
    <3> QED
      BY <3>1, <2>7, <1>1 DEF Vacant
  <2>9. \A g \in alive : g # r => info'[g] = inf[g]
    BY <1>0, <2>2
  <2>10. StillOK(Moved(st, r, S, S, h, s, l), st, info', S, h, l)
    <3> DEFINE h0 == h
               s0 == s
               inf2 == info'
    <3>1. inf2[r].heap = h0 /\ inf2[r].slot = s0 /\ inf2[r].phys = S
      BY <2>2
    <3>2. \A g \in alive : g # r => inf2[g] = inf[g]
      BY <2>9
    <3>3. h0 \in Index /\ s0 \in Index /\ Vacant(st, inf, S, h0, s0, l)
      BY <2>3, <2>8
    <3> HIDE DEF h0, s0, inf2, l
    <3>4. StillOK(Moved(st, r, S, S, h0, s0, l), st, inf2, S, h0, l)
      BY <3>1, <3>2, <3>3, <1>1, <1>5, <2>2, <2>3, MovedOK
    <3> QED
      BY <3>4 DEF h0, s0, inf2
  <2> HIDE DEF h, s
  <2> QED
    BY <2>1, <2>7, <2>10, <1>5 DEF new, StillOK, RefilledOK
<1> QED
  BY <1>4, <1>5

-----------------------------------------------------------------------------
(* The inductive invariant.                                                *)

\* A column is only left longer than the list beside it between the loops of a
\* flush and the truncation, which knows of it.
SizesOK ==
  \A S \in Arch :
    /\ Fits(column[S], list[S].heaps)
    /\ Len(column[S]) > Len(list[S].heaps) => pc \in {"dead", "alive"} /\ S \in trunc

\* The entities with a component are those the component lists and the destructors
\* still to run know of.
OwnersOK ==
  /\ comp_list \subseteq alive
  /\ dtors \subseteq spawned \ alive
  /\ dtors # {} => pc = "idle"
  /\ \A e \in Entity : home[e] # NoHome => e \in alive \cup dtors
  /\ \A e \in alive : home[e] # NoHome <=> e \in comp_list

StorageInv == StorageOK(Storage, info) /\ SizesOK /\ OwnersOK

\* What is kept of the columns while entities move.
LEMMA SizesStep ==
  ASSUME SizesOK, SlotInv, SlotInv', column \in Columns, column' \in Columns,
         pc \in {"dead", "alive"}, pc' = pc, trunc \subseteq trunc',
         \A T \in Arch :
           /\ Fits(column'[T], list'[T].heaps)
           /\ Len(column'[T]) <= Len(list'[T].heaps) \/ Len(column'[T]) = Len(column[T])
           /\ Len(list'[T].heaps) < Len(list[T].heaps) => T \in trunc'
  PROVE  SizesOK'
<1> SUFFICES ASSUME NEW T \in Arch, Len(column'[T]) > Len(list'[T].heaps)
             PROVE  T \in trunc'
  BY DEF SizesOK
<1>1. /\ Len(list[T].heaps) \in Nat /\ Len(list'[T].heaps) \in Nat
      /\ Len(column[T]) \in Nat /\ Len(column'[T]) \in Nat
  BY ListParts, HeapsLen DEF SlotInv, SlotTypes, Columns
<1>2. Len(column'[T]) = Len(column[T])
  BY <1>1
<1>3. CASE Len(list'[T].heaps) < Len(list[T].heaps)
  BY <1>3
<1>4. CASE ~ (Len(list'[T].heaps) < Len(list[T].heaps))
  BY <1>1, <1>2, <1>4 DEF SizesOK
<1> QED
  BY <1>3, <1>4

\* What is kept of the components.
LEMMA MovesFrame ==
  ASSUME StorageInv, dtors = {}, NEW st, StorageOK(st, info'),
         SetStorage(st), alive' = alive, spawned' = spawned,
         \A g \in Entity : st.home[g] = NoHome <=> home[g] = NoHome,
         alive \subseteq Entity
  PROVE  StorageOK(Storage, info)' /\ OwnersOK'
<1>1. /\ home' = st.home /\ column' = st.column /\ failed' = st.failed
      /\ comp_list' = comp_list /\ dtors' = {} /\ dtors' = dtors
  BY DEF SetStorage
<1>2. /\ st \in [home : [Entity -> Homes], column : Columns, failed : {FALSE}]
      /\ \A S \in Arch : st.column[S] # <<>> => Manages(S)
      /\ \A g \in alive : Settled(st, info'[g], g)
      /\ \A T \in Arch : \A i, j : Cell(st.column, T, i, j) # PLACEHOLDER =>
           OwnerOK(st, info', T, i, j, Cell(st.column, T, i, j))
  BY DEF StorageOK
<1>3. Storage' = st
  BY <1>1, <1>2 DEF Storage
<1>4. OwnersOK'
  BY <1>1 DEF OwnersOK, StorageInv
<1>5. StorageOK(Storage, info)'
  <2>1. (Storage \in [home : [Entity -> Homes], column : Columns, failed : {FALSE}])'
    BY <1>2, <1>3
  <2>2. (\A S \in Arch : Storage.column[S] # <<>> => Manages(S))'
    BY <1>2, <1>3
  <2>3. (\A g \in alive : Settled(Storage, info[g], g))'
    BY <1>2, <1>3 DEF Settled
  <2>4. (\A T \in Arch : \A i, j : Cell(Storage.column, T, i, j) # PLACEHOLDER =>
           OwnerOK(Storage, info, T, i, j, Cell(Storage.column, T, i, j)))'
    <3>1. \A T, i, j, g : OwnerOK(st, info', T, i, j, g) =>
            st.home[g] = External(i, j) /\ g \in alive /\ info'[g].phys = T
      BY DEF OwnerOK
    <3>2. \A T, i, j, g : st.home[g] = External(i, j) /\ g \in alive /\ info'[g].phys = T =>
            OwnerOK(Storage, info, T, i, j, g)'
      BY <1>3 DEF OwnerOK
    <3> QED
      BY <1>2, <1>3, <3>1, <3>2
  <2> QED
    BY <2>1, <2>2, <2>3, <2>4 DEF StorageOK
<1> QED
  BY <1>4, <1>5

-----------------------------------------------------------------------------
(* The steps of a flush.                                                   *)

\* Taking an entity out of a list, the last one filling its slot, adds no heap.
LEMMA VacatedShorter ==
  ASSUME NEW l, ListOK(l), l.heaps # <<>>, NEW h, NEW s, NEW e \in Content
  PROVE  Shorter(PopBack(SetAt(l, h, s, e)).heaps, l.heaps)
<1> DEFINE set == SetAt(l, h, s, e)
<1>1. ListOK(set) /\ Shorter(set.heaps, l.heaps) /\ Len(set.heaps) = Len(l.heaps)
  BY SetAtOK, SetAtShorter
<1> HIDE DEF set
<1>2. set.heaps # <<>>
  BY <1>1, ListParts, EmptyLen
<1>3. ListOK(PopBack(set)) /\ Shorter(PopBack(set).heaps, set.heaps)
  BY <1>1, <1>2, PopBackOK, PopBackShorter
<1>4. l.heaps \in Heaps /\ set.heaps \in Heaps /\ PopBack(set).heaps \in Heaps
  BY <1>1, <1>3, ListParts DEF Heaps
<1>5. Shorter(PopBack(set).heaps, l.heaps)
  BY <1>1, <1>3, <1>4, ShorterTransitive
<1> QED
  BY <1>5 DEF set

\* The cleanup of a dead entity shortens one list, and moves one entity at most.
LEMMA FlushDeadLists ==
  ASSUME SlotInv, FlushDead
  PROVE  /\ Head(dead).arch \in Arch
         /\ Shorter(list'[Head(dead).arch].heaps, list[Head(dead).arch].heaps)
         /\ \A T \in Arch : T # Head(dead).arch => list'[T] = list[T]
         /\ \E l : NoteShrunk(Head(dead).arch, l) /\ list'[Head(dead).arch] = l
         /\ \E f : \A g \in alive : g # f => info'[g] = info[g]
<1> DEFINE d == Head(dead)
           S == d.arch
           l == Pruned(list[S])
           filler == At(l, <<Len(l.heaps), l.last>>)
           gone == \/ d.heap = Len(l.heaps) /\ d.slot > l.last
                   \/ d.heap > Len(l.heaps)
           filled == PopBack(SetAt(l, d.heap, d.slot, filler))
<1>1. /\ list \in [Arch -> EntityList] /\ \A T \in Arch : ListOK(list[T])
      /\ info \in [Entity -> DbEntity] /\ alive \subseteq Entity /\ dead \in Seq(DbDirtyDeadEntity)
  BY DEF SlotInv, SlotTypes
<1>2. d \in DbDirtyDeadEntity
  BY <1>1, TailOf DEF FlushDead
<1>3. d.heap \in Nat \ {0} /\ d.slot \in Nat \ {0} /\ S \in Arch
  BY <1>2 DEF DbDirtyDeadEntity, Index
<1>4. \/ /\ list' = [list EXCEPT ![S] = l] /\ NoteShrunk(S, l) /\ info' = info
      \/ /\ ~gone
         /\ list' = [list EXCEPT ![S] = filled] /\ NoteShrunk(S, filled)
         /\ info' = [info EXCEPT ![filler] = Placed(@, d.heap, d.slot)]
  BY Zenon DEF FlushDead
<1> HIDE DEF d, S
<1>5. ListOK(l) /\ Shorter(l.heaps, list[S].heaps)
  BY <1>1, <1>3, PrunedSlots, PrunedShorter DEF CutTo
<1>6. ~gone => Shorter(filled.heaps, list[S].heaps)
  <2> SUFFICES ASSUME ~gone PROVE Shorter(filled.heaps, list[S].heaps)
    OBVIOUS
  <2> HIDE DEF l
  <2>1. Len(l.heaps) \in Nat /\ (l.heaps = <<>> <=> Len(l.heaps) = 0)
    BY <1>5, ListParts, EmptyLen
  <2>2. l.heaps # <<>>
    BY <2>1, <1>3
  <2>3. filler \in Content
    BY <2>2, <1>5, BackOf, UsedOf DEF Back
  <2> HIDE DEF filler
  <2>4. Shorter(filled.heaps, l.heaps)
    BY <2>2, <2>3, <1>5, VacatedShorter
  <2>5. ListOK(filled)
    <3>1. ListOK(SetAt(l, d.heap, d.slot, filler))
          /\ Len(SetAt(l, d.heap, d.slot, filler).heaps) = Len(l.heaps)
      BY <1>5, <2>3, SetAtOK
    <3> DEFINE set == SetAt(l, d.heap, d.slot, filler)
    <3> HIDE DEF set
    <3>2. set.heaps # <<>> /\ ListOK(set)
      BY <3>1, <2>1, <2>2, ListParts, EmptyLen DEF set
    <3>3. ListOK(PopBack(set))
      BY <3>2, PopBackOK
    <3> QED
      BY <3>3 DEF set
  <2> HIDE DEF filled
  <2>6. filled.heaps \in Heaps /\ l.heaps \in Heaps /\ list[S].heaps \in Heaps
    BY <1>1, <1>3, <1>5, <2>5, ListParts DEF Heaps
  <2> QED
    BY <2>4, <2>6, <1>5, ShorterTransitive
<1> HIDE DEF filled, l, gone
<1>7. \/ list'[S] = l /\ NoteShrunk(S, l)
      \/ ~gone /\ list'[S] = filled /\ NoteShrunk(S, filled)
  BY <1>1, <1>3, <1>4
<1>8. \A T \in Arch : T # S => list'[T] = list[T]
  BY <1>1, <1>4
<1>9. \A g \in alive : g # filler => info'[g] = info[g]
  BY <1>1, <1>4
<1>10. Shorter(list'[S].heaps, list[S].heaps)
  BY <1>5, <1>6, <1>7
<1>11. \E f : \A g \in alive : g # f => info'[g] = info[g]
  BY <1>9
<1>12. \E k : NoteShrunk(S, k) /\ list'[S] = k
  BY <1>7
<1> QED
  BY <1>3, <1>8, <1>10, <1>11, <1>12 DEF S, d

\* Shortened lists are noted.
LEMMA NotedShrunk ==
  ASSUME NEW S, NEW l, NoteShrunk(S, l)
  PROVE  trunc \subseteq trunc' /\ (Len(l.heaps) < Len(list[S].heaps) => S \in trunc')
BY DEF NoteShrunk

\* The cleanup of a dead entity keeps the storage in order.
LEMMA StorageFlushDead ==
  ASSUME SlotInv, SlotInv', StorageInv, FlushDeadStorage
  PROVE  StorageInv'
<1> DEFINE S == Head(dead).arch
           new == Filled(Storage, S)
<1>1. /\ FlushDead /\ SetStorage(new) /\ pc = "dead" /\ pc' = pc
      /\ alive' = alive /\ spawned' = spawned
  BY DEF FlushDeadStorage, FlushDead, entityVars
<1>2. /\ S \in Arch /\ Shorter(list'[S].heaps, list[S].heaps)
      /\ \A T \in Arch : T # S => list'[T] = list[T]
      /\ \E l : NoteShrunk(S, l) /\ list'[S] = l
      /\ \E f : \A g \in alive : g # f => info'[g] = info[g]
  BY <1>1, FlushDeadLists
<1>3. SameTags /\ \A g \in alive : info'[g].phys = info[g].phys
  BY <1>1, FlushDeadTags
<1>4. dtors = {} /\ StorageOK(Storage, info) /\ SizesOK
  BY <1>1 DEF StorageInv, OwnersOK
<1>5. SlotTypes /\ SlotsMirror /\ SlotTypes' /\ SlotsMirror' /\ alive \subseteq Entity
      /\ \A g \in alive : info[g] \in DbEntity /\ info'[g] \in DbEntity
  BY <1>1 DEF SlotInv, SlotTypes
<1> HIDE DEF S, new
<1>6. PICK f : \A g \in alive : g # f => info'[g] = info[g]
  BY <1>2
\* Nobody moves in the other archetypes.
<1>7. ASSUME NEW g \in alive, Manages(info[g].phys), info[g].phys # S
      PROVE  info'[g] = info[g]
  <2>1. info[g].phys # Root /\ info'[g].phys = info[g].phys /\ info[g].phys \in Arch
    BY <1>3, <1>5, <1>7 DEF Manages, Root, DbEntity
  <2> DEFINE T == info[g].phys
             p == <<info'[g].heap, info'[g].slot>>
  <2>2. p \in Used(list'[T]) /\ At(list'[T], p) = g /\ list'[T] = list[T]
    BY <2>1, <1>1, <1>2, <1>5, <1>7 DEF SlotsMirror
  <2>3. <<info[g].heap, info[g].slot>> = p
    BY <2>1, <2>2, <1>5, MirrorOf
  <2>4. info'[g].virt = info[g].virt
    BY <1>3 DEF SameTags
  <2> QED
    BY <2>1, <2>3, <2>4, <1>5 DEF DbEntity
<1>8. /\ Storage.column = column /\ Storage.home = home
      /\ column \in Columns /\ Fits(column[S], list[S].heaps)
  BY <1>2, <1>4 DEF Storage, StorageOK, SizesOK
<1>9. /\ StorageOK(new, info')
      /\ \A g \in Entity : new.home[g] = NoHome <=> home[g] = NoHome
      /\ \A T \in Arch : T # S => SameSizes(new.column[T], column[T])
      /\ Fits(new.column[S], list[S].heaps)
      /\ Len(new.column[S]) <= Len(list'[S].heaps) \/ Len(new.column[S]) = Len(column[S])
  <2> DEFINE st == Storage
             inf == info
  <2>1. /\ StorageOK(st, inf)
        /\ OneFills(inf, S, f)
        /\ st.column = column /\ st.home = home /\ new = Filled(st, S)
    BY <1>3, <1>4, <1>5, <1>6, <1>7, <1>8 DEF new, OneFills
  <2> HIDE DEF st, inf
  <2>2. RefilledOK(new, st, S)
    BY <2>1, <1>1, <1>2, <1>4, <1>8, FilledOK
  <2> QED
    BY <2>1, <2>2 DEF RefilledOK
<1>10. StorageOK(Storage, info)' /\ OwnersOK'
  BY <1>1, <1>4, <1>5, <1>9, MovesFrame
<1>11. column' = new.column /\ new.column \in Columns
  BY <1>1, <1>9 DEF SetStorage, StorageOK
<1>12. ASSUME NEW T \in Arch
       PROVE  /\ Fits(column'[T], list'[T].heaps)
              /\ Len(column'[T]) <= Len(list'[T].heaps) \/ Len(column'[T]) = Len(column[T])
              /\ Len(list'[T].heaps) < Len(list[T].heaps) => T \in trunc'
  <2>1. /\ column'[T] \in Heaps /\ column[T] \in Heaps
        /\ list[T].heaps \in Heaps /\ list'[T].heaps \in Heaps
        /\ Len(list[T].heaps) \in Nat
    BY <1>5, <1>8, <1>11, ListParts DEF Columns, Heaps, SlotTypes
  <2>2. Shorter(column'[T], column'[T])
    BY <2>1, HeapsLen DEF Shorter
  <2>3. CASE T = S
    <3>1. Fits(column'[T], list'[T].heaps)
      BY <2>1, <2>2, <2>3, <1>2, <1>9, <1>11, ShorterFits
    <3>2. PICK l : NoteShrunk(S, l) /\ list'[S] = l
      BY <1>2
    <3> QED
      BY <3>1, <3>2, <2>3, <1>9, <1>11, NotedShrunk
  <2>4. CASE T # S
    <3>1. list'[T] = list[T] /\ SameSizes(column'[T], column[T])
      BY <2>4, <1>2, <1>9, <1>11
    <3>2. Shorter(list[T].heaps, list[T].heaps)
      BY <2>1, HeapsLen DEF Shorter
    <3>3. Fits(column'[T], list[T].heaps)
      BY <3>1, <3>2, <2>1, <1>4, ShorterFits DEF SameSizes, SizesOK
    <3> QED
      BY <3>1, <3>3, <2>1, SameSizesOf
  <2> QED
    BY <2>3, <2>4
<1>13. trunc \subseteq trunc'
  BY <1>2, NotedShrunk
<1>14. SizesOK'
  BY <1>1, <1>4, <1>8, <1>11, <1>12, <1>13, SizesStep
<1> QED
  BY <1>10, <1>14 DEF StorageInv

\* A move pushes one entity to the list of its virtual archetype, and the entity which
\* fills its old slot, if any, is one of those which stay.
LEMMA FlushMoveLists ==
  ASSUME SlotInv, FlushMove,
         NEW src, src = info[Head(dirty)].phys, NEW dst, dst = info[Head(dirty)].virt
  PROVE  /\ src \in Arch /\ dst \in Arch /\ src # dst /\ Head(dirty) \in alive
         /\ dst # Root => list'[dst] = PushBack(list[dst], Head(dirty))
         /\ dst = Root => list'[dst] = list[dst]
         /\ src # Root => Shorter(list'[src].heaps, list[src].heaps) /\ NoteShrunk(src, list'[src])
         /\ src = Root => list'[src] = list[src] /\ trunc' = trunc
         /\ \A T \in Arch : T # src /\ T # dst => list'[T] = list[T]
         /\ \E f : /\ \A g \in alive : g # f /\ g # Head(dirty) => info'[g] = info[g]
                   /\ \A g \in alive : g = f => info[g].phys = src /\ src # Root
<1> DEFINE e == Head(dirty)
           h == info[e].heap
           s == info[e].slot
           ls == list[src]
           filler == At(ls, Back(ls))
           left == Vacated(ls, h, s)
           pushed == PushBack(list[dst], e)
           entered == IF dst = Root THEN list ELSE [list EXCEPT ![dst] = pushed]
           here == Arrived(e)
           moved == [info EXCEPT ![e] = here]
<1>1. SlotTypes /\ SlotsMirror /\ DeadOK
  BY DEF SlotInv
<1>2. /\ pc = "alive" /\ dirty # <<>> /\ e \in alive /\ src # dst /\ info[e].phys = src
  BY DEF FlushMove
<1>3. /\ src = Root => list' = entered /\ info' = moved /\ trunc' = trunc
      /\ src # Root =>
           /\ list' = [entered EXCEPT ![src] = left]
           /\ info' = IF filler = e THEN moved ELSE [moved EXCEPT ![filler] = Placed(@, h, s)]
           /\ NoteShrunk(src, left)
  BY Zenon DEF FlushMove, Back
<1>4. /\ e \in Entity /\ info[e] \in DbEntity /\ src \in Arch /\ dst \in Arch
      /\ list \in [Arch -> EntityList] /\ \A T \in Arch : ListOK(list[T])
      /\ info \in [Entity -> DbEntity] /\ alive \subseteq Entity
  BY <1>1, <1>2 DEF SlotTypes, DbEntity
<1> HIDE DEF e
<1>5. ASSUME src # Root
      PROVE  /\ Shorter(left.heaps, ls.heaps)
             /\ filler \in alive /\ info[filler].phys = src
  <2>1. <<h, s>> \in Used(ls)
    BY <1>1, <1>2, <1>4, <1>5, MirrorOf
  <2>2. ls.heaps # <<>> /\ Back(ls) \in Used(ls) /\ filler \in Content
    BY <2>1, <1>4, BackOf, UsedOf
  <2>3. dead = <<>> /\ DOMAIN dead = {}
    BY <1>1, <1>2 DEF DeadOK
  <2>4. filler \in alive
    BY <2>2, <2>3, <1>1, <1>4, MirrorOf
  <2>5. info[filler].phys = src
    BY <2>2, <2>4, <1>1, <1>4, MirrorOf
  <2>6. left = PopBack(SetAt(ls, h, s, filler))
    BY DEF Vacated, Back
  <2> HIDE DEF left, filler, ls, h, s
  <2>7. ListOK(ls)
    BY <1>4 DEF ls
  <2>8. Shorter(left.heaps, ls.heaps)
    BY <2>2, <2>6, <2>7, VacatedShorter
  <2> QED
    BY <2>4, <2>5, <2>8
<1> HIDE DEF left, pushed, filler, here
<1>6. /\ entered[dst] = IF dst = Root THEN list[dst] ELSE pushed
      /\ \A T \in Arch : T # dst => entered[T] = list[T]
      /\ DOMAIN entered = Arch
  BY <1>4
<1> HIDE DEF entered
<1>7. /\ list'[src] = IF src = Root THEN list[src] ELSE left
      /\ \A T \in Arch : T # src => list'[T] = entered[T]
  BY <1>2, <1>3, <1>4, <1>6
<1>8. src # Root => Shorter(list'[src].heaps, list[src].heaps) /\ NoteShrunk(src, list'[src])
  BY <1>3, <1>5, <1>7
<1>9. \E f : /\ \A g \in alive : g # f /\ g # e => info'[g] = info[g]
             /\ \A g \in alive : g = f => info[g].phys = src /\ src # Root
  <2>1. CASE src = Root
    <3>1. \A g \in alive : g # e => info'[g] = info[g]
      BY <1>3, <1>4, <2>1
    <3>2. \A g \in alive : g # PLACEHOLDER
      BY <1>4, DatabaseAssumption
    <3> QED
      BY <3>1, <3>2
  <2>2. CASE src # Root
    <3>1. \A g \in alive : g # filler /\ g # e => info'[g] = info[g]
      BY <1>3, <1>4, <2>2, SMTT(30)
    <3> QED
      BY <3>1, <1>5, <2>2
  <2> QED
    BY <2>1, <2>2
<1> QED
  BY <1>2, <1>3, <1>4, <1>6, <1>7, <1>8, <1>9 DEF e, pushed

\* Where no component is in a column on either side, there is nothing to move.
LEMMA MovedNowhere ==
  ASSUME NEW st, NEW inf, StorageOK(st, inf), NEW e \in alive, NEW src, inf[e].phys = src,
         NEW dst \in Arch, NEW h, NEW s, NEW l, ~Manages(src), ~Manages(dst)
  PROVE  Moved(st, e, src, dst, h, s, l) = st
<1>1. st.home[e] = NoHome \/ st.home[e] = Anonymous
  BY DEF StorageOK, Settled
<1>2. st.column[dst] = <<>>
  BY DEF StorageOK
<1> QED
  BY <1>1, <1>2, HomesDiffer DEF Moved

\* The storage after the move of e to its virtual archetype, before its old slot is
\* filled.
LEMMA StorageArrived ==
  ASSUME SlotInv, SlotInv', StorageInv, FlushMoveStorage,
         NEW e, e = Head(dirty), NEW src, src = info[e].phys, NEW dst, dst = info[e].virt,
         NEW inf, inf = [info EXCEPT ![e] = info'[e]],
         NEW arrived,
         arrived = IF Manages(src) \/ Manages(dst)
                     THEN Moved(Storage, e, src, dst, info'[e].heap, info'[e].slot, list'[dst])
                     ELSE Storage
  PROVE  StillOK(arrived, Storage, inf, dst, info'[e].heap, list'[dst])
<1> DEFINE h == info'[e].heap
           s == info'[e].slot
           l == list'[dst]
<1>1. FlushMove /\ pc = "alive" /\ alive' = alive
  <2>1. FlushMove
    BY DEF FlushMoveStorage
  <2> QED
    BY <2>1 DEF FlushMove, entityVars
<1>2. /\ src \in Arch /\ dst \in Arch /\ src # dst /\ e \in alive
      /\ dst # Root => l = PushBack(list[dst], e)
      /\ \E f : /\ \A g \in alive : g # f /\ g # e => info'[g] = info[g]
                /\ \A g \in alive : g = f => info[g].phys = src /\ src # Root
  BY <1>1, FlushMoveLists
<1>3. /\ SlotTypes /\ SlotTypes' /\ SlotsMirror' /\ alive \subseteq Entity
      /\ info \in [Entity -> DbEntity] /\ \A g \in alive : info'[g] \in DbEntity
      /\ \A T \in Arch : ListOK(list[T]) /\ ListOK(list'[T])
      /\ PLACEHOLDER \notin alive
  BY <1>1, DatabaseAssumption DEF SlotInv, SlotTypes
<1>4. info'[e].phys = dst
  BY <1>1, <1>2, FlushMoveTags DEF SameTags
<1>5. dtors = {} /\ StorageOK(Storage, info) /\ SizesOK /\ Storage.column = column
  BY <1>1 DEF StorageInv, OwnersOK, Storage
<1>6. /\ \A g \in alive : g # e => inf[g] = info[g]
      /\ inf[e] = info'[e]
  BY <1>2, <1>3
<1>7. /\ h \in Index /\ s \in Index /\ info[e].heap \in Index /\ info[e].slot \in Index
      /\ \A g \in alive : info[g].phys \in Arch
  BY <1>2, <1>3 DEF DbEntity
\* Nobody is in the slot which has just been pushed.
<1>8. Vacant(Storage, info, dst, h, s, l)
  <2> SUFFICES ASSUME Manages(dst)
               PROVE  /\ ListOK(l) /\ Fits(column[dst], l.heaps)
                      /\ h \in 1 .. Len(l.heaps) /\ s \in 1 .. Len(l.heaps[h])
                      /\ \A g \in alive : ~ (info[g].phys = dst /\ info[g].heap = h /\ info[g].slot = s)
    BY <1>5 DEF Vacant
  <2>1. dst # Root
    BY DEF Manages, Root
  <2>2. <<h, s>> \in Used(l) /\ At(l, <<h, s>>) = e
    BY <2>1, <1>1, <1>2, <1>3, <1>4 DEF SlotsMirror
  <2>3. ListOK(l)
    BY <1>2, <1>3
  <2>4. Fits(column[dst], l.heaps)
    <3>1. column[dst] \in Heaps /\ Fits(column[dst], list[dst].heaps) /\ e \in Content
      BY <1>2, <1>3, <1>5 DEF StorageOK, Columns, SizesOK, Content
    <3> QED
      BY <3>1, <2>1, <1>2, <1>3, PushBackFits
  <2>5. ASSUME NEW g \in alive, info[g].phys = dst, info[g].heap = h, info[g].slot = s
        PROVE  FALSE
    <3>1. g # e
      BY <2>5, <1>2
    <3>2. info'[g] = info[g]
      BY <2>5, <3>1, <1>2
    <3>3. At(l, <<h, s>>) = g
      BY <2>5, <3>2, <2>1, <1>1, <1>2, <1>3 DEF SlotsMirror
    <3> QED
      BY <3>1, <3>3, <2>2
  <2> HIDE DEF h, s, l
  <2>6. h \in 1 .. Len(l.heaps) /\ s \in 1 .. HeapLen(l, h)
    BY <2>2, <2>3, UsedOf
  <2>7. HeapLen(l, h) \in 1 .. Len(l.heaps[h]) /\ Len(l.heaps[h]) \in Nat
    BY <2>3, <2>6, UsedOf, ListParts
  <2>8. s \in 1 .. Len(l.heaps[h])
    BY <2>6, <2>7
  <2> QED
    BY <2>3, <2>4, <2>5, <2>6, <2>8, SMTT(30)
<1> DEFINE st == Storage
           at == info
           moved == Moved(st, e, src, dst, h, s, l)
<1>9. arrived = moved
  <2>1. CASE Manages(src) \/ Manages(dst)
    BY <2>1
  <2>2. CASE ~Manages(src) /\ ~Manages(dst)
    <3>1. arrived = st
      BY <2>2
    <3>2. StorageOK(st, at) /\ at[e].phys = src
      BY <1>5
    <3> HIDE DEF st, h, s, l, at
    <3> QED
      BY <3>1, <3>2, <2>2, <1>2, MovedNowhere
  <2> QED
    BY <2>1, <2>2
<1>10. StillOK(moved, st, inf, dst, h, l)
  <2>1. /\ StorageOK(st, at) /\ Vacant(st, at, dst, h, s, l) /\ at[e].phys = src
        /\ at[e].heap \in Index /\ at[e].slot \in Index /\ h \in Index /\ s \in Index
        /\ \A g \in alive : at[g].phys \in Arch
        /\ \A g \in alive : g # e => inf[g] = at[g]
        /\ inf[e].phys = dst /\ inf[e].heap = h /\ inf[e].slot = s
    BY <1>4, <1>5, <1>6, <1>7, <1>8
  <2> HIDE DEF st, h, s, l, at
  <2>2. StillOK(Moved(st, e, src, dst, h, s, l), st, inf, dst, h, l)
    BY <2>1, <1>2, <1>3, <1>5, MovedOK
  <2> QED
    BY <2>2
<1> QED
  BY <1>9, <1>10, SMTT(30)

\* The entity the head of the dirty list is at its new place, all others where they
\* were: the component of whoever fills its old slot still has to move.
LEMMA StorageRefilled ==
  ASSUME SlotInv, SlotInv', StorageInv, FlushMoveStorage,
         NEW e, e = Head(dirty), NEW src, src = info[e].phys, src # Root,
         NEW dst, dst = info[e].virt,
         NEW inf, inf = [info EXCEPT ![e] = info'[e]],
         NEW arrived, StillOK(arrived, Storage, inf, dst, info'[e].heap, list'[dst])
  PROVE  RefilledOK(Filled(arrived, src), arrived, src)
<1>1. FlushMove /\ pc = "alive" /\ alive' = alive
  <2>1. FlushMove
    BY DEF FlushMoveStorage
  <2> QED
    BY <2>1, Zenon DEF FlushMove, entityVars
<1>2. /\ src \in Arch /\ dst \in Arch /\ src # dst /\ e \in alive
      /\ Shorter(list'[src].heaps, list[src].heaps)
      /\ \E f : /\ \A g \in alive : g # f /\ g # e => info'[g] = info[g]
                /\ \A g \in alive : g = f => info[g].phys = src /\ src # Root
  BY <1>1, FlushMoveLists
<1>3. /\ SlotTypes /\ SlotTypes' /\ alive \subseteq Entity
      /\ info \in [Entity -> DbEntity] /\ \A g \in alive : info'[g] \in DbEntity
      /\ ListOK(list[src])
  BY <1>1, <1>2 DEF SlotInv, SlotTypes
<1>4. info'[e].phys = dst /\ \A g \in alive : g # e => info'[g].phys = info[g].phys
  BY <1>1, <1>2, FlushMoveTags DEF SameTags
<1>5. dtors = {} /\ SizesOK /\ Storage.column = column /\ StorageOK(Storage, info)
  BY <1>1 DEF StorageInv, OwnersOK, Storage
<1>6. /\ \A g \in alive : g # e => inf[g] = info[g]
      /\ inf[e] = info'[e]
  BY <1>2, <1>3
<1>7. PICK f : /\ \A g \in alive : g # f /\ g # e => info'[g] = info[g]
               /\ \A g \in alive : g = f => info[g].phys = src /\ src # Root
  BY <1>2, SMTT(30)
<1>8. StorageOK(arrived, inf) /\ SameSizes(arrived.column[src], column[src])
  BY <1>2, <1>5 DEF StillOK
<1>9. Fits(arrived.column[src], list[src].heaps)
  <2>1. /\ arrived.column[src] \in Heaps /\ column[src] \in Heaps /\ list[src].heaps \in Heaps
        /\ Fits(column[src], list[src].heaps)
    BY <1>2, <1>3, <1>5, <1>8, ListParts DEF StorageOK, Columns, SizesOK, Heaps
  <2>2. Shorter(list[src].heaps, list[src].heaps)
    BY <2>1, HeapsLen DEF Shorter
  <2> QED
    BY <2>1, <2>2, <1>8, ShorterFits, Zenon DEF SameSizes
<1>10. OneFills(inf, src, f)
  <2> SUFFICES ASSUME NEW g \in alive
               PROVE  /\ inf[g] \in DbEntity /\ inf[g].phys = info'[g].phys
                      /\ inf[g].phys = src => inf[g] = info[g]
                      /\ Manages(inf[g].phys) /\ inf[g].phys # src => info'[g] = inf[g]
                      /\ info[g].phys = src /\ info'[g].phys = src => inf[g].phys = src
                      /\ g # f => info'[g] = inf[g]
    BY DEF OneFills
  <2>1. CASE g = e
    BY <2>1, <1>2, <1>3, <1>4, <1>6
  <2>2. CASE g # e
    BY <2>2, <1>3, <1>4, <1>6, <1>7
  <2> QED
    BY <2>1, <2>2
<1> QED
  BY <1>1, <1>2, <1>5, <1>8, <1>9, <1>10, FilledOK

\* The move of an entity keeps the storage in order.
LEMMA StorageFlushMove ==
  ASSUME SlotInv, SlotInv', StorageInv, FlushMoveStorage
  PROVE  StorageInv'
<1> DEFINE e == Head(dirty)
           src == info[e].phys
           dst == info[e].virt
           h == info'[e].heap
           s == info'[e].slot
           arrived == IF Manages(src) \/ Manages(dst)
                        THEN Moved(Storage, e, src, dst, h, s, list'[dst])
                        ELSE Storage
           inf == [info EXCEPT ![e] = info'[e]]
           new == IF src = Root THEN arrived ELSE Filled(arrived, src)
<1>1. FlushMove /\ SetStorage(new)
  BY SMTT(30) DEF FlushMoveStorage
<1>2. pc = "alive" /\ pc' = pc /\ alive' = alive /\ spawned' = spawned
  BY <1>1 DEF FlushMove, entityVars
<1>3. /\ src \in Arch /\ dst \in Arch /\ src # dst /\ e \in alive
      /\ dst # Root => list'[dst] = PushBack(list[dst], e)
      /\ dst = Root => list'[dst] = list[dst]
      /\ src # Root => Shorter(list'[src].heaps, list[src].heaps) /\ NoteShrunk(src, list'[src])
      /\ src = Root => list'[src] = list[src] /\ trunc' = trunc
      /\ \A T \in Arch : T # src /\ T # dst => list'[T] = list[T]
      /\ \E f : /\ \A g \in alive : g # f /\ g # e => info'[g] = info[g]
                /\ \A g \in alive : g = f => info[g].phys = src /\ src # Root
  BY <1>1, FlushMoveLists
<1>4. StillOK(arrived, Storage, inf, dst, h, list'[dst])
  <2> DEFINE e0 == e
             src0 == src
             dst0 == dst
             inf0 == inf
             arrived0 == arrived
  <2>1. /\ e0 = Head(dirty) /\ src0 = info[e0].phys /\ dst0 = info[e0].virt
        /\ inf0 = [info EXCEPT ![e0] = info'[e0]]
        /\ arrived0 = IF Manages(src0) \/ Manages(dst0)
             THEN Moved(Storage, e0, src0, dst0, info'[e0].heap, info'[e0].slot, list'[dst0])
             ELSE Storage
    OBVIOUS
  <2> HIDE DEF e0, src0, dst0, inf0, arrived0
  <2>2. StillOK(arrived0, Storage, inf0, dst0, info'[e0].heap, list'[dst0])
    BY <2>1, StorageArrived
  <2> QED
    BY <2>2 DEF e0, src0, dst0, inf0, arrived0
<1>5. src # Root => RefilledOK(new, arrived, src)
  <2> SUFFICES ASSUME src # Root PROVE RefilledOK(Filled(arrived, src), arrived, src)
    OBVIOUS
  <2> DEFINE e0 == e
             src0 == src
             dst0 == dst
             inf0 == inf
             arrived0 == arrived
  <2>1. /\ e0 = Head(dirty) /\ src0 = info[e0].phys /\ dst0 = info[e0].virt /\ src0 # Root
        /\ inf0 = [info EXCEPT ![e0] = info'[e0]]
        /\ StillOK(arrived0, Storage, inf0, dst0, info'[e0].heap, list'[dst0])
    BY <1>4
  <2> HIDE DEF e0, src0, dst0, inf0, arrived0
  <2>2. RefilledOK(Filled(arrived0, src0), arrived0, src0)
    BY <2>1, StorageRefilled
  <2> QED
    BY <2>2 DEF src0, arrived0
<1>6. src = Root => new = arrived
  OBVIOUS
<1> HIDE DEF src, dst, new, arrived, e, h, s
<1>7. /\ SlotTypes /\ SlotTypes' /\ SlotsMirror' /\ alive \subseteq Entity
      /\ info \in [Entity -> DbEntity] /\ \A g \in alive : info'[g] \in DbEntity
      /\ \A T \in Arch : ListOK(list[T]) /\ ListOK(list'[T])
  BY <1>2 DEF SlotInv, SlotTypes
<1>8. dtors = {} /\ SizesOK /\ Storage.column = column /\ Storage.home = home
      /\ StorageOK(Storage, info)
  BY <1>2 DEF StorageInv, OwnersOK, Storage
<1>9. info'[e].phys = dst
  BY <1>1, <1>3, FlushMoveTags DEF SameTags, e, dst
<1>10. /\ StorageOK(new, info')
       /\ \A g \in Entity : new.home[g] = NoHome <=> home[g] = NoHome
  <2>1. CASE src = Root
    <3>1. \A g \in alive : info'[g] = inf[g]
      BY <2>1, <1>3, <1>7
    <3>2. StorageOK(arrived, inf)
      BY <1>4 DEF StillOK
    <3> HIDE DEF inf
    <3>3. StorageOK(arrived, info')
      <4>1. \A g \in alive : Settled(arrived, info'[g], g)
        BY <3>1, <3>2 DEF StorageOK
      <4>2. \A T, i, j, g : OwnerOK(arrived, inf, T, i, j, g) => OwnerOK(arrived, info', T, i, j, g)
        BY <3>1 DEF OwnerOK
      <4> QED
        BY <3>2, <4>1, <4>2 DEF StorageOK
    <3> QED
      BY <3>3, <2>1, <1>4, <1>6, <1>8 DEF StillOK
  <2>2. CASE src # Root
    BY <2>2, <1>4, <1>5, <1>8 DEF StillOK, RefilledOK
  <2> QED
    BY <2>1, <2>2
<1>11. StorageOK(Storage, info)' /\ OwnersOK'
  BY <1>1, <1>2, <1>7, <1>8, <1>10, MovesFrame
<1>12. column' = new.column /\ new.column \in Columns /\ arrived.column \in Columns /\ column \in Columns
  BY <1>1, <1>4, <1>8, <1>10 DEF SetStorage, StorageOK, StillOK
<1>13. dst # Root => h <= Len(list'[dst].heaps)
  <2> SUFFICES ASSUME dst # Root PROVE h <= Len(list'[dst].heaps)
    OBVIOUS
  <2>1. <<h, s>> \in Used(list'[dst])
    BY <1>2, <1>3, <1>7, <1>9 DEF SlotsMirror, h, s
  <2>2. h \in 1 .. Len(list'[dst].heaps) /\ Len(list'[dst].heaps) \in Nat
    BY <2>1, <1>3, <1>7, UsedOf, ListParts
  <2> QED
    BY <2>2
<1>14. ASSUME NEW T \in Arch
       PROVE  /\ Fits(column'[T], list'[T].heaps)
              /\ Len(column'[T]) <= Len(list'[T].heaps) \/ Len(column'[T]) = Len(column[T])
              /\ Len(list'[T].heaps) < Len(list[T].heaps) => T \in trunc'
  <2>1. /\ column'[T] \in Heaps /\ column[T] \in Heaps /\ arrived.column[T] \in Heaps
        /\ list[T].heaps \in Heaps /\ list'[T].heaps \in Heaps
        /\ Len(list[T].heaps) \in Nat /\ Len(list'[T].heaps) \in Nat
        /\ ListOK(list[T]) /\ Fits(column[T], list[T].heaps)
    BY <1>7, <1>8, <1>12, ListParts DEF Columns, Heaps, SizesOK
  <2>2. \A a, b, c \in Heaps : SameSizes(a, b) /\ Fits(b, c) => Fits(a, c)
    <3> SUFFICES ASSUME NEW a \in Heaps, NEW b \in Heaps, NEW c \in Heaps, SameSizes(a, b), Fits(b, c)
                 PROVE  Fits(a, c)
      OBVIOUS
    <3>1. Shorter(c, c)
      BY HeapsLen DEF Shorter
    <3> QED
      BY <3>1, ShorterFits DEF SameSizes
  <2>3. T # src => SameSizes(column'[T], arrived.column[T])
    <3>1. CASE src = Root
      BY <3>1, <2>1, <1>6, <1>12, SameSizesOf
    <3>2. CASE src # Root
      BY <3>2, <1>5, <1>12 DEF RefilledOK
    <3> QED
      BY <3>1, <3>2
  <2>4. CASE T = src
    <3>1. SameSizes(arrived.column[T], column[T])
      BY <2>4, <1>3, <1>4, <1>8 DEF StillOK
    <3>2. Len(arrived.column[T]) = Len(column[T])
      BY <3>1, <2>1, SameSizesOf
    <3>3. CASE src = Root
      BY <3>1, <3>2, <3>3, <2>1, <2>2, <2>4, <1>3, <1>6, <1>12
    <3>4. CASE src # Root
      <4>1. Shorter(column'[T], column'[T])
        BY <2>1, HeapsLen DEF Shorter
      <4>2. Fits(column'[T], list[T].heaps)
        BY <3>4, <2>4, <1>5, <1>12 DEF RefilledOK
      <4>3. Fits(column'[T], list'[T].heaps)
        BY <4>1, <4>2, <3>4, <2>1, <2>4, <1>3, ShorterFits
      <4>4. Len(column'[T]) <= Len(list'[T].heaps) \/ Len(column'[T]) = Len(column[T])
        BY <3>2, <3>4, <2>4, <1>5, <1>12 DEF RefilledOK
      <4> QED
        BY <4>3, <4>4, <3>4, <2>4, <1>3, NotedShrunk
    <3> QED
      BY <3>3, <3>4
  <2>5. CASE T # src /\ T = dst /\ Manages(dst)
    <3>1. dst # Root
      BY <2>5 DEF Manages, Root
    <3>2. /\ Fits(arrived.column[T], list'[T].heaps)
          /\ Len(arrived.column[T]) \in {h, Len(column[T])}
      BY <2>5, <1>4, <1>8 DEF StillOK
    <3>3. Shorter(list[T].heaps, list'[T].heaps)
      <4>1. e \in Content
        BY <1>3, <1>7 DEF Content
      <4> QED
        BY <4>1, <3>1, <2>1, <2>5, <1>3, PushBackFits
    <3>4. Len(column'[T]) = Len(arrived.column[T]) /\ Fits(column'[T], list'[T].heaps)
      BY <3>2, <2>1, <2>2, <2>3, <2>5, SameSizesOf
    <3>5. ~ (Len(list'[T].heaps) < Len(list[T].heaps))
      BY <3>3, <2>1 DEF Shorter
    <3> QED
      BY <3>1, <3>2, <3>4, <3>5, <2>5, <1>13
  <2>6. CASE T # src /\ ~ (T = dst /\ Manages(dst))
    <3>1. SameSizes(arrived.column[T], column[T])
      BY <2>6, <1>4, <1>8 DEF StillOK
    <3>2. Len(column'[T]) = Len(column[T]) /\ Fits(column'[T], list[T].heaps)
      BY <3>1, <2>1, <2>2, <2>3, <2>6, SameSizesOf
    <3>3. CASE T # dst \/ dst = Root
      <4>1. list'[T] = list[T]
        BY <3>3, <2>6, <1>3
      <4> QED
        BY <4>1, <3>2, <2>1
    <3>4. CASE T = dst /\ dst # Root
      <4>1. e \in Content
        BY <1>3, <1>7 DEF Content
      <4>2. Fits(column'[T], list'[T].heaps) /\ Shorter(list[T].heaps, list'[T].heaps)
        BY <4>1, <3>2, <3>4, <2>1, <1>3, PushBackFits
      <4>3. ~ (Len(list'[T].heaps) < Len(list[T].heaps))
        BY <4>2, <2>1 DEF Shorter
      <4> QED
        BY <4>2, <4>3, <3>2
    <3> QED
      BY <3>3, <3>4
  <2> QED
    BY <2>4, <2>5, <2>6
<1>15. trunc \subseteq trunc'
  BY <1>3, NotedShrunk
<1>16. SizesOK'
  BY <1>2, <1>8, <1>12, <1>14, <1>15, SizesStep
<1> QED
  BY <1>11, <1>16 DEF StorageInv

\* A column cut to the length of the list.
LEMMA CutColumn ==
  ASSUME NEW c \in Heaps, NEW n \in Nat, n <= Len(c)
  PROVE  /\ SubSeq(c, 1, n) \in Heaps /\ Len(SubSeq(c, 1, n)) = n
         /\ Shorter(SubSeq(c, 1, n), c)
         /\ \A h, s : CellOf(SubSeq(c, 1, n), h, s) =
                        IF h \in 1 .. n THEN CellOf(c, h, s) ELSE PLACEHOLDER
<1> DEFINE k == SubSeq(c, 1, n)
           SC == Seq(Content)
<1>1. Len(c) \in Nat
  BY HeapsLen
<1>2. k \in Heaps /\ Len(k) = n /\ \A i \in 1 .. n : k[i] = c[i]
  <2>1. c \in Seq(SC)
    BY DEF Heaps
  <2> HIDE DEF SC
  <2>2. \A i \in 1 .. n : i \in 1 .. Len(c)
    BY <1>1
  <2>3. k \in Seq(SC) /\ Len(k) = n /\ \A i \in 1 .. n : k[i] = c[i]
    BY <1>1, <2>1, <2>2, SubSeqProperties
  <2> QED
    BY <2>3 DEF SC, Heaps
<1> HIDE DEF k
<1>3. Shorter(k, c)
  BY <1>1, <1>2 DEF Shorter
<1>4. \A h : h \in 1 .. n => h \in 1 .. Len(c)
  BY <1>1
<1>5. \A h, s : CellOf(k, h, s) = IF h \in 1 .. n THEN CellOf(c, h, s) ELSE PLACEHOLDER
  BY <1>2, <1>4 DEF CellOf
<1> QED
  BY <1>2, <1>3, <1>5 DEF k

\* The truncation keeps the storage in order: it only takes off heaps where the list
\* has none, and nobody's component is there any more.
LEMMA StorageFlushTruncate ==
  ASSUME SlotInv, StorageInv, FlushTruncateStorage
  PROVE  StorageInv'
<1>1. /\ pc = "alive" /\ pc' = "delete" /\ alive' = alive /\ spawned' = spawned /\ info' = info
      /\ list' = list /\ dead' = dead
      /\ home' = home /\ comp_list' = comp_list /\ dtors' = dtors /\ failed' = failed
      /\ column' = [S \in Arch |-> IF S \in trunc THEN Truncated(S) ELSE column[S]]
  BY DEF FlushTruncateStorage, FlushTruncate, entityVars
<1>2. StorageOK(Storage, info) /\ SizesOK /\ OwnersOK
  BY DEF StorageInv
<1>3. /\ Storage.column = column /\ Storage.home = home /\ Storage.failed = failed
      /\ Storage'.column = column' /\ Storage'.home = home
  BY <1>1 DEF Storage
<1>4. /\ home \in [Entity -> Homes] /\ column \in Columns /\ failed = FALSE
      /\ \A S \in Arch : column[S] # <<>> => Manages(S)
      /\ \A e \in alive : Settled(Storage, info[e], e)
      /\ \A S \in Arch : \A h, s : Cell(column, S, h, s) # PLACEHOLDER =>
           OwnerOK(Storage, info, S, h, s, Cell(column, S, h, s))
  BY <1>2, <1>3 DEF StorageOK
<1>5. /\ \A S \in Arch : column[S] \in Heaps /\ ListOK(list[S]) /\ Len(list[S].heaps) \in Nat
      /\ \A e \in alive : info[e] \in DbEntity
      /\ SlotTypes /\ SlotsMirror
  BY <1>4, ListParts DEF SlotInv, SlotTypes, Columns
\* Each column is the first heaps of what it was.
<1>6. ASSUME NEW S \in Arch
      PROVE  /\ column'[S] \in Heaps /\ Len(column'[S]) <= Len(list[S].heaps)
             /\ Shorter(column'[S], column[S])
             /\ \A h, s : Cell(column', S, h, s) =
                  IF h \in 1 .. Len(list[S].heaps) THEN Cell(column, S, h, s) ELSE PLACEHOLDER
  <2> DEFINE c == column[S]
             n == Len(list[S].heaps)
  <2>1. c \in Heaps /\ n \in Nat /\ Len(c) \in Nat /\ (c # <<>> <=> Len(c) # 0)
    BY <1>5, HeapsLen
  <2>2. column'[S] = IF S \in trunc /\ Manages(S) /\ Len(c) > n THEN SubSeq(c, 1, n) ELSE c
    BY <1>1 DEF Truncated
  <2>3. Len(c) > n => S \in trunc /\ Manages(S)
    <3>1. Len(c) > n => S \in trunc
      BY <1>2 DEF SizesOK
    <3>2. Len(c) > n => c # <<>>
      BY <2>1
    <3> QED
      BY <3>1, <3>2, <1>4
  <2> HIDE DEF c, n
  <2>4. CASE Len(c) > n
    <3>1. column'[S] = SubSeq(c, 1, n)
      BY <2>2, <2>3, <2>4
    <3>2. n <= Len(c)
      BY <2>1, <2>4
    <3>3. /\ column'[S] \in Heaps /\ Len(column'[S]) = n /\ Shorter(column'[S], c)
          /\ \A h, s : CellOf(column'[S], h, s) = IF h \in 1 .. n THEN CellOf(c, h, s) ELSE PLACEHOLDER
      BY <3>1, <3>2, <2>1, CutColumn
    <3> QED
      BY <3>3, <2>1 DEF Cell, c, n
  <2>5. CASE ~ (Len(c) > n)
    <3>1. column'[S] = c
      BY <2>2, <2>5
    <3>2. Len(c) <= n /\ \A h : h \in 1 .. Len(c) => h \in 1 .. n
      BY <2>1, <2>5
    <3>3. Shorter(c, c)
      BY <2>1, HeapsLen DEF Shorter
    <3>4. \A h, s : CellOf(c, h, s) = IF h \in 1 .. n THEN CellOf(c, h, s) ELSE PLACEHOLDER
      BY <3>2 DEF CellOf
    <3> QED
      BY <3>1, <3>2, <3>3, <3>4, <2>1 DEF Cell, c, n
  <2> QED
    BY <2>4, <2>5
<1>7. column' \in Columns
  BY <1>1, <1>6 DEF Columns
<1>8. ASSUME NEW S \in Arch, column'[S] # <<>>
      PROVE  Manages(S)
  <2>1. Len(column'[S]) \in Nat /\ Len(column'[S]) # 0 /\ Len(column[S]) \in Nat
    BY <1>5, <1>6, <1>8, HeapsLen
  <2>2. column[S] # <<>>
    BY <2>1, <1>5, <1>6, HeapsLen DEF Shorter
  <2> QED
    BY <2>2, <1>4
<1>9. ASSUME NEW e \in alive
      PROVE  Settled(Storage, info[e], e)'
  <2>1. Settled(Storage, info[e], e) /\ info[e].phys \in Arch
    BY <1>4, <1>5 DEF DbEntity
  <2>2. ASSUME Manages(info[e].phys)
        PROVE  Cell(column', info[e].phys, info[e].heap, info[e].slot)
                 = Cell(column, info[e].phys, info[e].heap, info[e].slot)
    <3>1. info[e].phys # Root
      BY <2>2 DEF Manages, Root
    <3>2. <<info[e].heap, info[e].slot>> \in Used(list[info[e].phys])
      BY <3>1, <1>5 DEF SlotsMirror
    <3>3. info[e].heap \in 1 .. Len(list[info[e].phys].heaps)
      BY <3>2, <2>1, <1>5, UsedOf
    <3> QED
      BY <3>3, <2>1, <1>6
  <2> QED
    BY <2>1, <2>2, <1>1, <1>3 DEF Settled
<1>10. ASSUME NEW S \in Arch, NEW h, NEW s, Cell(column', S, h, s) # PLACEHOLDER
       PROVE  OwnerOK(Storage, info, S, h, s, Cell(column, S, h, s))'
  <2>1. Cell(column', S, h, s) = Cell(column, S, h, s)
    BY <1>6, <1>10
  <2>2. OwnerOK(Storage, info, S, h, s, Cell(column, S, h, s))
    BY <2>1, <1>4, <1>10
  <2> QED
    BY <2>1, <2>2, <1>1, <1>3 DEF OwnerOK
<1>11. StorageOK(Storage, info)'
  <2>1. (Storage \in [home : [Entity -> Homes], column : Columns, failed : {FALSE}])'
    BY <1>1, <1>4, <1>7 DEF Storage
  <2>2. (\A S \in Arch : Storage.column[S] # <<>> => Manages(S))'
    BY <1>3, <1>8
  <2>3. (\A e \in alive : Settled(Storage, info[e], e))'
    BY <1>1, <1>9
  <2>4. (\A S \in Arch : \A h, s : Cell(Storage.column, S, h, s) # PLACEHOLDER =>
           OwnerOK(Storage, info, S, h, s, Cell(Storage.column, S, h, s)))'
    BY <1>3, <1>10 DEF Storage
  <2> QED
    BY <2>1, <2>2, <2>3, <2>4 DEF StorageOK
<1>12. SizesOK'
  <2> SUFFICES ASSUME NEW S \in Arch
               PROVE  Fits(column'[S], list[S].heaps) /\ ~ (Len(column'[S]) > Len(list[S].heaps))
    BY <1>1 DEF SizesOK
  <2>1. /\ list[S].heaps \in Heaps /\ Fits(column[S], list[S].heaps)
        /\ column'[S] \in Heaps /\ column[S] \in Heaps
    BY <1>2, <1>5, <1>6, ListParts DEF SizesOK, Heaps
  <2>2. Shorter(list[S].heaps, list[S].heaps)
    BY <2>1, HeapsLen DEF Shorter
  <2>3. Fits(column'[S], list[S].heaps)
    BY <2>1, <2>2, <1>6, ShorterFits
  <2>4. Len(column'[S]) \in Nat /\ Len(list[S].heaps) \in Nat
    BY <1>5, <1>6, HeapsLen
  <2> QED
    BY <2>3, <2>4, <1>6
<1>13. OwnersOK'
  BY <1>1, <1>2 DEF OwnersOK
<1> QED
  BY <1>11, <1>12, <1>13 DEF StorageInv

-----------------------------------------------------------------------------
(* The operations on components.                                           *)

\* A new component, beside its entity if its archetype has a column.
LEMMA StorageInsert ==
  ASSUME SlotInv, StorageInv, ~Reentrant, NEW e \in Entity, InsertComponent(e)
  PROVE  StorageInv'
<1> DEFINE S == info[e].phys
           h == info[e].heap
           s == info[e].slot
           l == list[S]
           gr == Grown(column[S], l, h)
           grown == [column EXCEPT ![S] = Grown(@, l, h)]
           put == [grown EXCEPT ![S][h][s] = e]
<1>1. /\ dtors = {} /\ e \in alive /\ home[e] = NoHome /\ pc = "idle" /\ pc' = pc
      /\ alive' = alive /\ spawned' = spawned /\ info' = info /\ list' = list /\ dead' = dead
      /\ trunc' = trunc /\ dtors' = dtors /\ failed' = failed /\ comp_list' = comp_list \cup {e}
  BY DEF InsertComponent, Callable, vars
<1>2. IF HasColumn(S)
        THEN home' = [home EXCEPT ![e] = External(h, s)] /\ column' = put
        ELSE home' = [home EXCEPT ![e] = Anonymous] /\ column' = column
  BY Zenon DEF InsertComponent
<1>3. StorageOK(Storage, info) /\ SizesOK /\ OwnersOK
  BY DEF StorageInv
<1>4. /\ home \in [Entity -> Homes] /\ column \in Columns /\ failed = FALSE
      /\ \A T \in Arch : column[T] # <<>> => Manages(T)
      /\ \A g \in alive : Settled(Storage, info[g], g)
      /\ \A T \in Arch : \A i, j : Cell(column, T, i, j) # PLACEHOLDER =>
           OwnerOK(Storage, info, T, i, j, Cell(column, T, i, j))
  BY <1>3 DEF StorageOK, Storage
<1>5. /\ \A T \in Arch : column[T] \in Heaps /\ ListOK(list[T])
      /\ \A g \in alive : info[g] \in DbEntity
      /\ S \in Arch /\ SlotTypes /\ SlotsMirror /\ e \in Content /\ e # PLACEHOLDER
      /\ h \in Index /\ s \in Index
  BY <1>1, <1>4, DatabaseAssumption DEF SlotInv, SlotTypes, Columns, DbEntity, Content
<1>6. HasColumn(S) <=> Manages(S)
  BY <1>4, <1>5 DEF HasColumn
\* The columns are as they were but for the slot of e.
<1>7. /\ column' \in Columns
      /\ \A T \in Arch : column'[T] # <<>> => Manages(T)
      /\ \A T \in Arch : T # S \/ ~Manages(S) => column'[T] = column[T]
      /\ Manages(S) =>
           /\ SameSizes(column'[S], gr)
           /\ gr \in Heaps /\ Fits(gr, l.heaps)
           /\ Len(gr) = IF Len(column[S]) < h THEN h ELSE Len(column[S])
           /\ h \in 1 .. Len(l.heaps)
      /\ \A T \in Arch : \A i, j :
           Cell(column', T, i, j) = IF Manages(S) /\ T = S /\ i = h /\ j = s THEN e
                                    ELSE Cell(column, T, i, j)
  <2>1. CASE ~Manages(S)
    BY <2>1, <1>2, <1>4, <1>6
  <2>2. CASE Manages(S)
    <3>1. S # Root
      BY <2>2 DEF Manages, Root
    <3>2. h \in 1 .. Len(l.heaps) /\ s \in 1 .. Len(l.heaps[h])
      <4>1. <<h, s>> \in Used(l) /\ ListOK(l)
        BY <3>1, <1>1, <1>5 DEF SlotsMirror
      <4> HIDE DEF h, s, l
      <4>2. h \in 1 .. Len(l.heaps) /\ s \in 1 .. HeapLen(l, h)
        BY <4>1, UsedOf
      <4>3. HeapLen(l, h) \in 1 .. Len(l.heaps[h]) /\ Len(l.heaps[h]) \in Nat
        BY <4>1, <4>2, UsedOf, ListParts
      <4> QED
        BY <4>2, <4>3
    <3>3. /\ gr \in Heaps /\ Fits(gr, l.heaps)
          /\ Len(gr) = IF Len(column[S]) < h THEN h ELSE Len(column[S])
          /\ h \in 1 .. Len(gr) /\ Len(gr[h]) = Len(l.heaps[h])
          /\ \A i, j : CellOf(gr, i, j) = CellOf(column[S], i, j)
      <4>1. column[S] \in Heaps /\ ListOK(l) /\ Fits(column[S], l.heaps)
        BY <1>3, <1>5 DEF SizesOK
      <4> HIDE DEF h, s, l
      <4> QED
        BY <4>1, <3>2, GrownOK
    <3>4. grown = [column EXCEPT ![S] = gr]
      OBVIOUS
    <3> HIDE DEF gr, grown
    <3>5. grown \in Columns /\ \A T \in Arch : grown[T] = IF T = S THEN gr ELSE column[T]
      BY <3>3, <3>4, <1>4, <1>5 DEF Columns
    <3>6. \A T \in Arch : \A i, j : Cell(grown, T, i, j) = Cell(column, T, i, j)
      BY <3>3, <3>5, <1>5 DEF Cell
    <3>7. h \in 1 .. Len(grown[S]) /\ s \in 1 .. Len(grown[S][h])
      BY <3>2, <3>3, <3>5, <1>5
    <3>8. column' = Put(grown, S, h, s, e)
      BY <2>2, <1>2, <1>6 DEF Put
    <3>9. DifferAt(column', grown, S, h, s, e)
      <4> DEFINE S0 == S
                 h0 == h
                 s0 == s
      <4>1. S0 \in Arch /\ h0 \in 1 .. Len(grown[S0]) /\ s0 \in 1 .. Len(grown[S0][h0])
            /\ column' = Put(grown, S0, h0, s0, e)
        BY <3>7, <3>8, <1>5
      <4> HIDE DEF S0, h0, s0
      <4>2. DifferAt(column', grown, S0, h0, s0, e)
        BY <4>1, <3>5, <1>5, PutOK
      <4> QED
        BY <4>2 DEF S0, h0, s0
    <3>10. \A T \in Arch : T # S => column'[T] = column[T]
      <4> HIDE DEF S, h, s
      <4>1. column' = [grown EXCEPT ![S] = [grown[S] EXCEPT ![h] = [@ EXCEPT ![s] = e]]]
        BY <3>8, Zenon DEF Put
      <4> QED
        BY <4>1, <3>5, <1>5 DEF Columns
    <3>11. \A T \in Arch : column'[T] # <<>> => Manages(T)
      BY <3>10, <2>2, <1>4
    <3>12. \A T \in Arch : \A i, j :
             Cell(column', T, i, j) = IF T = S /\ i = h /\ j = s THEN e ELSE Cell(column, T, i, j)
      BY <3>6, <3>9 DEF DifferAt
    <3>13. column' \in Columns /\ SameSizes(column'[S], gr)
      BY <3>5, <3>9, <1>5 DEF DifferAt
    <3> QED
      BY <2>2, <3>2, <3>3, <3>10, <3>11, <3>12, <3>13
  <2> QED
    BY <2>1, <2>2
<1>8. home' = [home EXCEPT ![e] = IF Manages(S) THEN External(h, s) ELSE Anonymous]
  BY <1>2, <1>6
<1> DEFINE there == IF Manages(S) THEN External(h, s) ELSE Anonymous
<1>9. there \in Homes /\ there # NoHome
  BY <1>5, HomesDiffer DEF Homes
<1>10. /\ home' \in [Entity -> Homes] /\ home'[e] = there
       /\ \A g \in Entity : g # e => home'[g] = home[g]
  BY <1>4, <1>8, <1>9
<1> HIDE DEF gr, grown, put
\* Two entities do not have the same slot.
<1>11. ASSUME NEW g \in alive
       PROVE  Settled(Storage, info[g], g)'
  <2>1. Settled(Storage, info[g], g) /\ info[g].phys \in Arch /\ g \in Entity
    BY <1>4, <1>5 DEF DbEntity, SlotTypes
  <2>2. CASE g = e
    <3>1. Manages(S) => Cell(column', S, h, s) = e
      BY <1>5, <1>7
    <3> QED
      BY <2>2, <3>1, <1>1, <1>10 DEF Settled, Storage
  <2>3. CASE g # e
    <3>1. home'[g] = home[g]
      BY <2>1, <2>3, <1>10
    <3>2. ASSUME Manages(info[g].phys)
          PROVE  ~ (info[g].phys = S /\ info[g].heap = h /\ info[g].slot = s)
      <4>1. info[g].phys # Root
        BY <3>2 DEF Manages, Root
      <4> QED
        BY <4>1, <2>3, <1>1, <1>5 DEF SlotsMirror
    <3>3. ASSUME Manages(info[g].phys)
          PROVE  Cell(column', info[g].phys, info[g].heap, info[g].slot)
                   = Cell(column, info[g].phys, info[g].heap, info[g].slot)
      BY <3>2, <3>3, <2>1, <1>7
    <3> QED
      BY <3>1, <3>3, <2>1, <1>1 DEF Settled, Storage
  <2> QED
    BY <2>2, <2>3
<1>12. ASSUME NEW T \in Arch, NEW i, NEW j, Cell(column', T, i, j) # PLACEHOLDER
       PROVE  OwnerOK(Storage, info, T, i, j, Cell(column, T, i, j))'
  <2>1. CASE Manages(S) /\ T = S /\ i = h /\ j = s
    <3>1. Cell(column', T, i, j) = e
      BY <2>1, <1>7
    <3> QED
      BY <3>1, <2>1, <1>1, <1>10 DEF OwnerOK, Storage
  <2>2. CASE ~ (Manages(S) /\ T = S /\ i = h /\ j = s)
    <3> DEFINE g == Cell(column, T, i, j)
    <3>1. Cell(column', T, i, j) = g
      BY <2>2, <1>7
    <3>2. OwnerOK(Storage, info, T, i, j, g)
      BY <3>1, <1>4, <1>12
    <3> HIDE DEF g
    <3>3. /\ home[g] = External(i, j) /\ g \in alive /\ info[g].phys = T
      BY <3>2, <1>1 DEF OwnerOK, Storage
    <3>4. g # e /\ g \in Entity
      BY <3>3, <1>1, <1>5, HomesDiffer DEF SlotTypes
    <3>5. home'[g] = External(i, j)
      BY <3>3, <3>4, <1>10
    <3> QED
      BY <3>1, <3>3, <3>5, <1>1 DEF OwnerOK, Storage
  <2> QED
    BY <2>1, <2>2
<1>13. StorageOK(Storage, info)'
  <2>1. (Storage \in [home : [Entity -> Homes], column : Columns, failed : {FALSE}])'
    BY <1>1, <1>4, <1>7, <1>10 DEF Storage
  <2>2. (\A T \in Arch : Storage.column[T] # <<>> => Manages(T))'
    BY <1>7 DEF Storage
  <2>3. (\A g \in alive : Settled(Storage, info[g], g))'
    BY <1>1, <1>11
  <2>4. (\A T \in Arch : \A i, j : Cell(Storage.column, T, i, j) # PLACEHOLDER =>
           OwnerOK(Storage, info, T, i, j, Cell(Storage.column, T, i, j)))'
    BY <1>12 DEF Storage
  <2> QED
    BY <2>1, <2>2, <2>3, <2>4 DEF StorageOK
<1>14. SizesOK'
  <2> SUFFICES ASSUME NEW T \in Arch
               PROVE  Fits(column'[T], list[T].heaps) /\ ~ (Len(column'[T]) > Len(list[T].heaps))
    BY <1>1 DEF SizesOK
  <2>1. /\ list[T].heaps \in Heaps /\ Fits(column[T], list[T].heaps)
        /\ column'[T] \in Heaps /\ column[T] \in Heaps
        /\ Len(list[T].heaps) \in Nat /\ Len(column[T]) \in Nat /\ Len(column'[T]) \in Nat
        /\ ~ (Len(column[T]) > Len(list[T].heaps))
    BY <1>1, <1>3, <1>5, <1>7, ListParts, HeapsLen DEF SizesOK, Heaps, Columns
  <2>2. CASE T # S \/ ~Manages(S)
    BY <2>1, <2>2, <1>7
  <2>3. CASE T = S /\ Manages(S)
    <3>1. /\ SameSizes(column'[T], gr) /\ gr \in Heaps /\ Fits(gr, list[T].heaps)
          /\ Len(gr) = IF Len(column[T]) < h THEN h ELSE Len(column[T])
          /\ h \in 1 .. Len(list[T].heaps)
      BY <2>3, <1>7
    <3>2. Shorter(list[T].heaps, list[T].heaps)
      BY <2>1, HeapsLen DEF Shorter
    <3>3. Fits(column'[T], list[T].heaps)
      BY <3>1, <3>2, <2>1, ShorterFits DEF SameSizes
    <3>4. Len(column'[T]) = Len(gr)
      BY <3>1, <2>1, SameSizesOf
    <3> QED
      BY <3>1, <3>3, <3>4, <2>1
  <2> QED
    BY <2>2, <2>3
<1>15. OwnersOK'
  <2>1. /\ comp_list' \subseteq alive' /\ dtors' \subseteq spawned' \ alive'
        /\ (dtors' # {} => pc' = "idle")
    BY <1>1, <1>3 DEF OwnersOK
  <2>2. \A g \in Entity : home'[g] # NoHome => g \in alive' \cup dtors'
    BY <1>1, <1>3, <1>10 DEF OwnersOK
  <2>3. \A g \in alive : home'[g] # NoHome <=> g \in comp_list'
    BY <1>1, <1>3, <1>5, <1>9, <1>10 DEF OwnersOK, SlotTypes
  <2> QED
    BY <2>1, <2>2, <2>3, <1>1 DEF OwnersOK
<1> QED
  BY <1>13, <1>14, <1>15 DEF StorageInv

\* Emptying the slots of e changes no size.
LEMMA EmptiedOK ==
  ASSUME column \in Columns, NEW e
  PROVE  /\ Emptied(e) \in Columns
         /\ \A S \in Arch : SameSizes(Emptied(e)[S], column[S])
         /\ \A S \in Arch : \A h, s :
              Cell(Emptied(e), S, h, s) =
                IF Cell(column, S, h, s) = e THEN PLACEHOLDER ELSE Cell(column, S, h, s)
<1> DEFINE new == Emptied(e)
           heap(c, h) == [s \in DOMAIN c[h] |-> IF c[h][s] = e THEN PLACEHOLDER ELSE c[h][s]]
           cut(c) == [h \in DOMAIN c |-> heap(c, h)]
<1>1. new = [S \in Arch |-> cut(column[S])]
  BY DEF Emptied
<1>2. ASSUME NEW c \in Heaps, NEW h \in 1 .. Len(c)
      PROVE  /\ heap(c, h) \in Seq(Content) /\ Len(heap(c, h)) = Len(c[h])
             /\ \A s \in 1 .. Len(c[h]) :
                  heap(c, h)[s] = IF c[h][s] = e THEN PLACEHOLDER ELSE c[h][s]
  <2>1. c[h] \in Seq(Content) /\ Len(c[h]) \in Nat /\ DOMAIN c[h] = 1 .. Len(c[h])
    BY HeapsLen
  <2>2. \A s \in 1 .. Len(c[h]) : c[h][s] \in Content
    BY <2>1, ElementOfSeq
  <2>3. heap(c, h) \in [1 .. Len(c[h]) -> Content]
    BY <2>1, <2>2 DEF Content
  <2> QED
    BY <2>1, <2>3, IsASeq, LenProperties
<1>3. ASSUME NEW c \in Heaps
      PROVE  /\ cut(c) \in Heaps /\ Len(cut(c)) = Len(c)
             /\ \A h \in 1 .. Len(c) : cut(c)[h] = heap(c, h)
  <2> DEFINE SC == Seq(Content)
             k == cut(c)
  <2>1. Len(c) \in Nat /\ DOMAIN c = 1 .. Len(c)
    BY HeapsLen
  <2>2. \A h \in 1 .. Len(c) : k[h] = heap(c, h) /\ k[h] \in SC
    BY <1>2, <2>1
  <2>3. DOMAIN k = 1 .. Len(c) /\ k = [h \in 1 .. Len(c) |-> k[h]]
    BY <2>1
  <2> HIDE DEF SC, k, heap
  <2>4. k \in [1 .. Len(c) -> SC]
    BY <2>2, <2>3
  <2>5. k \in Seq(SC) /\ Len(k) = Len(c)
    BY <2>1, <2>4, IsASeq, LenProperties
  <2> QED
    BY <2>2, <2>5 DEF SC, k, Heaps
<1> HIDE DEF new, cut, heap
<1>4. \A S \in Arch : column[S] \in Heaps /\ new[S] = cut(column[S]) /\ new[S] \in Heaps
  BY <1>1, <1>3 DEF Columns
<1>5. new \in Columns
  BY <1>1, <1>4 DEF Columns
<1>6. ASSUME NEW S \in Arch
      PROVE  SameSizes(new[S], column[S])
  BY <1>2, <1>3, <1>4, SameSizesOf
<1>7. ASSUME NEW S \in Arch, NEW h, NEW s
      PROVE  Cell(new, S, h, s) = IF Cell(column, S, h, s) = e THEN PLACEHOLDER ELSE Cell(column, S, h, s)
  <2> DEFINE c == column[S]
  <2>1. c \in Heaps /\ new[S] = cut(c) /\ Len(cut(c)) = Len(c)
    BY <1>3, <1>4
  <2>2. CASE h \in 1 .. Len(c) /\ s \in 1 .. Len(c[h])
    <3>1. cut(c)[h] = heap(c, h) /\ Len(heap(c, h)) = Len(c[h])
          /\ heap(c, h)[s] = IF c[h][s] = e THEN PLACEHOLDER ELSE c[h][s]
      BY <2>1, <2>2, <1>2, <1>3
    <3> QED
      BY <2>1, <2>2, <3>1 DEF Cell, CellOf
  <2>3. CASE ~ (h \in 1 .. Len(c) /\ s \in 1 .. Len(c[h]))
    <3>1. h \in 1 .. Len(c) => Len(new[S][h]) = Len(c[h])
      BY <2>1, <1>2, <1>3
    <3> QED
      BY <2>1, <2>3, <3>1 DEF Cell, CellOf
  <2> QED
    BY <2>2, <2>3
<1> QED
  BY <1>5, <1>6, <1>7 DEF new

\* The storage without the component of e, which has left the mappings; e is alive, or
\* waits for its destructor.
LEMMA StorageWithout ==
  ASSUME SlotInv, StorageInv, NEW e \in Entity,
         home' = [home EXCEPT ![e] = NoHome], column' = Emptied(e), failed' = failed,
         info' = info, list' = list, dead' = dead, alive' = alive, spawned' = spawned,
         pc' = pc, trunc' = trunc, dtors' = dtors \ {e}, comp_list' = comp_list \ {e}
  PROVE  StorageInv'
<1>1. StorageOK(Storage, info) /\ SizesOK /\ OwnersOK
  BY DEF StorageInv
<1>2. /\ home \in [Entity -> Homes] /\ column \in Columns /\ failed = FALSE
      /\ \A T \in Arch : column[T] # <<>> => Manages(T)
      /\ \A g \in alive : Settled(Storage, info[g], g)
      /\ \A T \in Arch : \A i, j : Cell(column, T, i, j) # PLACEHOLDER =>
           OwnerOK(Storage, info, T, i, j, Cell(column, T, i, j))
  BY <1>1 DEF StorageOK, Storage
<1>3. /\ column' \in Columns
      /\ \A S \in Arch : SameSizes(column'[S], column[S])
      /\ \A S \in Arch : \A h, s :
           Cell(column', S, h, s) =
             IF Cell(column, S, h, s) = e THEN PLACEHOLDER ELSE Cell(column, S, h, s)
  BY <1>2, EmptiedOK
<1>4. /\ home' \in [Entity -> Homes] /\ home'[e] = NoHome
      /\ \A g \in Entity : g # e => home'[g] = home[g]
  BY <1>2 DEF Homes
<1>5. \A T \in Arch : column[T] \in Heaps /\ column'[T] \in Heaps /\ ListOK(list[T])
      /\ list[T].heaps \in Heaps
  BY <1>2, <1>3, ListParts DEF SlotInv, SlotTypes, Columns, Heaps
<1>6. alive \subseteq Entity /\ spawned \subseteq Entity
      /\ \A g \in alive : info[g].phys \in Arch
  BY DEF SlotInv, SlotTypes, DbEntity
<1>7. ASSUME NEW T \in Arch, column'[T] # <<>>
      PROVE  Manages(T)
  <2>1. SameSizes(column'[T], column[T]) /\ column[T] \in Heaps /\ column'[T] \in Heaps
    BY <1>3, <1>5
  <2>2. Len(column'[T]) = Len(column[T]) /\ Len(column'[T]) # 0
    BY <2>1, <1>7, SameSizesOf, HeapsLen
  <2>3. column[T] # <<>>
    BY <2>1, <2>2, HeapsLen
  <2> QED
    BY <2>3, <1>2
<1>8. ASSUME NEW g \in alive
      PROVE  Settled(Storage, info[g], g)'
  <2>1. CASE g = e
    BY <2>1, <1>4 DEF Settled, Storage
  <2>2. CASE g # e
    <3>1. /\ home'[g] = home[g] /\ Settled(Storage, info[g], g) /\ info[g].phys \in Arch
      BY <2>2, <1>2, <1>4, <1>6
    <3>2. Cell(column, info[g].phys, info[g].heap, info[g].slot) = g =>
            Cell(column', info[g].phys, info[g].heap, info[g].slot) = g
      BY <2>2, <3>1, <1>3
    <3> QED
      BY <3>1, <3>2 DEF Settled, Storage
  <2> QED
    BY <2>1, <2>2
<1>9. ASSUME NEW T \in Arch, NEW i, NEW j, Cell(column', T, i, j) # PLACEHOLDER
      PROVE  OwnerOK(Storage, info, T, i, j, Cell(column, T, i, j))'
  <2> DEFINE g == Cell(column, T, i, j)
  <2>1. Cell(column', T, i, j) = g /\ g # e /\ g # PLACEHOLDER
    BY <1>3, <1>9
  <2>2. OwnerOK(Storage, info, T, i, j, g)
    BY <2>1, <1>2
  <2> HIDE DEF g
  <2>3. g \in Entity
    BY <2>2, <1>1, <1>6 DEF OwnerOK, OwnersOK
  <2>4. home'[g] = home[g]
    BY <2>1, <2>3, <1>4
  <2> QED
    BY <2>1, <2>2, <2>4 DEF OwnerOK, Storage
<1>10. StorageOK(Storage, info)'
  <2>1. (Storage \in [home : [Entity -> Homes], column : Columns, failed : {FALSE}])'
    BY <1>2, <1>3, <1>4 DEF Storage
  <2>2. (\A T \in Arch : Storage.column[T] # <<>> => Manages(T))'
    BY <1>7 DEF Storage
  <2>3. (\A g \in alive : Settled(Storage, info[g], g))'
    BY <1>8
  <2>4. (\A T \in Arch : \A i, j : Cell(Storage.column, T, i, j) # PLACEHOLDER =>
           OwnerOK(Storage, info, T, i, j, Cell(Storage.column, T, i, j)))'
    BY <1>9 DEF Storage
  <2> QED
    BY <2>1, <2>2, <2>3, <2>4 DEF StorageOK
<1>11. SizesOK'
  <2> SUFFICES ASSUME NEW T \in Arch
               PROVE  /\ Fits(column'[T], list[T].heaps)
                      /\ Len(column'[T]) = Len(column[T])
    BY <1>1 DEF SizesOK
  <2>1. /\ SameSizes(column'[T], column[T]) /\ column[T] \in Heaps /\ column'[T] \in Heaps
        /\ list[T].heaps \in Heaps /\ Fits(column[T], list[T].heaps)
    BY <1>1, <1>3, <1>5 DEF SizesOK
  <2>2. Shorter(list[T].heaps, list[T].heaps)
    BY <2>1, HeapsLen DEF Shorter
  <2>3. Fits(column'[T], list[T].heaps)
    BY <2>1, <2>2, ShorterFits DEF SameSizes
  <2> QED
    BY <2>1, <2>3, SameSizesOf
<1>12. OwnersOK'
  <2>1. /\ comp_list' \subseteq alive' /\ dtors' \subseteq spawned' \ alive'
        /\ (dtors' # {} => pc' = "idle")
    BY <1>1 DEF OwnersOK
  <2>2. \A g \in Entity : home'[g] # NoHome => g \in alive' \cup dtors'
    BY <1>1, <1>4 DEF OwnersOK
  <2>3. \A g \in alive' : home'[g] # NoHome <=> g \in comp_list'
    BY <1>1, <1>4, <1>6 DEF OwnersOK
  <2> QED
    BY <2>1, <2>2, <2>3 DEF OwnersOK
<1> QED
  BY <1>10, <1>11, <1>12 DEF StorageInv

\* A component removed, and one destroyed after its entity.
LEMMA StorageRemove ==
  ASSUME SlotInv, StorageInv, ~Reentrant, NEW e \in Entity, RemoveComponent(e) \/ RunDtor(e)
  PROVE  StorageInv'
<1>1. CASE RemoveComponent(e)
  <2>1. /\ home' = [home EXCEPT ![e] = NoHome] /\ column' = Emptied(e) /\ failed' = failed
        /\ info' = info /\ list' = list /\ dead' = dead /\ alive' = alive /\ spawned' = spawned
        /\ pc' = pc /\ trunc' = trunc /\ dtors' = dtors /\ comp_list' = comp_list \ {e}
        /\ dtors = {}
    BY <1>1 DEF RemoveComponent, Callable, vars
  <2>2. dtors' = dtors \ {e}
    BY <2>1
  <2> QED
    BY <2>1, <2>2, StorageWithout
<1>2. CASE RunDtor(e)
  <2>1. /\ home' = [home EXCEPT ![e] = NoHome] /\ column' = Emptied(e) /\ failed' = failed
        /\ info' = info /\ list' = list /\ dead' = dead /\ alive' = alive /\ spawned' = spawned
        /\ pc' = pc /\ trunc' = trunc /\ dtors' = dtors \ {e} /\ comp_list' = comp_list
        /\ e \in dtors
    BY <1>2 DEF RunDtor, vars
  <2>2. comp_list' = comp_list \ {e}
    BY <2>1 DEF StorageInv, OwnersOK
  <2> QED
    BY <2>1, <2>2, StorageWithout
<1> QED
  BY <1>1, <1>2

\* destroy(): the entity is gone before its component, whose owner now waits both for
\* its destructor and for its cleanup.
LEMMA StorageDestroy ==
  ASSUME SlotInv, StorageInv, ~Reentrant, NEW e \in Entity, Destroy(e)
  PROVE  StorageInv'
<1>1. DespawnEntity(e) /\ dtors = {}
  BY DEF Destroy, Callable
<1>2. /\ e \in alive /\ pc = "idle" /\ pc' = pc /\ trunc' = trunc /\ list' = list
      /\ alive' = alive \ {e} /\ spawned' = spawned
      /\ info' = [info EXCEPT ![e] = NewEntity] /\ dead' = Buried(e)
  BY <1>1 DEF DespawnEntity, flushVars
<1>3. /\ home' = home /\ column' = column /\ failed' = failed
      /\ dtors' = IF e \in comp_list THEN {e} ELSE {}
      /\ comp_list' = comp_list \ {e}
  BY <1>1 DEF Destroy
<1>4. StorageOK(Storage, info) /\ SizesOK /\ OwnersOK
  BY DEF StorageInv
<1>5. /\ Storage \in [home : [Entity -> Homes], column : Columns, failed : {FALSE}]
      /\ \A T \in Arch : column[T] # <<>> => Manages(T)
      /\ \A g \in alive : Settled(Storage, info[g], g)
      /\ \A T \in Arch : \A i, j : Cell(column, T, i, j) # PLACEHOLDER =>
           OwnerOK(Storage, info, T, i, j, Cell(column, T, i, j))
      /\ column \in Columns
  BY <1>4 DEF StorageOK, Storage
<1>6. /\ alive \subseteq Entity /\ alive \subseteq spawned /\ info \in [Entity -> DbEntity]
      /\ dead \in Seq(DbDirtyDeadEntity)
  BY DEF SlotInv, SlotTypes
<1>7. \A g \in alive' : g \in alive /\ g # e /\ info'[g] = info[g]
  BY <1>2, <1>6
<1>8. ASSUME NEW T \in Arch, NEW i, NEW j, Cell(column, T, i, j) # PLACEHOLDER
      PROVE  OwnerOK(Storage, info, T, i, j, Cell(column, T, i, j))'
  <2> DEFINE g == Cell(column, T, i, j)
  <2>1. OwnerOK(Storage, info, T, i, j, g)
    BY <1>5, <1>8
  <2>2. g \in alive /\ home[g] = External(i, j) /\ info[g].phys = T
    BY <2>1, <1>1 DEF OwnerOK, Storage
  <2>3. CASE g # e
    BY <2>2, <2>3, <1>2, <1>3, <1>7 DEF OwnerOK, Storage
  <2>4. CASE g = e
    <3>1. Manages(T)
      <4>1. i \in 1 .. Len(column[T])
        BY <1>8 DEF Cell, CellOf
      <4>2. column[T] # <<>>
        BY <4>1, <1>5, HeapsLen DEF Columns
      <4> QED
        BY <4>2, <1>5
    <3> HIDE DEF g
    <3>2. info[e].heap = i /\ info[e].slot = j
      <4>1. Settled(Storage, info[e], e) /\ home[e] = External(i, j) /\ Manages(info[e].phys)
        BY <2>2, <2>4, <3>1, <1>2, <1>5
      <4> QED
        BY <4>1, HomesDiffer DEF Settled, Storage
    <3>3. T # Root
      BY <3>1 DEF Manages, Root
    <3> DEFINE item == [entity |-> e, arch |-> T, heap |-> i, slot |-> j]
    <3>4. dead' = Append(dead, item)
      BY <2>2, <2>4, <3>2, <3>3, <1>2 DEF Buried, BuryAs
    <3>5. item \in Items(dead')
      <4>1. item \in DbDirtyDeadEntity
        BY <2>2, <2>4, <3>2, <1>2, <1>6 DEF DbDirtyDeadEntity, DbEntity
      <4> HIDE DEF item
      <4>2. /\ Len(dead) \in Nat /\ Len(dead') = Len(dead) + 1 /\ dead'[Len(dead) + 1] = item
            /\ dead' \in Seq(DbDirtyDeadEntity)
        BY <4>1, <3>4, <1>6, AppendProperties, LenProperties
      <4>3. Len(dead) + 1 \in DOMAIN dead'
        BY <4>2, LenProperties
      <4> QED
        BY <4>2, <4>3 DEF Items
    <3>6. e \in comp_list
      BY <2>2, <2>4, <1>2, <1>4, HomesDiffer DEF OwnersOK
    <3>7. e \in dtors' /\ e \notin alive'
      BY <3>6, <1>2, <1>3
    <3> QED
      BY <2>2, <2>4, <3>5, <3>7, <1>3 DEF OwnerOK, Storage, g
  <2> QED
    BY <2>3, <2>4
<1>9. StorageOK(Storage, info)'
  <2>1. Storage' = Storage /\ Storage.column = column
    BY <1>3 DEF Storage
  <2>2. (\A g \in alive : Settled(Storage, info[g], g))'
    BY <2>1, <1>5, <1>7 DEF Settled
  <2>3. (\A T \in Arch : \A i, j : Cell(Storage.column, T, i, j) # PLACEHOLDER =>
           OwnerOK(Storage, info, T, i, j, Cell(Storage.column, T, i, j)))'
    BY <1>3, <1>8 DEF Storage
  <2> QED
    BY <2>1, <2>2, <2>3, <1>5 DEF StorageOK
<1>10. SizesOK'
  BY <1>2, <1>3, <1>4 DEF SizesOK
<1>11. OwnersOK'
  <2>1. comp_list' \subseteq alive' /\ dtors' \subseteq spawned' \ alive' /\ pc' = "idle"
    BY <1>2, <1>3, <1>4, <1>6 DEF OwnersOK
  <2>2. \A g \in Entity : home[g] # NoHome => g \in alive
    BY <1>1, <1>4 DEF OwnersOK
  <2>3. \A g \in Entity : home'[g] # NoHome => g \in alive' \cup dtors'
    BY <2>2, <1>2, <1>3, <1>4 DEF OwnersOK
  <2>4. \A g \in alive' : home'[g] # NoHome <=> g \in comp_list'
    BY <1>2, <1>3, <1>4 DEF OwnersOK
  <2> QED
    BY <2>1, <2>3, <2>4 DEF OwnersOK
<1> QED
  BY <1>9, <1>10, <1>11 DEF StorageInv

\* Steps which leave the lists, the storage and the place of every entity alone.
LEMMA StorageFrame ==
  ASSUME StorageInv, UNCHANGED storageVars, list' = list, dtors = {} \/ pc' = "idle",
         alive \subseteq alive', alive' \subseteq Entity, spawned \subseteq spawned',
         alive \subseteq Entity,
         \A g \in alive : /\ info'[g].phys = info[g].phys
                          /\ info'[g].heap = info[g].heap /\ info'[g].slot = info[g].slot,
         \A g \in alive' : g \notin alive => g \notin spawned /\ dtors = {},
         dtors = {} \/ dead' = dead,
         trunc' = trunc, pc \in {"dead", "alive"} => pc' \in {"dead", "alive"}
  PROVE  StorageInv'
<1>1. /\ home' = home /\ column' = column /\ failed' = failed /\ dtors' = dtors
      /\ comp_list' = comp_list /\ Storage' = Storage
  BY DEF storageVars, Storage
<1>2. StorageOK(Storage, info) /\ SizesOK /\ OwnersOK
  BY DEF StorageInv
<1>3. /\ Storage \in [home : [Entity -> Homes], column : Columns, failed : {FALSE}]
      /\ \A T \in Arch : Storage.column[T] # <<>> => Manages(T)
      /\ \A g \in alive : Settled(Storage, info[g], g)
      /\ \A T \in Arch : \A i, j : Cell(Storage.column, T, i, j) # PLACEHOLDER =>
           OwnerOK(Storage, info, T, i, j, Cell(Storage.column, T, i, j))
      /\ Storage.home = home
  BY <1>2 DEF StorageOK, Storage
\* Whoever is spawned has no component yet.
<1>4. ASSUME NEW g \in alive', g \notin alive
      PROVE  home[g] = NoHome
  BY <1>2, <1>4 DEF OwnersOK
<1>5. ASSUME NEW g \in alive'
      PROVE  Settled(Storage, info[g], g)'
  <2>1. CASE g \in alive
    BY <2>1, <1>1, <1>3 DEF Settled
  <2>2. CASE g \notin alive
    BY <2>2, <1>1, <1>3, <1>4 DEF Settled
  <2> QED
    BY <2>1, <2>2
<1>6. ASSUME NEW T, NEW i, NEW j, NEW g, OwnerOK(Storage, info, T, i, j, g)
      PROVE  OwnerOK(Storage, info, T, i, j, g)'
  <2>1. CASE g \in alive
    BY <2>1, <1>1, <1>6 DEF OwnerOK
  <2>2. CASE g \notin alive
    <3>1. /\ g \in dtors /\ Storage.home[g] = External(i, j)
          /\ [entity |-> g, arch |-> T, heap |-> i, slot |-> j] \in Items(dead)
      BY <2>2, <1>6 DEF OwnerOK
    <3>2. dead' = dead /\ g \notin alive'
      BY <2>2, <3>1
    <3> QED
      BY <3>1, <3>2, <1>1 DEF OwnerOK
  <2> QED
    BY <2>1, <2>2
<1>7. StorageOK(Storage, info)'
  <2>1. (\A g \in alive : Settled(Storage, info[g], g))'
    BY <1>5
  <2>2. (\A T \in Arch : \A i, j : Cell(Storage.column, T, i, j) # PLACEHOLDER =>
           OwnerOK(Storage, info, T, i, j, Cell(Storage.column, T, i, j)))'
    BY <1>1, <1>3, <1>6
  <2> QED
    BY <2>1, <2>2, <1>1, <1>3 DEF StorageOK
<1>8. SizesOK'
  BY <1>1, <1>2 DEF SizesOK
<1>9. OwnersOK'
  <2>1. comp_list' \subseteq alive' /\ dtors' \subseteq spawned' \ alive'
    BY <1>1, <1>2 DEF OwnersOK
  <2>2. dtors' # {} => pc' = "idle"
    BY <1>1
  <2>3. \A g \in Entity : home'[g] # NoHome => g \in alive' \cup dtors'
    BY <1>1, <1>2 DEF OwnersOK
  <2>4. \A g \in alive' : home'[g] # NoHome <=> g \in comp_list'
    BY <1>1, <1>2, <1>4 DEF OwnersOK
  <2> QED
    BY <2>1, <2>2, <2>3, <2>4 DEF OwnersOK
<1> QED
  BY <1>7, <1>8, <1>9 DEF StorageInv

-----------------------------------------------------------------------------
(* The theorems.                                                           *)

\* Every step of the storage is a step of the database, or none.
LEMMA DatabaseStep == [StorageNext]_allVars => [Next]_vars
<1> SUFFICES ASSUME [StorageNext]_allVars PROVE [Next]_vars
  OBVIOUS
<1>1. CASE UNCHANGED allVars
  BY <1>1 DEF allVars
<1>2. CASE \E e \in Entity : InsertComponent(e) \/ RemoveComponent(e) \/ RunDtor(e)
  BY <1>2 DEF InsertComponent, RemoveComponent, RunDtor
<1>3. CASE \E e \in Entity : Destroy(e)
  BY <1>3 DEF Destroy, Next
<1>4. CASE FlushDeadStorage \/ FlushMoveStorage \/ FlushTruncateStorage
  BY <1>4 DEF FlushDeadStorage, FlushMoveStorage, FlushTruncateStorage, Next, FlushStep
<1>5. CASE DatabaseOnly
  BY <1>5 DEF DatabaseOnly, Next, FlushStep
<1>6. CASE Stopped
  BY <1>6 DEF Stopped, allVars
<1> QED
  BY <1>1, <1>2, <1>3, <1>4, <1>5, <1>6 DEF StorageNext

\* Nothing has a component at first.
LEMMA StorageInitOK == StorageInit => StorageInv
<1> SUFFICES ASSUME StorageInit PROVE StorageInv
  OBVIOUS
<1> USE DEF StorageInit, Init
<1>1. <<>> \in Heaps /\ Len(<<>>) = 0
  BY EmptyLen, EmptySeq DEF Heaps
<1>2. \A S \in Arch : column[S] = <<>> /\ list[S].heaps = <<>>
  BY DEF EmptyList
<1>3. \A S \in Arch : \A h, s : Cell(column, S, h, s) = PLACEHOLDER
  BY <1>1, <1>2 DEF Cell, CellOf
<1>4. Storage \in [home : [Entity -> Homes], column : Columns, failed : {FALSE}]
  <2>1. NoHome \in Homes
    BY DEF Homes
  <2> QED
    BY <1>1, <2>1 DEF Storage, Columns
<1>5. StorageOK(Storage, info)
  BY <1>2, <1>3, <1>4 DEF StorageOK, Storage
<1>6. SizesOK
  <2>1. Fits(<<>>, <<>>)
    BY <1>1 DEF Fits, Doubling
  <2> QED
    BY <1>1, <1>2, <2>1 DEF SizesOK
<1>7. OwnersOK
  BY DEF OwnersOK
<1> QED
  BY <1>5, <1>6, <1>7 DEF StorageInv

\* No call of the database's own disturbs the storage.
LEMMA StorageDatabaseOnly ==
  ASSUME SlotInv, SlotInv', StorageInv, ~Reentrant, DatabaseOnly
  PROVE  StorageInv'
<1> USE DEF entityVars, graphVars, flushVars
<1>1. UNCHANGED storageVars
  BY DEF DatabaseOnly
<1>2. /\ alive \subseteq Entity /\ alive \subseteq spawned /\ spawned \subseteq Entity
      /\ alive' \subseteq Entity /\ info \in [Entity -> DbEntity]
  BY DEF SlotInv, SlotTypes
<1>3. Callable => dtors = {}
  BY DEF Callable
<1>4. pc # "idle" => dtors = {}
  BY DEF StorageInv, OwnersOK
<1>5. CASE Callable /\ \E e \in Entity : SpawnEntity(e)
  <2>1. PICK e \in Entity : SpawnEntity(e)
    BY <1>5
  <2>2. /\ e \notin spawned /\ spawned' = spawned \cup {e} /\ alive' = alive \cup {e}
        /\ info' = [info EXCEPT ![e] = NewEntity] /\ list' = list /\ dead' = dead
        /\ trunc' = trunc /\ pc = "idle"
    BY <2>1 DEF SpawnEntity
  <2>3. \A g \in alive : info'[g] = info[g]
    BY <2>2, <1>2
  <2> QED
    BY <2>2, <2>3, <1>1, <1>2, <1>3, <1>5, StorageFrame
<1>6. CASE /\ Callable
           /\ \/ \E e \in Entity, t \in Tag : TagEntity(e, t)
              \/ \E e \in Entity, t \in Tag : UntagEntity(e, t)
  <2>1. PICK e, new, ar, ex : SetVirtual(e, new, ar, ex) /\ pc = "idle"
    BY <1>6 DEF TagEntity, UntagEntity
  <2>2. /\ info' = [info EXCEPT ![e] = [@ EXCEPT !.virt = new]]
        /\ spawned' = spawned /\ alive' = alive /\ list' = list /\ dead' = dead /\ trunc' = trunc
    BY <2>1, Zenon DEF SetVirtual
  <2>3. \A g \in alive : /\ info'[g].phys = info[g].phys
                         /\ info'[g].heap = info[g].heap /\ info'[g].slot = info[g].slot
    BY <2>2, <1>2 DEF DbEntity
  <2> QED
    BY <2>1, <2>2, <2>3, <1>1, <1>2, <1>3, <1>6, StorageFrame
<1>7. CASE Callable /\ (BeginQuery \/ EndQuery \/ FlushBegin)
  <2>1. /\ UNCHANGED <<spawned, alive, info, list, dead, trunc>> /\ pc = "idle"
    BY <1>7 DEF BeginQuery, EndQuery, FlushBegin
  <2> QED
    BY <2>1, <1>1, <1>2, <1>3, <1>7, StorageFrame
<1>8. CASE FlushDeadDone \/ FlushSkip \/ (\E S \in del : FlushDelete(S)) \/ FlushEnd
  <2>1. /\ UNCHANGED <<spawned, alive, info, list, dead, trunc>> /\ pc # "idle"
        /\ pc \in {"dead", "alive"} => pc' \in {"dead", "alive"}
    BY <1>8 DEF FlushDeadDone, FlushSkip, FlushDelete, FlushEnd
  <2> QED
    BY <2>1, <1>1, <1>2, <1>4, StorageFrame
<1> QED
  BY <1>5, <1>6, <1>7, <1>8 DEF DatabaseOnly

\* Every step keeps the storage in order.
LEMMA StorageStep ==
  ASSUME SlotInv, SlotInv', StorageInv, ~Reentrant, [StorageNext]_allVars
  PROVE  StorageInv'
<1>1. CASE UNCHANGED allVars
  <2>1. UNCHANGED <<spawned, alive, info, list, dead, pc, trunc>> /\ UNCHANGED storageVars
    BY <1>1 DEF allVars, vars
  <2> QED
    BY <2>1 DEF StorageInv, storageVars, StorageOK, SizesOK, OwnersOK, Storage, Settled, OwnerOK,
                Cell, CellOf
<1>2. CASE \E e \in Entity : InsertComponent(e)
  BY <1>2, StorageInsert
<1>3. CASE \E e \in Entity : RemoveComponent(e) \/ RunDtor(e)
  BY <1>3, StorageRemove
<1>4. CASE \E e \in Entity : Destroy(e)
  BY <1>4, StorageDestroy
<1>5. CASE FlushDeadStorage
  BY <1>5, StorageFlushDead
<1>6. CASE FlushMoveStorage
  BY <1>6, StorageFlushMove
<1>7. CASE FlushTruncateStorage
  BY <1>7, StorageFlushTruncate
<1>8. CASE DatabaseOnly
  BY <1>8, StorageDatabaseOnly
<1>9. CASE Stopped
  BY <1>9, <1>1 DEF Stopped
<1> QED
  BY <1>2, <1>3, <1>4, <1>5, <1>6, <1>7, <1>8, <1>9, <1>1 DEF StorageNext

\* The database with its storage is a database: what Database promises still holds.
THEOREM StorageIsDatabase == StorageSpec => Spec
<1>1. StorageInit => Init
  BY DEF StorageInit
<1> QED
  BY <1>1, DatabaseStep, PTL DEF StorageSpec, Spec

\* The invariant holds of every reachable state.
LEMMA StorageInvariant == ASSUME ~Reentrant PROVE StorageSpec => [](Inv /\ StorageInv)
<1>1. Inv /\ Inv' /\ StorageInv /\ [StorageNext]_allVars => StorageInv'
  BY StorageStep DEF Inv
<1>2. StorageSpec => []Inv
  BY StorageIsDatabase, Invariant, PTL
<1> QED
  BY <1>1, <1>2, StorageInitOK, PTL DEF StorageSpec

\* Every variable of the storage has its type, and where a column and the entity list
\* beside it both have a heap, the heaps have the same number of slots: a query indexes
\* both with the slot of the entity.
THEOREM StorageTypeTheorem == ASSUME ~Reentrant PROVE StorageSpec => []StorageTypeOK
<1>1. Inv /\ StorageInv => StorageTypeOK
  <2> SUFFICES ASSUME SlotInv, StorageInv PROVE StorageTypeOK
    BY DEF Inv
  <2>1. /\ home \in [Entity -> Homes] /\ column \in Columns /\ failed = FALSE
        /\ \A S \in Arch : Fits(column[S], list[S].heaps)
        /\ comp_list \subseteq Entity /\ dtors \subseteq Entity
    BY DEF StorageInv, StorageOK, Storage, SizesOK, OwnersOK, SlotInv, SlotTypes
  <2>2. Homes \subseteq [kind : {"none", "anonymous", "external"}, heap : Nat, slot : Nat]
    BY DEF Homes, NoHome, Anonymous, External, Index
  <2>3. home \in [Entity -> [kind : {"none", "anonymous", "external"}, heap : Nat, slot : Nat]]
    BY <2>1, <2>2
  <2>4. column \in [Arch -> Seq(Seq(Entity \cup {PLACEHOLDER}))]
    BY <2>1 DEF Columns, Heaps, Content
  <2>5. ASSUME NEW S \in Arch, NEW h \in DOMAIN column[S] \cap DOMAIN list[S].heaps
        PROVE  Len(column[S][h]) = Len(list[S].heaps[h])
    <3>1. /\ column[S] \in Heaps /\ ListOK(list[S])
      BY <2>1 DEF Columns, SlotInv, SlotTypes
    <3>2. h \in 1 .. Len(column[S]) /\ h \in 1 .. Len(list[S].heaps)
      BY <3>1, HeapsLen, ListParts
    <3> QED
      BY <3>2, <2>1 DEF Fits
  <2> QED
    BY <2>1, <2>3, <2>4, <2>5 DEF StorageTypeOK
<1> QED
  BY <1>1, StorageInvariant, PTL

\* The owners of a slot are in its cell.
LEMMA OwnersOf ==
  ASSUME column \in Columns, NEW S \in Arch, NEW h, NEW s
  PROVE  /\ Owners(S, h, s) \subseteq {Cell(column, S, h, s)}
         /\ Cell(column, S, h, s) # PLACEHOLDER => Owners(S, h, s) = {Cell(column, S, h, s)}
<1>1. column[S] \in Heaps
  BY DEF Columns
<1>2. DOMAIN column[S] = 1 .. Len(column[S])
      /\ \A i \in 1 .. Len(column[S]) : DOMAIN column[S][i] = 1 .. Len(column[S][i])
  BY <1>1, HeapsLen
<1> QED
  BY <1>2 DEF Owners, Cell, CellOf

\* Whoever walks a list and the column beside it finds at the slot of an entity that
\* entity's component if it has one, and never another's: through the swap-removes of
\* both halves of a flush, destruction and (un)tagging, the data stays in step.
THEOREM ColumnsAlignedTheorem == ASSUME ~Reentrant PROVE StorageSpec => []ColumnsAligned
<1>1. Inv /\ StorageInv => ColumnsAligned
  <2> SUFFICES ASSUME SlotInv, StorageInv, NEW S \in Arch, Manages(S), NEW p \in Used(list[S])
               PROVE  LET e == At(list[S], p) IN
                      /\ Owners(S, p[1], p[2]) \subseteq {e, PLACEHOLDER}
                      /\ e \in alive /\ home[e] # NoHome => Owners(S, p[1], p[2]) = {e}
    BY DEF ColumnsAligned, Inv
  <2> DEFINE e == At(list[S], p)
             g == Cell(column, S, p[1], p[2])
  <2>1. /\ column \in Columns /\ Storage.column = column /\ Storage.home = home
        /\ \A x \in alive : Settled(Storage, info[x], x)
        /\ g # PLACEHOLDER => OwnerOK(Storage, info, S, p[1], p[2], g)
    BY DEF StorageInv, StorageOK, Storage
  <2>2. /\ SlotTypes /\ SlotsMirror /\ DeadOK /\ ListOK(list[S])
    BY DEF SlotInv, SlotTypes
  <2>3. p = <<p[1], p[2]>> /\ S # Root
    BY <2>2, UsedOf DEF Manages, Root
  <2>4. ASSUME g # PLACEHOLDER
        PROVE  g = e
    <3> HIDE DEF g
    <3>1. OwnerOK(Storage, info, S, p[1], p[2], g)
      BY <2>1, <2>4
    <3>2. CASE g \in alive
      <4>1. info[g].phys = S /\ home[g] = External(p[1], p[2])
        BY <3>1, <3>2, <2>1 DEF OwnerOK
      <4>2. External(info[g].heap, info[g].slot) = External(p[1], p[2])
        BY <4>1, <3>2, <2>1, HomesDiffer DEF Settled
      <4>3. info[g].heap = p[1] /\ info[g].slot = p[2]
        BY <4>2, HomesDiffer
      <4> QED
        BY <4>1, <4>3, <3>2, <2>2, <2>3, MirrorOf
    <3>3. CASE g \notin alive
      <4>1. PICK i \in DOMAIN dead :
              dead[i] = [entity |-> g, arch |-> S, heap |-> p[1], slot |-> p[2]]
        BY <3>1, <3>3 DEF OwnerOK, Items
      <4>2. <<p[1], p[2]>> \in Used(list[S])
        BY <2>3
      <4> QED
        BY <4>1, <4>2, <2>2, <2>3 DEF DeadOK
    <3> QED
      BY <3>2, <3>3
  <2>5. ASSUME e \in alive, home[e] # NoHome
        PROVE  g = e /\ g # PLACEHOLDER
    <3>1. info[e].phys = S /\ <<info[e].heap, info[e].slot>> = p
      BY <2>2, <2>5, MirrorOf
    <3>2. Cell(column, S, p[1], p[2]) = e
      BY <3>1, <2>1, <2>5, HomesDiffer DEF Settled
    <3>3. e # PLACEHOLDER
      BY <2>2, <2>5, DatabaseAssumption DEF SlotTypes
    <3> QED
      BY <3>2, <3>3
  <2>6. /\ Owners(S, p[1], p[2]) \subseteq {g}
        /\ g # PLACEHOLDER => Owners(S, p[1], p[2]) = {g}
    BY <2>1, OwnersOf
  <2> HIDE DEF g, e
  <2> QED
    BY <2>4, <2>5, <2>6 DEF e
<1> QED
  BY <1>1, StorageInvariant, PTL

\* A component is where its mapping says and nowhere else, in a column exactly while its
\* entity is in a managing archetype: no step loses, duplicates or strands one.
THEOREM HomesExactTheorem == ASSUME ~Reentrant PROVE StorageSpec => []HomesExact
<1>1. Inv /\ StorageInv => HomesExact
  <2> SUFFICES ASSUME SlotInv, StorageInv PROVE HomesExact
    BY DEF Inv
  <2>1. /\ column \in Columns /\ Storage.column = column /\ Storage.home = home
        /\ \A e \in alive : Settled(Storage, info[e], e)
        /\ \A S \in Arch : \A h, s : Cell(column, S, h, s) # PLACEHOLDER =>
             OwnerOK(Storage, info, S, h, s, Cell(column, S, h, s))
    BY DEF StorageInv, StorageOK, Storage
  <2>2. /\ \A e \in Entity : home[e] # NoHome => e \in alive \cup dtors
        /\ \A e \in alive : home[e] # NoHome <=> e \in comp_list
    BY DEF StorageInv, OwnersOK
  <2>3. ASSUME NEW e \in alive
        PROVE  /\ home[e].kind = "external" <=> home[e] # NoHome /\ Manages(info[e].phys)
               /\ home[e].kind = "external" =>
                    Owners(info[e].phys, home[e].heap, home[e].slot) = {e}
    <3>1. Settled(Storage, info[e], e) /\ info[e].phys \in Arch /\ e # PLACEHOLDER
      BY <2>1, DatabaseAssumption DEF SlotInv, SlotTypes, DbEntity
    <3>2. CASE home[e] = NoHome
      BY <3>2, HomesDiffer
    <3>3. CASE ~Manages(info[e].phys) /\ home[e] = Anonymous
      BY <3>3, HomesDiffer
    <3>4. CASE /\ Manages(info[e].phys) /\ home[e] = External(info[e].heap, info[e].slot)
               /\ Cell(column, info[e].phys, info[e].heap, info[e].slot) = e
      <4>1. home[e].kind = "external" /\ home[e].heap = info[e].heap /\ home[e].slot = info[e].slot
            /\ home[e] # NoHome
        BY <3>4, HomesDiffer
      <4>2. Owners(info[e].phys, info[e].heap, info[e].slot) = {e}
        BY <3>1, <3>4, <2>1, OwnersOf
      <4> QED
        BY <4>1, <4>2, <3>4
    <3> QED
      BY <3>1, <3>2, <3>3, <3>4, <2>1 DEF Settled
  <2>4. ASSUME NEW S \in Arch, NEW h \in DOMAIN column[S], NEW s \in DOMAIN column[S][h],
               column[S][h][s] # PLACEHOLDER
        PROVE  /\ home[column[S][h][s]] = External(h, s)
               /\ column[S][h][s] \in alive => info[column[S][h][s]].phys = S
    <3>1. h \in 1 .. Len(column[S]) /\ s \in 1 .. Len(column[S][h])
      BY <2>1, HeapsLen DEF Columns
    <3>2. Cell(column, S, h, s) = column[S][h][s]
      BY <3>1 DEF Cell, CellOf
    <3>3. OwnerOK(Storage, info, S, h, s, column[S][h][s])
      BY <3>2, <2>1, <2>4
    <3> QED
      BY <3>3, <2>1 DEF OwnerOK
  <2> QED
    BY <2>2, <2>3, <2>4 DEF HomesExact
<1> QED
  BY <1>1, StorageInvariant, PTL

\* Once the truncation of a flush is done, and until the next one, no column is longer
\* than the entity list beside it: an archetype which takes over the arena index of a
\* removed one finds no data there.
THEOREM NoStaleColumnTheorem == ASSUME ~Reentrant PROVE StorageSpec => []NoStaleColumn
<1>1. Inv /\ StorageInv => NoStaleColumn
  <2> SUFFICES ASSUME SlotInv, StorageInv, pc \in {"idle", "delete"}, NEW S \in Arch
               PROVE  Len(column[S]) <= Len(list[S].heaps)
    BY DEF NoStaleColumn, Inv
  <2>1. ~ (Len(column[S]) > Len(list[S].heaps))
    BY DEF StorageInv, SizesOK
  <2>2. column[S] \in Heaps /\ ListOK(list[S])
    BY DEF StorageInv, StorageOK, Storage, Columns, SlotInv, SlotTypes
  <2>3. Len(column[S]) \in Nat /\ Len(list[S].heaps) \in Nat
    BY <2>2, HeapsLen, ListParts
  <2> QED
    BY <2>1, <2>3
<1> QED
  BY <1>1, StorageInvariant, PTL

\* The slot a component is moved to has no owner and the one it is moved from is its own,
\* as the assertions of move_entity_into_empty_never_truncate ask (database.rs:1375-1390).
THEOREM MoveContractTheorem == ASSUME ~Reentrant PROVE StorageSpec => []MoveContract
<1>1. Inv /\ StorageInv => MoveContract
  BY DEF StorageInv, StorageOK, Storage, MoveContract
<1> QED
  BY <1>1, StorageInvariant, PTL
=============================================================================
