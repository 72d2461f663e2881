-------------------------- MODULE SlotStorageProofs --------------------------
(***************************************************************************)
(* HandleExact, GuardsValid and PointersMutual of SlotStorage, for any     *)
(* number of entities, blocks, columns and indirectors: what each heap     *)
(* operation does to the pointers, the slots and the values, then that     *)
(* each storage call, made of several of them and of one of the            *)
(* allocator's, keeps the handles and the homes of the components exact.   *)
(***************************************************************************)
EXTENDS BlockAllocatorProofs

Cells == Owner \cup {None}

HeapRecord ==
  [made : Nat, free : Seq(Ind), owner : [Ind -> Cells], at : [Ind -> Place \cup {None}],
   heap : [HeapId -> Seq(Ind)], content : [HeapId -> Seq(Cells)]]

HeapTypes(H) ==
  /\ H \in HeapRecord
  /\ H.made <= MaxInd
  /\ \A h \in HeapId : Len(H.content[h]) = Len(H.heap[h])

\* What PointersMutual says of the pointers a, the slots p and the free list f, and
\* that no indirector which is not made yet is in use.
Mutual(m, f, a, p) ==
  /\ \A h \in HeapId : \A s \in 1 .. Len(p[h]) : p[h][s] <= m /\ a[p[h][s]] = <<h, s>>
  /\ \A i \in Ind : a[i] # None =>
       \E h \in HeapId : \E s \in 1 .. Len(p[h]) : a[i] = <<h, s>> /\ p[h][s] = i
  /\ \A k \in 1 .. Len(f) : f[k] <= m /\ a[f[k]] = None
  /\ \A k, l \in 1 .. Len(f) : f[k] = f[l] => k = l
  /\ \A i \in 1 .. m : a[i] = None => \E k \in 1 .. Len(f) : f[k] = i

Disowned(m, f, o) ==
  /\ \A k \in 1 .. Len(f) : o[f[k]] = None
  /\ \A i \in Ind : i > m => o[i] = None

Pointers(H) == Mutual(H.made, H.free, H.at, H.heap) /\ Disowned(H.made, H.free, H.owner)

Filled(H) ==
  {p \in UNION {{h} \X (1 .. Len(H.heap[h])) : h \in HeapId} : H.content[p[1]][p[2]] # None}

\* The handles sl and the places home agree with the heaps H.
Exact(H, sl, home) ==
  /\ \A e \in Owner : sl[e] # None =>
       /\ H.owner[sl[e]] = e
       /\ H.at[sl[e]] = home[e]
       /\ \E h \in HeapId : \E s \in 1 .. Len(H.heap[h]) :
            home[e] = <<h, s>> /\ H.content[h][s] = e
  /\ \A i \in Ind : H.owner[i] # None => sl[H.owner[i]] = i
  /\ \A h \in HeapId : \A s \in 1 .. Len(H.heap[h]) : H.content[h][s] # None =>
       sl[H.content[h][s]] # None /\ home[H.content[h][s]] = <<h, s>>

Sound(H, sl, home) ==
  /\ HeapTypes(H)
  /\ Pointers(H)
  /\ sl \in [Owner -> Ind \cup {None}]
  /\ home \in [Owner -> Place \cup {None}]
  /\ Exact(H, sl, home)

-----------------------------------------------------------------------------
(* The record of the heaps.                                                *)

\* What the assumptions say of the values used below.
LEMMA Nones ==
  /\ None \notin Owner /\ None \notin Ind /\ None \notin Place
  /\ \A h \in HeapId : HeapLen[h] \in Nat
  /\ MaxInd \in Nat /\ Batch \in Nat
  /\ \A i \in Ind : i \in Nat /\ i > 0 /\ i <= MaxInd
  /\ \A i \in Nat : i > 0 /\ i <= MaxInd => i \in Ind
BY HeapAssumption, NoneAssumption DEF Ind

\* A sequence has its length for domain.
LEMMA SeqIs ==
  ASSUME NEW X, NEW q \in Seq(X)
  PROVE  Len(q) \in Nat /\ DOMAIN q = 1 .. Len(q) /\ \A s \in 1 .. Len(q) : q[s] \in X
OBVIOUS

\* The fields and their types.
LEMMA Fields ==
  ASSUME NEW H, HeapTypes(H)
  PROVE  /\ H.made \in Nat /\ H.made <= MaxInd
         /\ H.free \in Seq(Ind) /\ Len(H.free) \in Nat
         /\ \A k \in 1 .. Len(H.free) : H.free[k] \in Ind
         /\ H.owner \in [Ind -> Cells]
         /\ H.at \in [Ind -> Place \cup {None}]
         /\ H.heap \in [HeapId -> Seq(Ind)]
         /\ H.content \in [HeapId -> Seq(Cells)]
         /\ \A h \in HeapId :
              /\ H.heap[h] \in Seq(Ind) /\ Len(H.heap[h]) \in Nat
              /\ DOMAIN H.heap[h] = 1 .. Len(H.heap[h])
              /\ H.content[h] \in Seq(Cells) /\ Len(H.content[h]) = Len(H.heap[h])
              /\ DOMAIN H.content[h] = 1 .. Len(H.heap[h])
              /\ \A s \in 1 .. Len(H.heap[h]) : H.heap[h][s] \in Ind /\ H.content[h][s] \in Cells
<1>1. H \in HeapRecord /\ H.made <= MaxInd /\ \A h \in HeapId : Len(H.content[h]) = Len(H.heap[h])
  BY DEF HeapTypes
<1>2. /\ H.made \in Nat /\ H.free \in Seq(Ind) /\ H.owner \in [Ind -> Cells]
      /\ H.at \in [Ind -> Place \cup {None}]
      /\ H.heap \in [HeapId -> Seq(Ind)] /\ H.content \in [HeapId -> Seq(Cells)]
  BY <1>1 DEF HeapRecord
<1>3. ASSUME NEW h \in HeapId
      PROVE  /\ H.heap[h] \in Seq(Ind) /\ Len(H.heap[h]) \in Nat
             /\ DOMAIN H.heap[h] = 1 .. Len(H.heap[h])
             /\ H.content[h] \in Seq(Cells) /\ Len(H.content[h]) = Len(H.heap[h])
             /\ DOMAIN H.content[h] = 1 .. Len(H.heap[h])
             /\ \A s \in 1 .. Len(H.heap[h]) : H.heap[h][s] \in Ind /\ H.content[h][s] \in Cells
  <2>1. H.heap[h] \in Seq(Ind) /\ H.content[h] \in Seq(Cells) /\ Len(H.content[h]) = Len(H.heap[h])
    BY <1>1, <1>2
  <2>2. /\ Len(H.heap[h]) \in Nat /\ DOMAIN H.heap[h] = 1 .. Len(H.heap[h])
        /\ \A s \in 1 .. Len(H.heap[h]) : H.heap[h][s] \in Ind
    BY <2>1, SeqIs
  <2>3. /\ DOMAIN H.content[h] = 1 .. Len(H.heap[h])
        /\ \A s \in 1 .. Len(H.heap[h]) : H.content[h][s] \in Cells
    <3>1. /\ DOMAIN H.content[h] = 1 .. Len(H.content[h])
          /\ \A s \in 1 .. Len(H.content[h]) : H.content[h][s] \in Cells
      BY <2>1, SeqIs
    <3> QED
      BY <3>1, <2>1
  <2> QED
    BY <2>1, <2>2, <2>3
<1>4. Len(H.free) \in Nat /\ \A k \in 1 .. Len(H.free) : H.free[k] \in Ind
  BY <1>2
<1> QED
  BY <1>1, <1>2, <1>3, <1>4

\* A place which is filled has a slot, and the others have none.
LEMMA FilledIs ==
  ASSUME NEW H, HeapTypes(H), NEW h, NEW s
  PROVE  <<h, s>> \in Filled(H) <=>
           h \in HeapId /\ s \in 1 .. Len(H.heap[h]) /\ H.content[h][s] # None
<1>1. <<h, s>> \in UNION {{g} \X (1 .. Len(H.heap[g])) : g \in HeapId}
        <=> h \in HeapId /\ s \in 1 .. Len(H.heap[h])
  OBVIOUS
<1> QED
  BY <1>1 DEF Filled

\* Every filled place is a pair.
LEMMA FilledPair ==
  ASSUME NEW H, HeapTypes(H), NEW p \in Filled(H)
  PROVE  /\ p = <<p[1], p[2]>> /\ p \in Place
         /\ p[1] \in HeapId /\ p[2] \in 1 .. Len(H.heap[p[1]])
         /\ H.content[p[1]][p[2]] \in Owner
<1>1. PICK h \in HeapId : p \in {h} \X (1 .. Len(H.heap[h]))
  BY DEF Filled
<1>2. p = <<p[1], p[2]>> /\ p[1] = h /\ p[2] \in 1 .. Len(H.heap[h])
  BY <1>1
<1>3. H.content[h][p[2]] \in Cells
  BY <1>2, Fields
<1>4. H.content[p[1]][p[2]] # None
  BY DEF Filled
<1>5. p \in Place
  BY <1>2, Fields DEF Place
<1> QED
  BY <1>2, <1>3, <1>4, <1>5 DEF Cells

\* Writing one cell of a function of sequences.
Written(c, h, s, x) == [c EXCEPT ![h][s] = x]

WrittenAs(n, c, h, s, x) ==
  \A g \in HeapId : /\ Len(n[g]) = Len(c[g])
                    /\ \A r \in 1 .. Len(c[g]) : n[g][r] = IF g = h /\ r = s THEN x ELSE c[g][r]

\* It changes nothing else.
LEMMA WrittenOK ==
  ASSUME NEW X, NEW c \in [HeapId -> Seq(X)], NEW h \in HeapId, NEW s \in 1 .. Len(c[h]), NEW x \in X
  PROVE  /\ Written(c, h, s, x) \in [HeapId -> Seq(X)]
         /\ WrittenAs(Written(c, h, s, x), c, h, s, x)
<1> DEFINE q == [c[h] EXCEPT ![s] = x]
           n == [c EXCEPT ![h] = q]
<1>1. c[h] \in Seq(X) /\ Len(c[h]) \in Nat
  OBVIOUS
<1>2. q \in Seq(X) /\ Len(q) = Len(c[h])
      /\ \A r \in 1 .. Len(c[h]) : q[r] = IF r = s THEN x ELSE c[h][r]
  BY <1>1
<1>3. Written(c, h, s, x) = n
  BY Zenon DEF Written
<1> HIDE DEF q
<1>4. n \in [HeapId -> Seq(X)]
  BY <1>2
<1>5. WrittenAs(n, c, h, s, x)
  BY <1>2 DEF WrittenAs
<1> QED
  BY <1>3, <1>4, <1>5

-----------------------------------------------------------------------------
(* What a call makes of the record, field by field.                        *)

\* A record of the heaps from its fields, and with one of them replaced.
HeapsOf(m, f, o, a, p, c) ==
  [made |-> m, free |-> f, owner |-> o, at |-> a, heap |-> p, content |-> c]

WithMade(H, x) == [H EXCEPT !.made = x]
WithFree(H, x) == [H EXCEPT !.free = x]
WithOwner(H, x) == [H EXCEPT !.owner = x]
WithAt(H, x) == [H EXCEPT !.at = x]
WithHeap(H, x) == [H EXCEPT !.heap = x]
WithContent(H, x) == [H EXCEPT !.content = x]

\* Its fields are those.
LEMMA HeapsOfFields ==
  ASSUME NEW m, NEW f, NEW o, NEW a, NEW p, NEW c
  PROVE  /\ HeapsOf(m, f, o, a, p, c).made = m
         /\ HeapsOf(m, f, o, a, p, c).free = f
         /\ HeapsOf(m, f, o, a, p, c).owner = o
         /\ HeapsOf(m, f, o, a, p, c).at = a
         /\ HeapsOf(m, f, o, a, p, c).heap = p
         /\ HeapsOf(m, f, o, a, p, c).content = c
BY DEF HeapsOf

\* It has its type when they have theirs.
LEMMA HeapsOfTyped ==
  ASSUME NEW m \in Nat, NEW f \in Seq(Ind), NEW o \in [Ind -> Cells],
         NEW a \in [Ind -> Place \cup {None}],
         NEW p \in [HeapId -> Seq(Ind)], NEW c \in [HeapId -> Seq(Cells)]
  PROVE  HeapsOf(m, f, o, a, p, c) \in HeapRecord
BY DEF HeapsOf, HeapRecord

\* Replacing one leaves the others.
LEMMA HeapsOfWith ==
  ASSUME NEW m, NEW f, NEW o, NEW a, NEW p, NEW c, NEW x
  PROVE  /\ WithMade(HeapsOf(m, f, o, a, p, c), x) = HeapsOf(x, f, o, a, p, c)
         /\ WithFree(HeapsOf(m, f, o, a, p, c), x) = HeapsOf(m, x, o, a, p, c)
         /\ WithOwner(HeapsOf(m, f, o, a, p, c), x) = HeapsOf(m, f, x, a, p, c)
         /\ WithAt(HeapsOf(m, f, o, a, p, c), x) = HeapsOf(m, f, o, x, p, c)
         /\ WithHeap(HeapsOf(m, f, o, a, p, c), x) = HeapsOf(m, f, o, a, x, c)
         /\ WithContent(HeapsOf(m, f, o, a, p, c), x) = HeapsOf(m, f, o, a, p, x)
BY DEF HeapsOf, WithMade, WithFree, WithOwner, WithAt, WithHeap, WithContent

\* Every record of the heaps is one.
LEMMA IsHeapsOf ==
  ASSUME NEW H \in HeapRecord
  PROVE  H = HeapsOf(H.made, H.free, H.owner, H.at, H.heap, H.content)
BY DEF HeapsOf, HeapRecord

\* The result of each heap operation, field by field.
LEMMA SetPairFields ==
  ASSUME NEW H \in HeapRecord, NEW p, NEW e
  PROVE  SetPair(H, p, e) =
           HeapsOf(H.made, H.free, [H.owner EXCEPT ![H.heap[p[1]][p[2]]] = e], H.at,
                   H.heap, Written(H.content, p[1], p[2], e))
<1> DEFINE o == [H.owner EXCEPT ![H.heap[p[1]][p[2]]] = e]
           K == WithOwner(H, o)
<1>1. SetPair(H, p, e) = WithContent(K, Written(K.content, p[1], p[2], e))
  BY Zenon DEF SetPair, Written, WithOwner, WithContent
<1> HIDE DEF o
<1>2. K = HeapsOf(H.made, H.free, o, H.at, H.heap, H.content)
  BY IsHeapsOf, HeapsOfWith
<1> HIDE DEF K
<1>3. K.content = H.content
  BY <1>2, HeapsOfFields
<1> QED
  BY <1>1, <1>2, <1>3, HeapsOfWith DEF o

LEMMA ClearPairFields ==
  ASSUME NEW H \in HeapRecord, NEW i
  PROVE  ClearPair(H, i) =
           HeapsOf(H.made, H.free, [H.owner EXCEPT ![i] = None], H.at,
                   H.heap, Written(H.content, H.at[i][1], H.at[i][2], None))
<1> DEFINE o == [H.owner EXCEPT ![i] = None]
           K == WithOwner(H, o)
<1>1. ClearPair(H, i) = WithContent(K, Written(K.content, H.at[i][1], H.at[i][2], None))
  BY Zenon DEF ClearPair, Written, WithOwner, WithContent
<1> HIDE DEF o
<1>2. K = HeapsOf(H.made, H.free, o, H.at, H.heap, H.content)
  BY IsHeapsOf, HeapsOfWith
<1> HIDE DEF K
<1>3. K.content = H.content
  BY <1>2, HeapsOfFields
<1> QED
  BY <1>1, <1>2, <1>3, HeapsOfWith DEF o

LEMMA SwapSlotsFields ==
  ASSUME NEW H \in HeapRecord, NEW p, NEW q, NEW i, NEW j,
         i = H.heap[p[1]][p[2]], j = H.heap[q[1]][q[2]]
  PROVE  SwapSlots(H, p, q) =
           HeapsOf(H.made, H.free, H.owner, [H.at EXCEPT ![i] = H.at[j], ![j] = H.at[i]],
                   Written(Written(H.heap, p[1], p[2], j), q[1], q[2], i),
                   Written(Written(H.content, p[1], p[2], H.content[q[1]][q[2]]),
                           q[1], q[2], H.content[p[1]][p[2]]))
<1> DEFINE c1 == Written(H.content, p[1], p[2], H.content[q[1]][q[2]])
           K1 == WithContent(H, c1)
           c2 == Written(K1.content, q[1], q[2], H.content[p[1]][p[2]])
           K2 == WithContent(K1, c2)
           K3 == WithAt(K2, [K2.at EXCEPT ![i] = H.at[j]])
           K4 == WithAt(K3, [K3.at EXCEPT ![j] = H.at[i]])
           K5 == WithHeap(K4, Written(K4.heap, p[1], p[2], j))
           K6 == WithHeap(K5, Written(K5.heap, q[1], q[2], i))
<1>1. SwapSlots(H, p, q) = K6
  BY Zenon DEF SwapSlots, Written, WithContent, WithAt, WithHeap
<1>2. K1 = HeapsOf(H.made, H.free, H.owner, H.at, H.heap, c1)
  <2> HIDE DEF c1
  <2> QED
    BY IsHeapsOf, HeapsOfWith
<1>3. c2 = Written(c1, q[1], q[2], H.content[p[1]][p[2]])
  BY <1>2, HeapsOfFields
<1> HIDE DEF K1
<1>4. K2 = HeapsOf(H.made, H.free, H.owner, H.at, H.heap, c2)
  BY <1>2, HeapsOfWith
<1> HIDE DEF K2, c2
<1> DEFINE at1 == [H.at EXCEPT ![i] = H.at[j]]
           at2 == [at1 EXCEPT ![j] = H.at[i]]
<1>5. K3 = HeapsOf(H.made, H.free, H.owner, at1, H.heap, c2)
  <2>1. K2.at = H.at
    BY <1>4, HeapsOfFields
  <2> QED
    BY <1>4, <2>1, HeapsOfWith
<1> HIDE DEF K3
<1>6. K3.at = at1
  BY <1>5, HeapsOfFields
<1>7. K4 = HeapsOf(H.made, H.free, H.owner, at2, H.heap, c2)
  <2>1. K4 = WithAt(K3, at2)
    BY <1>6
  <2> HIDE DEF K4, at1, at2
  <2> QED
    BY <1>5, <2>1, HeapsOfWith
<1> HIDE DEF K4
<1>10. at2 = [H.at EXCEPT ![i] = H.at[j], ![j] = H.at[i]]
  BY Zenon
<1> HIDE DEF at1, at2
<1>8. K5 = HeapsOf(H.made, H.free, H.owner, at2, Written(H.heap, p[1], p[2], j), c2)
  <2>1. K4.heap = H.heap
    BY <1>7, HeapsOfFields
  <2> QED
    BY <1>7, <2>1, HeapsOfWith
<1> HIDE DEF K5
<1>9. K6 = HeapsOf(H.made, H.free, H.owner, at2,
                   Written(Written(H.heap, p[1], p[2], j), q[1], q[2], i), c2)
  <2>1. K5.heap = Written(H.heap, p[1], p[2], j)
    BY <1>8, HeapsOfFields
  <2> QED
    BY <1>8, <2>1, HeapsOfWith
<1> HIDE DEF K6
<1> QED
  BY <1>1, <1>9, <1>3, <1>10, Zenon

\* The indirectors a dropped heap gives back.
Freed(H, h) == {H.heap[h][s] : s \in DOMAIN H.heap[h]}

LEMMA DroppedFields ==
  ASSUME NEW H \in HeapRecord, NEW h
  PROVE  Dropped(H, h) =
           HeapsOf(H.made, H.free \o H.heap[h],
                   [i \in Ind |-> IF i \in Freed(H, h) THEN None ELSE H.owner[i]],
                   [i \in Ind |-> IF i \in Freed(H, h) THEN None ELSE H.at[i]],
                   [H.heap EXCEPT ![h] = <<>>], [H.content EXCEPT ![h] = <<>>])
<1> DEFINE o == [i \in Ind |-> IF i \in Freed(H, h) THEN None ELSE H.owner[i]]
           K1 == WithOwner(H, o)
           a == [i \in Ind |-> IF i \in Freed(H, h) THEN None ELSE H.at[i]]
           K2 == WithAt(K1, a)
           K3 == WithFree(K2, H.free \o H.heap[h])
           K4 == WithHeap(K3, [K3.heap EXCEPT ![h] = <<>>])
           K5 == WithContent(K4, [K4.content EXCEPT ![h] = <<>>])
<1>1. Dropped(H, h) = K5
  BY Zenon DEF Dropped, Freed, WithContent, WithAt, WithHeap, WithOwner, WithFree
<1> HIDE DEF o
<1>2. K1 = HeapsOf(H.made, H.free, o, H.at, H.heap, H.content)
  BY IsHeapsOf, HeapsOfWith
<1> HIDE DEF K1
<1> HIDE DEF a
<1>4. K2 = HeapsOf(H.made, H.free, o, a, H.heap, H.content)
  BY <1>2, HeapsOfWith
<1> HIDE DEF K2
<1>5. K3 = HeapsOf(H.made, H.free \o H.heap[h], o, a, H.heap, H.content)
  BY <1>4, HeapsOfWith
<1> HIDE DEF K3
<1>6. K4 = HeapsOf(H.made, H.free \o H.heap[h], o, a, [H.heap EXCEPT ![h] = <<>>], H.content)
  <2>1. K3.heap = H.heap
    BY <1>5, HeapsOfFields
  <2> QED
    BY <1>5, <2>1, HeapsOfWith
<1> HIDE DEF K4
<1>7. K5 = HeapsOf(H.made, H.free \o H.heap[h], o, a, [H.heap EXCEPT ![h] = <<>>],
                   [H.content EXCEPT ![h] = <<>>])
  <2>1. K4.content = H.content
    BY <1>6, HeapsOfFields
  <2> QED
    BY <1>6, <2>1, HeapsOfWith
<1> HIDE DEF K5
<1> QED
  BY <1>1, <1>7 DEF o, a

\* What NewHeap takes its slots from: the free indirectors and those it makes.
Extended(H, h) == H.free \o [j \in 1 .. Additional(H, HeapLen[h]) |-> H.made + j]

Kept(H, h) == Len(Extended(H, h)) - HeapLen[h]

Taken(H, h) == SubSeq(Extended(H, h), Kept(H, h) + 1, Len(Extended(H, h)))

LEMMA NewHeapFields ==
  ASSUME NEW H \in HeapRecord, NEW h
  PROVE  NewHeap(H, h) =
           HeapsOf(H.made + Additional(H, HeapLen[h]), SubSeq(Extended(H, h), 1, Kept(H, h)), H.owner,
                   [i \in Ind |-> IF \E s \in DOMAIN Taken(H, h) : Taken(H, h)[s] = i
                                  THEN <<h, CHOOSE s \in DOMAIN Taken(H, h) : Taken(H, h)[s] = i>>
                                  ELSE H.at[i]],
                   [H.heap EXCEPT ![h] = Taken(H, h)],
                   [H.content EXCEPT ![h] = [s \in 1 .. HeapLen[h] |-> None]])
<1> DEFINE m == H.made + Additional(H, HeapLen[h])
           f == SubSeq(Extended(H, h), 1, Kept(H, h))
           empty == [s \in 1 .. HeapLen[h] |-> None]
           K1 == WithMade(H, m)
           K2 == WithFree(K1, f)
           a == [i \in Ind |-> IF \E s \in DOMAIN Taken(H, h) : Taken(H, h)[s] = i
                               THEN <<h, CHOOSE s \in DOMAIN Taken(H, h) : Taken(H, h)[s] = i>>
                               ELSE K2.at[i]]
           K3 == WithAt(K2, a)
           K4 == WithHeap(K3, [K3.heap EXCEPT ![h] = Taken(H, h)])
           K5 == WithContent(K4, [K4.content EXCEPT ![h] = empty])
<1>1. NewHeap(H, h) = K5
  BY Zenon DEF NewHeap, Extended, Kept, Taken, WithContent, WithAt, WithHeap, WithMade, WithFree
<1> HIDE DEF m, f, empty
<1>2. K1 = HeapsOf(m, H.free, H.owner, H.at, H.heap, H.content)
  BY IsHeapsOf, HeapsOfWith
<1> HIDE DEF K1
<1>3. K2 = HeapsOf(m, f, H.owner, H.at, H.heap, H.content)
  BY <1>2, HeapsOfWith
<1> HIDE DEF K2
<1>4. a = [i \in Ind |-> IF \E s \in DOMAIN Taken(H, h) : Taken(H, h)[s] = i
                         THEN <<h, CHOOSE s \in DOMAIN Taken(H, h) : Taken(H, h)[s] = i>>
                         ELSE H.at[i]]
  <2>1. K2.at = H.at
    BY <1>3, HeapsOfFields
  <2> QED
    BY <2>1, Zenon
<1> HIDE DEF a
<1>5. K3 = HeapsOf(m, f, H.owner, a, H.heap, H.content)
  BY <1>3, HeapsOfWith
<1> HIDE DEF K3
<1>6. K4 = HeapsOf(m, f, H.owner, a, [H.heap EXCEPT ![h] = Taken(H, h)], H.content)
  <2>1. K3.heap = H.heap
    BY <1>5, HeapsOfFields
  <2> QED
    BY <1>5, <2>1, HeapsOfWith
<1> HIDE DEF K4
<1>7. K5 = HeapsOf(m, f, H.owner, a, [H.heap EXCEPT ![h] = Taken(H, h)], [H.content EXCEPT ![h] = empty])
  <2>1. K4.content = H.content
    BY <1>6, HeapsOfFields
  <2> DEFINE c == [H.content EXCEPT ![h] = empty]
  <2>2. K5 = WithContent(K4, c)
    BY <2>1
  <2> HIDE DEF K5, c
  <2>3. K5 = HeapsOf(m, f, H.owner, a, [H.heap EXCEPT ![h] = Taken(H, h)], c)
    BY <1>6, <2>2, HeapsOfWith
  <2> QED
    BY <2>3 DEF c
<1> HIDE DEF K5
<1> QED
  BY <1>1, <1>4, <1>7, Zenon DEF m, f, empty

-----------------------------------------------------------------------------
(* What a call does to sound heaps.                                        *)

\* Who a slot in use is for does not matter to the pointers.
LEMMA OwnerApart ==
  ASSUME NEW H, HeapTypes(H), Pointers(H), NEW N, NEW i \in Ind, H.at[i] # None, i <= H.made,
         N.made = H.made, N.free = H.free, N.at = H.at, N.heap = H.heap,
         \A x \in Ind : x # i => N.owner[x] = H.owner[x]
  PROVE  Pointers(N)
<1>0. Mutual(H.made, H.free, H.at, H.heap) /\ Disowned(H.made, H.free, H.owner)
  BY DEF Pointers
<1>1. \A k \in 1 .. Len(H.free) : H.free[k] \in Ind /\ H.free[k] # i /\ H.owner[H.free[k]] = None
  BY <1>0, Fields DEF Mutual, Disowned
<1>2. \A x \in Ind : x > H.made => x # i /\ H.owner[x] = None
  BY <1>0, Fields, Nones DEF Disowned
<1>3. Disowned(H.made, H.free, N.owner)
  BY <1>1, <1>2 DEF Disowned
<1> QED
  BY <1>0, <1>3 DEF Pointers

\* A value is put into a free slot of a heap and the slot is given out.
LEMMA SetPairOK ==
  ASSUME NEW H, NEW sl, NEW home, Sound(H, sl, home),
         NEW h \in HeapId, NEW s \in 1 .. Len(H.heap[h]), NEW p, p = <<h, s>>, p \notin Filled(H),
         NEW e \in Owner, sl[e] = None,
         NEW home2 \in [Owner -> Place \cup {None}], home2[e] = p,
         \A d \in Owner : d # e => home2[d] = home[d],
         NEW N, N = SetPair(H, p, e), NEW i, i = H.heap[h][s]
  PROVE  /\ Sound(N, [sl EXCEPT ![e] = i], home2)
         /\ N.heap = H.heap
         /\ Filled(N) = Filled(H) \cup {p}
<1>1. /\ HeapTypes(H) /\ Pointers(H) /\ Exact(H, sl, home)
      /\ sl \in [Owner -> Ind \cup {None}] /\ home \in [Owner -> Place \cup {None}]
  BY DEF Sound
<1>2. /\ H \in HeapRecord /\ p[1] = h /\ p[2] = s /\ i \in Ind /\ p \in Place
      /\ H.at[i] = p /\ i <= H.made /\ H.content[h][s] = None
  BY <1>1, Fields, FilledIs DEF HeapTypes, Pointers, Mutual, Place
<1> DEFINE o == [H.owner EXCEPT ![i] = e]
           c == Written(H.content, h, s, e)
<1>3. N = HeapsOf(H.made, H.free, o, H.at, H.heap, c)
  BY <1>2, SetPairFields
<1>4. /\ c \in [HeapId -> Seq(Cells)]
      /\ WrittenAs(c, H.content, h, s, e)
  <2>1. H.content \in [HeapId -> Seq(Cells)] /\ s \in 1 .. Len(H.content[h]) /\ e \in Cells
    BY <1>1, Fields DEF Cells
  <2> QED
    BY <2>1, WrittenOK
<1>5. /\ o \in [Ind -> Cells]
      /\ \A x \in Ind : o[x] = IF x = i THEN e ELSE H.owner[x]
  BY <1>1, <1>2, Fields DEF Cells
<1> HIDE DEF o, c
<1>6. /\ N.made = H.made /\ N.free = H.free /\ N.owner = o /\ N.at = H.at
      /\ N.heap = H.heap /\ N.content = c
  BY <1>3, HeapsOfFields
<1>7. \A g \in HeapId : /\ Len(c[g]) = Len(H.heap[g])
                        /\ \A r \in 1 .. Len(H.heap[g]) :
                             c[g][r] = IF g = h /\ r = s THEN e ELSE H.content[g][r]
  BY <1>1, <1>4, Fields DEF WrittenAs
<1>8. HeapTypes(N)
  <2>1. N \in HeapRecord
    <3>1. /\ H.made \in Nat /\ H.free \in Seq(Ind) /\ H.at \in [Ind -> Place \cup {None}]
          /\ H.heap \in [HeapId -> Seq(Ind)]
      BY <1>1, Fields
    <3>2. o \in [Ind -> Cells] /\ c \in [HeapId -> Seq(Cells)]
      BY <1>4, <1>5
    <3>3. HeapsOf(H.made, H.free, o, H.at, H.heap, c) \in HeapRecord
      BY ONLY <3>1, <3>2, HeapsOfTyped
    <3> QED
      BY <3>3, <1>3
  <2> QED
    BY <2>1, <1>1, <1>6, <1>7, Fields DEF HeapTypes
<1>9. Pointers(N)
  <2>1. H.at[i] # None /\ i <= H.made /\ i \in Ind
    BY <1>2, Nones
  <2>2. \A x \in Ind : x # i => N.owner[x] = H.owner[x]
    BY <1>5, <1>6
  <2>3. N.made = H.made /\ N.free = H.free /\ N.at = H.at /\ N.heap = H.heap
    BY <1>6
  <2> QED
    BY ONLY <1>1, <2>1, <2>2, <2>3, OwnerApart
<1> DEFINE sl2 == [sl EXCEPT ![e] = i]
<1>10. /\ sl2 \in [Owner -> Ind \cup {None}]
       /\ \A d \in Owner : sl2[d] = IF d = e THEN i ELSE sl[d]
       /\ \A d \in Owner : home2[d] = IF d = e THEN p ELSE home[d]
  BY <1>1, <1>2
<1> HIDE DEF sl2
\* Nobody had the slot.
<1>11. H.owner[i] = None
  <2> SUFFICES ASSUME H.owner[i] # None PROVE FALSE
    OBVIOUS
  <2> DEFINE d == H.owner[i]
  <2>1. d \in Owner /\ sl[d] = i
    BY <1>1, <1>2, Fields DEF Exact, Cells
  <2> HIDE DEF d
  <2>2. home[d] = p
    <3>1. sl[d] # None
      BY <2>1, <1>2, Nones
    <3>2. H.at[sl[d]] = home[d]
      BY <2>1, <3>1, <1>1 DEF Exact
    <3> QED
      BY <3>2, <2>1, <1>2
  <2>3. H.content[h][s] = d
    BY <2>1, <2>2, <1>1, <1>2, Nones DEF Exact
  <2> QED
    BY <2>1, <2>3, <1>2, Nones
<1>12. Exact(N, sl2, home2)
  <2>1. ASSUME NEW d \in Owner, sl2[d] # None
        PROVE  /\ N.owner[sl2[d]] = d
               /\ N.at[sl2[d]] = home2[d]
               /\ \E g \in HeapId : \E r \in 1 .. Len(N.heap[g]) :
                    home2[d] = <<g, r>> /\ N.content[g][r] = d
    <3>1. CASE d = e
      BY <3>1, <1>2, <1>5, <1>6, <1>7, <1>10
    <3>2. CASE d # e
      <4>1. /\ sl[d] # None /\ sl2[d] = sl[d] /\ home2[d] = home[d] /\ sl[d] \in Ind
        BY <3>2, <2>1, <1>1, <1>10
      <4>2. /\ H.owner[sl[d]] = d /\ H.at[sl[d]] = home[d]
        BY <4>1, <1>1 DEF Exact
      <4>3. PICK g \in HeapId : \E r \in 1 .. Len(H.heap[g]) : home[d] = <<g, r>> /\ H.content[g][r] = d
        BY <4>1, <1>1 DEF Exact
      <4>6. PICK r \in 1 .. Len(H.heap[g]) : home[d] = <<g, r>> /\ H.content[g][r] = d
        BY <4>3
      <4>4. sl[d] # i
        BY <4>2, <1>11, Nones
      <4>5. c[g][r] = d
        BY <4>6, <1>2, <1>7, Nones
      <4> QED
        BY <4>1, <4>2, <4>4, <4>5, <4>6, <1>5, <1>6
    <3> QED
      BY <3>1, <3>2
  <2>2. ASSUME NEW x \in Ind, N.owner[x] # None
        PROVE  sl2[N.owner[x]] = x
    <3>1. CASE x = i
      BY <3>1, <1>5, <1>6, <1>10
    <3>2. CASE x # i
      <4>1. N.owner[x] = H.owner[x] /\ H.owner[x] \in Owner
        BY <3>2, <2>2, <1>1, <1>5, <1>6, Fields DEF Cells
      <4>2. sl[H.owner[x]] = x
        BY <4>1, <2>2, <1>1 DEF Exact
      <4>3. H.owner[x] # e
        BY <4>2, Nones
      <4> QED
        BY <4>1, <4>2, <4>3, <1>10
    <3> QED
      BY <3>1, <3>2
  <2>3. ASSUME NEW g \in HeapId, NEW r \in 1 .. Len(N.heap[g]), N.content[g][r] # None
        PROVE  sl2[N.content[g][r]] # None /\ home2[N.content[g][r]] = <<g, r>>
    <3>1. CASE g = h /\ r = s
      <4>1. N.content[g][r] = e
        BY <3>1, <1>6, <1>7
      <4> QED
        BY <3>1, <4>1, <1>2, <1>10, Nones
    <3>2. CASE ~ (g = h /\ r = s)
      <4>1. N.content[g][r] = H.content[g][r] /\ H.content[g][r] \in Owner
        <5>1. r \in 1 .. Len(H.heap[g])
          BY <1>6
        <5>2. N.content[g][r] = H.content[g][r]
          BY <3>2, <5>1, <1>6, <1>7
        <5>3. H.content[g][r] \in Cells
          BY <5>1, <1>1, Fields
        <5> QED
          BY <5>2, <5>3, <2>3 DEF Cells
      <4>2. sl[H.content[g][r]] # None /\ home[H.content[g][r]] = <<g, r>>
        BY <4>1, <2>3, <1>1, <1>6 DEF Exact
      <4>3. H.content[g][r] # e
        BY <4>2
      <4> QED
        BY <4>1, <4>2, <4>3, <1>10
    <3> QED
      BY <3>1, <3>2
  <2> QED
    BY <2>1, <2>2, <2>3 DEF Exact
<1>13. Filled(N) = Filled(H) \cup {p}
  <2>1. ASSUME NEW q \in Filled(N) PROVE q \in Filled(H) \cup {p}
    <3>1. q = <<q[1], q[2]>> /\ q[1] \in HeapId /\ q[2] \in 1 .. Len(N.heap[q[1]])
          /\ N.content[q[1]][q[2]] # None
      BY <1>8, <2>1, FilledPair, Nones
    <3> QED
      BY <3>1, <1>1, <1>6, <1>7, FilledIs
  <2>2. ASSUME NEW q \in Filled(H) PROVE q \in Filled(N)
    <3>1. q = <<q[1], q[2]>> /\ q[1] \in HeapId /\ q[2] \in 1 .. Len(H.heap[q[1]])
          /\ H.content[q[1]][q[2]] # None
      BY <1>1, <2>2, FilledPair, Nones
    <3>2. q # p
      BY <2>2
    <3> QED
      BY <3>1, <3>2, <1>2, <1>6, <1>7, <1>8, FilledIs
  <2>3. p \in Filled(N)
    BY <1>6, <1>7, <1>8, FilledIs, Nones
  <2> QED
    BY <2>1, <2>2, <2>3
<1> QED
  BY <1>6, <1>8, <1>9, <1>10, <1>12, <1>13 DEF Sound, sl2

\* A component is taken out, wherever its entity is from then on.
LEMMA ClearPairOK ==
  ASSUME NEW H, NEW sl, NEW home, Sound(H, sl, home), NEW e \in Owner, sl[e] # None,
         NEW home2 \in [Owner -> Place \cup {None}],
         \A d \in Owner : d # e => home2[d] = home[d],
         NEW N, N = ClearPair(H, sl[e])
  PROVE  /\ Sound(N, [sl EXCEPT ![e] = None], home2)
         /\ N.heap = H.heap
         /\ home[e] \in Filled(H)
         /\ Filled(N) = Filled(H) \ {home[e]}
<1> DEFINE i == sl[e]
           p == home[e]
<1>1. /\ HeapTypes(H) /\ Pointers(H) /\ Exact(H, sl, home)
      /\ sl \in [Owner -> Ind \cup {None}] /\ home \in [Owner -> Place \cup {None}]
  BY DEF Sound
<1>2. i \in Ind /\ H.owner[i] = e /\ H.at[i] = p
      /\ \E g \in HeapId : \E r \in 1 .. Len(H.heap[g]) : p = <<g, r>> /\ H.content[g][r] = e
  BY <1>1 DEF Exact
<1> HIDE DEF i, p
<1>3. PICK h \in HeapId : \E r \in 1 .. Len(H.heap[h]) : p = <<h, r>> /\ H.content[h][r] = e
  BY <1>2
<1>4. PICK s \in 1 .. Len(H.heap[h]) : p = <<h, s>> /\ H.content[h][s] = e
  BY <1>3
<1>5. H \in HeapRecord /\ p[1] = h /\ p[2] = s /\ p \in Place /\ p # None /\ p \in Filled(H)
  <2>1. H \in HeapRecord /\ s \in Nat
    BY <1>1, Fields DEF HeapTypes
  <2>2. p \in Filled(H)
    BY <1>1, <1>4, FilledIs, Nones
  <2> QED
    BY <1>4, <2>1, <2>2, Nones DEF Place
<1>6. i <= H.made
  <2>1. PICK g \in HeapId : \E r \in 1 .. Len(H.heap[g]) : H.at[i] = <<g, r>> /\ H.heap[g][r] = i
    BY <1>1, <1>2, <1>5 DEF Pointers, Mutual
  <2> QED
    BY <2>1, <1>1 DEF Pointers, Mutual
<1> DEFINE o == [H.owner EXCEPT ![i] = None]
           c == Written(H.content, h, s, None)
<1>7. N = HeapsOf(H.made, H.free, o, H.at, H.heap, c)
  <2>1. H.at[i][1] = h /\ H.at[i][2] = s
    BY <1>2, <1>5
  <2> QED
    BY <2>1, <1>5, ClearPairFields DEF i
<1>8. /\ c \in [HeapId -> Seq(Cells)]
      /\ WrittenAs(c, H.content, h, s, None)
  <2>1. H.content \in [HeapId -> Seq(Cells)] /\ s \in 1 .. Len(H.content[h]) /\ None \in Cells
    BY <1>1, Fields DEF Cells
  <2> QED
    BY <2>1, WrittenOK
<1>9. /\ o \in [Ind -> Cells]
      /\ \A x \in Ind : o[x] = IF x = i THEN None ELSE H.owner[x]
  BY <1>1, <1>2, Fields DEF Cells
<1> HIDE DEF o, c
<1>10. /\ N.made = H.made /\ N.free = H.free /\ N.owner = o /\ N.at = H.at
       /\ N.heap = H.heap /\ N.content = c
  BY <1>7, HeapsOfFields
<1>11. \A g \in HeapId : /\ Len(c[g]) = Len(H.heap[g])
                         /\ \A r \in 1 .. Len(H.heap[g]) :
                              c[g][r] = IF g = h /\ r = s THEN None ELSE H.content[g][r]
  BY <1>1, <1>8, Fields DEF WrittenAs
<1>12. HeapTypes(N)
  <2>1. N \in HeapRecord
    <3>1. /\ H.made \in Nat /\ H.free \in Seq(Ind) /\ H.at \in [Ind -> Place \cup {None}]
          /\ H.heap \in [HeapId -> Seq(Ind)]
      BY <1>1, Fields
    <3>2. o \in [Ind -> Cells] /\ c \in [HeapId -> Seq(Cells)]
      BY <1>8, <1>9
    <3>3. HeapsOf(H.made, H.free, o, H.at, H.heap, c) \in HeapRecord
      BY ONLY <3>1, <3>2, HeapsOfTyped
    <3> QED
      BY <3>3, <1>7
  <2> QED
    BY <2>1, <1>1, <1>10, <1>11, Fields DEF HeapTypes
<1>13. Pointers(N)
  <2>1. H.at[i] # None /\ i <= H.made /\ i \in Ind
    BY <1>2, <1>5, <1>6
  <2>2. \A x \in Ind : x # i => N.owner[x] = H.owner[x]
    BY <1>9, <1>10
  <2>3. N.made = H.made /\ N.free = H.free /\ N.at = H.at /\ N.heap = H.heap
    BY <1>10
  <2> QED
    BY ONLY <1>1, <2>1, <2>2, <2>3, OwnerApart
<1> DEFINE sl2 == [sl EXCEPT ![e] = None]
<1>14. /\ sl2 \in [Owner -> Ind \cup {None}]
       /\ \A d \in Owner : sl2[d] = IF d = e THEN None ELSE sl[d]
  BY <1>1
<1> HIDE DEF sl2
<1>15. Exact(N, sl2, home2)
  <2>1. ASSUME NEW d \in Owner, sl2[d] # None
        PROVE  /\ N.owner[sl2[d]] = d
               /\ N.at[sl2[d]] = home2[d]
               /\ \E g \in HeapId : \E r \in 1 .. Len(N.heap[g]) :
                    home2[d] = <<g, r>> /\ N.content[g][r] = d
    <3>1. /\ d # e /\ sl[d] # None /\ sl2[d] = sl[d] /\ home2[d] = home[d] /\ sl[d] \in Ind
      BY <2>1, <1>1, <1>14
    <3>2. /\ H.owner[sl[d]] = d /\ H.at[sl[d]] = home[d]
      BY <3>1, <1>1 DEF Exact
    <3>3. PICK g \in HeapId : \E r \in 1 .. Len(H.heap[g]) : home[d] = <<g, r>> /\ H.content[g][r] = d
      BY <3>1, <1>1 DEF Exact
    <3>4. PICK r \in 1 .. Len(H.heap[g]) : home[d] = <<g, r>> /\ H.content[g][r] = d
      BY <3>3
    <3>5. sl[d] # i
      BY <3>1, <3>2, <1>2
    <3>6. c[g][r] = d
      BY <3>1, <3>4, <1>4, <1>11
    <3> QED
      BY <3>1, <3>2, <3>4, <3>5, <3>6, <1>9, <1>10
  <2>2. ASSUME NEW x \in Ind, N.owner[x] # None
        PROVE  sl2[N.owner[x]] = x
    <3>1. x # i /\ N.owner[x] = H.owner[x] /\ H.owner[x] \in Owner
      BY <2>2, <1>1, <1>9, <1>10, Fields DEF Cells
    <3>2. sl[H.owner[x]] = x
      BY <3>1, <2>2, <1>1 DEF Exact
    <3>3. H.owner[x] # e
      BY <3>1, <3>2 DEF i
    <3> QED
      BY <3>1, <3>2, <3>3, <1>14
  <2>3. ASSUME NEW g \in HeapId, NEW r \in 1 .. Len(N.heap[g]), N.content[g][r] # None
        PROVE  sl2[N.content[g][r]] # None /\ home2[N.content[g][r]] = <<g, r>>
    <3>1. ~ (g = h /\ r = s)
      BY <2>3, <1>10, <1>11
    <3>2. N.content[g][r] = H.content[g][r] /\ H.content[g][r] \in Owner
      BY <3>1, <2>3, <1>1, <1>10, <1>11, Fields DEF Cells
    <3>3. sl[H.content[g][r]] # None /\ home[H.content[g][r]] = <<g, r>>
      BY <3>2, <2>3, <1>1, <1>10 DEF Exact
    <3>4. H.content[g][r] # e
      BY <3>1, <3>3, <1>4 DEF p
    <3> QED
      BY <3>2, <3>3, <3>4, <1>14
  <2> QED
    BY <2>1, <2>2, <2>3 DEF Exact
<1>16. Filled(N) = Filled(H) \ {p}
  <2>1. ASSUME NEW q \in Filled(N) PROVE q \in Filled(H) \ {p}
    <3>1. q = <<q[1], q[2]>> /\ q[1] \in HeapId /\ q[2] \in 1 .. Len(N.heap[q[1]])
          /\ N.content[q[1]][q[2]] # None
      BY <1>12, <2>1, FilledPair, Nones
    <3> QED
      BY <3>1, <1>1, <1>4, <1>10, <1>11, FilledIs
  <2>2. ASSUME NEW q \in Filled(H), q # p PROVE q \in Filled(N)
    <3>1. q = <<q[1], q[2]>> /\ q[1] \in HeapId /\ q[2] \in 1 .. Len(H.heap[q[1]])
          /\ H.content[q[1]][q[2]] # None
      BY <1>1, <2>2, FilledPair, Nones
    <3> QED
      BY <3>1, <2>2, <1>4, <1>10, <1>11, <1>12, FilledIs
  <2> QED
    BY <2>1, <2>2
<1> QED
  BY <1>5, <1>10, <1>12, <1>13, <1>14, <1>15, <1>16 DEF Sound, sl2, p

\* Writing two cells.
WrittenBothAs(n, c, h, s, x, g, r, y) ==
  \A k \in HeapId :
    /\ Len(n[k]) = Len(c[k])
    /\ \A t \in 1 .. Len(c[k]) :
         n[k][t] = IF k = g /\ t = r THEN y ELSE IF k = h /\ t = s THEN x ELSE c[k][t]

\* Two cells are written, one after the other.
LEMMA WrittenTwice ==
  ASSUME NEW c, NEW w, NEW n, NEW h, NEW s, NEW x, NEW g, NEW r, NEW y,
         WrittenAs(w, c, h, s, x), WrittenAs(n, w, g, r, y)
  PROVE  WrittenBothAs(n, c, h, s, x, g, r, y)
BY DEF WrittenAs, WrittenBothAs

\* Two slots trade places.
Swapped(m, f, a2, p2, a, p, h, s, g, r) ==
  /\ Mutual(m, f, a2, p2)
  /\ a2 \in [Ind -> Place \cup {None}] /\ p2 \in [HeapId -> Seq(Ind)]
  /\ p[h][s] \in Ind /\ p[g][r] \in Ind /\ p[h][s] # p[g][r]
  /\ \A x \in Ind : a2[x] = IF x = p[h][s] THEN <<g, r>> ELSE IF x = p[g][r] THEN <<h, s>> ELSE a[x]
  /\ \A k \in HeapId : Len(p2[k]) = Len(p[k])

\* Two slots change places and the pointers follow.
LEMMA SwapMutual ==
  ASSUME NEW m \in Nat, m <= MaxInd, NEW f \in Seq(Ind), NEW a \in [Ind -> Place \cup {None}],
         NEW p \in [HeapId -> Seq(Ind)], Mutual(m, f, a, p),
         NEW h \in HeapId, NEW s \in 1 .. Len(p[h]), NEW g \in HeapId, NEW r \in 1 .. Len(p[g]),
         NEW i, i = p[h][s], NEW j, j = p[g][r], <<h, s>> # <<g, r>>,
         NEW a2, a2 = [a EXCEPT ![i] = a[j], ![j] = a[i]],
         NEW p2, p2 = Written(Written(p, h, s, j), g, r, i)
  PROVE  Swapped(m, f, a2, p2, a, p, h, s, g, r)
<1>1. /\ i \in Ind /\ a[i] = <<h, s>> /\ j \in Ind /\ a[j] = <<g, r>> /\ i <= m /\ j <= m
  BY SeqIs DEF Mutual
<1>2. i # j
  BY <1>1
<1>3. /\ a2 \in [Ind -> Place \cup {None}]
      /\ \A x \in Ind : a2[x] = IF x = i THEN <<g, r>> ELSE IF x = j THEN <<h, s>> ELSE a[x]
  BY <1>1, <1>2
<1>4. /\ p2 \in [HeapId -> Seq(Ind)]
      /\ \A k \in HeapId :
           /\ Len(p2[k]) = Len(p[k])
           /\ \A t \in 1 .. Len(p[k]) :
                p2[k][t] = IF k = g /\ t = r THEN i ELSE IF k = h /\ t = s THEN j ELSE p[k][t]
  <2> DEFINE w == Written(p, h, s, j)
  <2>1. w \in [HeapId -> Seq(Ind)] /\ WrittenAs(w, p, h, s, j)
    BY <1>1, WrittenOK
  <2> HIDE DEF w
  <2>2. p2 = Written(w, g, r, i)
    BY DEF w
  <2>3. r \in 1 .. Len(w[g])
    BY <2>1 DEF WrittenAs
  <2>4. Written(w, g, r, i) \in [HeapId -> Seq(Ind)] /\ WrittenAs(Written(w, g, r, i), w, g, r, i)
    BY <1>1, <2>1, <2>3, WrittenOK
  <2> QED
    BY <2>1, <2>2, <2>4, WrittenTwice DEF WrittenBothAs
<1>5. \A k \in HeapId : \A t \in 1 .. Len(p[k]) : p[k][t] \in Ind /\ <<k, t>> \in Place
  BY SeqIs DEF Place
<1>6. <<h, s>> # None /\ <<g, r>> # None
  BY <1>5, Nones
<1>7. ASSUME NEW k \in HeapId, NEW t \in 1 .. Len(p2[k])
      PROVE  p2[k][t] <= m /\ a2[p2[k][t]] = <<k, t>>
  <2>1. t \in 1 .. Len(p[k]) /\ p[k][t] \in Ind
    BY <1>4, <1>5
  <2>2. a[p[k][t]] = <<k, t>> /\ p[k][t] <= m
    BY <2>1 DEF Mutual
  <2>3. CASE k = g /\ t = r
    BY <2>1, <2>3, <1>1, <1>3, <1>4
  <2>4. CASE ~ (k = g /\ t = r) /\ k = h /\ t = s
    BY <2>1, <2>4, <1>1, <1>2, <1>3, <1>4
  <2>5. CASE ~ (k = g /\ t = r) /\ ~ (k = h /\ t = s)
    <3>1. p2[k][t] = p[k][t]
      BY <2>1, <2>5, <1>4
    <3>2. p[k][t] # i /\ p[k][t] # j
      BY <2>2, <2>5, <1>1
    <3> QED
      BY <3>1, <3>2, <2>1, <2>2, <1>3
  <2> QED
    BY <2>3, <2>4, <2>5
<1>8. ASSUME NEW x \in Ind, a2[x] # None
      PROVE  \E k \in HeapId : \E t \in 1 .. Len(p2[k]) : a2[x] = <<k, t>> /\ p2[k][t] = x
  <2>1. CASE x = i
    <3>1. a2[x] = <<g, r>> /\ r \in 1 .. Len(p2[g]) /\ p2[g][r] = x
      BY <2>1, <1>3, <1>4
    <3> QED
      BY <3>1
  <2>2. CASE x = j
    <3>1. a2[x] = <<h, s>> /\ s \in 1 .. Len(p2[h]) /\ p2[h][s] = x
      BY <2>2, <1>2, <1>3, <1>4
    <3> QED
      BY <3>1
  <2>3. CASE x # i /\ x # j
    <3>1. a2[x] = a[x] /\ a[x] # None
      BY <2>3, <1>3, <1>8
    <3>2. PICK k \in HeapId : \E t \in 1 .. Len(p[k]) : a[x] = <<k, t>> /\ p[k][t] = x
      BY <3>1 DEF Mutual
    <3>3. PICK t \in 1 .. Len(p[k]) : a[x] = <<k, t>> /\ p[k][t] = x
      BY <3>2
    <3>4. p2[k][t] = x
      BY <3>3, <2>3, <1>4
    <3>5. t \in 1 .. Len(p2[k]) /\ a2[x] = <<k, t>>
      BY <3>1, <3>3, <1>4
    <3> QED
      BY <3>4, <3>5
  <2> QED
    BY <2>1, <2>2, <2>3
<1>9. \A k \in 1 .. Len(f) : f[k] <= m /\ a2[f[k]] = None
  <2> SUFFICES ASSUME NEW k \in 1 .. Len(f) PROVE f[k] <= m /\ a2[f[k]] = None
    OBVIOUS
  <2>1. f[k] \in Ind
    BY SeqIs
  <2>2. f[k] <= m /\ a[f[k]] = None
    BY DEF Mutual
  <2> QED
    BY <2>1, <2>2, <1>1, <1>3, <1>6
<1>10. \A x \in 1 .. m : a2[x] = None => \E k \in 1 .. Len(f) : f[k] = x
  <2> SUFFICES ASSUME NEW x \in 1 .. m, a2[x] = None PROVE \E k \in 1 .. Len(f) : f[k] = x
    OBVIOUS
  <2>1. a2[i] # None /\ a2[j] # None
    BY <1>1, <1>3, <1>6
  <2>2. x # i /\ x # j
    BY <2>1
  <2>4. x \in Ind
    BY Nones
  <2>3. a2[x] = a[x]
    BY <2>2, <2>4, <1>3
  <2> QED
    BY <2>3 DEF Mutual
<1>11. \A k, l \in 1 .. Len(f) : f[k] = f[l] => k = l
  BY ZenonT(30) DEF Mutual
<1>12. Mutual(m, f, a2, p2)
  BY <1>7, <1>8, <1>9, <1>10, <1>11 DEF Mutual
<1> QED
  BY <1>1, <1>2, <1>3, <1>4, <1>12 DEF Swapped

\* A component is swapped with an empty slot: its handle follows it.
LEMMA SwapSlotsOK ==
  ASSUME NEW H, NEW sl, NEW home, Sound(H, sl, home), NEW e \in Owner, sl[e] # None,
         NEW g \in HeapId, NEW r \in 1 .. Len(H.heap[g]), NEW q, q = <<g, r>>, q \notin Filled(H),
         NEW home2 \in [Owner -> Place \cup {None}], home2[e] = q,
         \A d \in Owner : d # e => home2[d] = home[d],
         NEW N, N = SwapSlots(H, home[e], q)
  PROVE  /\ Sound(N, sl, home2)
         /\ \A k \in HeapId : Len(N.heap[k]) = Len(H.heap[k])
         /\ home[e] \in Filled(H)
         /\ Filled(N) = (Filled(H) \ {home[e]}) \cup {q}
<1> DEFINE p == home[e]
<1>1. /\ HeapTypes(H) /\ Pointers(H) /\ Exact(H, sl, home)
      /\ sl \in [Owner -> Ind \cup {None}] /\ home \in [Owner -> Place \cup {None}]
  BY DEF Sound
<1>2. sl[e] \in Ind /\ H.owner[sl[e]] = e /\ H.at[sl[e]] = p
      /\ \E k \in HeapId : \E t \in 1 .. Len(H.heap[k]) : p = <<k, t>> /\ H.content[k][t] = e
  BY <1>1 DEF Exact
<1> HIDE DEF p
<1>3. PICK h \in HeapId : \E t \in 1 .. Len(H.heap[h]) : p = <<h, t>> /\ H.content[h][t] = e
  BY <1>2
<1>4. PICK s \in 1 .. Len(H.heap[h]) : p = <<h, s>> /\ H.content[h][s] = e
  BY <1>3
<1>5. /\ H \in HeapRecord /\ p[1] = h /\ p[2] = s /\ p \in Place /\ p # None /\ p \in Filled(H)
      /\ q[1] = g /\ q[2] = r /\ q \in Place /\ q # None /\ H.content[g][r] = None
      /\ p # q
  <2>1. H \in HeapRecord /\ s \in Nat /\ r \in Nat
    BY <1>1, Fields DEF HeapTypes
  <2>2. p \in Filled(H)
    BY <1>1, <1>4, FilledIs, Nones
  <2>3. H.content[g][r] = None
    BY <1>1, FilledIs
  <2> QED
    BY <1>4, <2>1, <2>2, <2>3, Nones DEF Place
<1> DEFINE i == H.heap[h][s]
           j == H.heap[g][r]
           a2 == [H.at EXCEPT ![i] = H.at[j], ![j] = H.at[i]]
           p2 == Written(Written(H.heap, h, s, j), g, r, i)
           c2 == Written(Written(H.content, h, s, None), g, r, e)
<1>6. N = HeapsOf(H.made, H.free, H.owner, a2, p2, c2)
  <2>1. i = H.heap[p[1]][p[2]] /\ j = H.heap[q[1]][q[2]]
        /\ H.content[q[1]][q[2]] = None /\ H.content[p[1]][p[2]] = e
    BY <1>4, <1>5
  <2> HIDE DEF i, j
  <2> QED
    <3>1. SwapSlots(H, p, q) =
            HeapsOf(H.made, H.free, H.owner, [H.at EXCEPT ![i] = H.at[j], ![j] = H.at[i]],
                    Written(Written(H.heap, p[1], p[2], j), q[1], q[2], i),
                    Written(Written(H.content, p[1], p[2], H.content[q[1]][q[2]]),
                            q[1], q[2], H.content[p[1]][p[2]]))
      BY ONLY <1>5, <2>1, SwapSlotsFields
    <3>2. N = SwapSlots(H, p, q)
      BY DEF p
    <3> QED
      BY <3>1, <3>2, <1>5, <2>1, Zenon
<1>7. /\ Mutual(H.made, H.free, a2, p2)
      /\ a2 \in [Ind -> Place \cup {None}] /\ p2 \in [HeapId -> Seq(Ind)]
      /\ i \in Ind /\ j \in Ind /\ i # j
      /\ \A x \in Ind : a2[x] = IF x = i THEN q ELSE IF x = j THEN p ELSE H.at[x]
      /\ \A k \in HeapId : Len(p2[k]) = Len(H.heap[k])
  <2> DEFINE a == H.at
             hp == H.heap
  <2>1. /\ H.made \in Nat /\ H.made <= MaxInd /\ H.free \in Seq(Ind)
        /\ a \in [Ind -> Place \cup {None}] /\ hp \in [HeapId -> Seq(Ind)]
    BY <1>1, Fields
  <2>2. Mutual(H.made, H.free, a, hp)
    BY <1>1 DEF Pointers
  <2>3. s \in 1 .. Len(hp[h]) /\ r \in 1 .. Len(hp[g]) /\ i = hp[h][s] /\ j = hp[g][r]
    OBVIOUS
  <2>4. a2 = [a EXCEPT ![i] = a[j], ![j] = a[i]] /\ p2 = Written(Written(hp, h, s, j), g, r, i)
    OBVIOUS
  <2>5. <<h, s>> # <<g, r>> /\ p = <<h, s>>
    BY <1>4, <1>5
  <2> HIDE DEF a, hp, i, j, a2, p2
  <2>6. Swapped(H.made, H.free, a2, p2, a, hp, h, s, g, r)
    BY <2>1, <2>2, <2>3, <2>4, <2>5, SwapMutual
  <2> QED
    BY <2>3, <2>5, <2>6 DEF a, hp, Swapped
<1>8. /\ c2 \in [HeapId -> Seq(Cells)]
      /\ WrittenBothAs(c2, H.content, h, s, None, g, r, e)
  <2> DEFINE w == Written(H.content, h, s, None)
  <2>1. /\ H.content \in [HeapId -> Seq(Cells)]
        /\ s \in 1 .. Len(H.content[h]) /\ r \in 1 .. Len(H.content[g])
        /\ None \in Cells /\ e \in Cells
    BY <1>1, Fields DEF Cells
  <2>2. w \in [HeapId -> Seq(Cells)] /\ WrittenAs(w, H.content, h, s, None)
    BY <2>1, WrittenOK
  <2> HIDE DEF w
  <2>3. r \in 1 .. Len(w[g])
    BY <2>1, <2>2 DEF WrittenAs
  <2>4. Written(w, g, r, e) \in [HeapId -> Seq(Cells)] /\ WrittenAs(Written(w, g, r, e), w, g, r, e)
    BY <2>1, <2>2, <2>3, WrittenOK
  <2> QED
    BY <2>2, <2>4, WrittenTwice DEF w
<1> HIDE DEF i, j, a2, p2, c2
<1>9. /\ N.made = H.made /\ N.free = H.free /\ N.owner = H.owner /\ N.at = a2
      /\ N.heap = p2 /\ N.content = c2
  BY <1>6, HeapsOfFields
<1>10. \A k \in HeapId :
         /\ Len(c2[k]) = Len(H.heap[k])
         /\ \A t \in 1 .. Len(H.heap[k]) :
              c2[k][t] = IF k = g /\ t = r THEN e
                         ELSE IF k = h /\ t = s THEN None ELSE H.content[k][t]
  <2>1. \A k \in HeapId : Len(H.content[k]) = Len(H.heap[k])
    BY <1>1, Fields
  <2> QED
    BY <2>1, <1>8 DEF WrittenBothAs
<1>11. HeapTypes(N)
  <2>1. N \in HeapRecord
    <3>1. H.made \in Nat /\ H.free \in Seq(Ind) /\ H.owner \in [Ind -> Cells]
      BY <1>1, Fields
    <3>2. a2 \in [Ind -> Place \cup {None}] /\ p2 \in [HeapId -> Seq(Ind)] /\ c2 \in [HeapId -> Seq(Cells)]
      BY <1>7, <1>8
    <3>3. HeapsOf(H.made, H.free, H.owner, a2, p2, c2) \in HeapRecord
      BY ONLY <3>1, <3>2, HeapsOfTyped
    <3> QED
      BY <3>3, <1>6
  <2>2. H.made <= MaxInd
    BY <1>1, Fields
  <2> QED
    BY <2>1, <2>2, <1>7, <1>9, <1>10 DEF HeapTypes
<1>12. Pointers(N)
  BY <1>1, <1>7, <1>9 DEF Pointers
<1>13. sl[e] = i /\ H.at[j] = q
  <2>1. PICK k \in HeapId : \E t \in 1 .. Len(H.heap[k]) : H.at[sl[e]] = <<k, t>> /\ H.heap[k][t] = sl[e]
    BY <1>1, <1>2, <1>5 DEF Pointers, Mutual
  <2> QED
    BY <2>1, <1>1, <1>2, <1>4 DEF Pointers, Mutual, i, j
<1>14. Exact(N, sl, home2)
  <2>1. ASSUME NEW d \in Owner, sl[d] # None
        PROVE  /\ N.owner[sl[d]] = d
               /\ N.at[sl[d]] = home2[d]
               /\ \E k \in HeapId : \E t \in 1 .. Len(N.heap[k]) :
                    home2[d] = <<k, t>> /\ N.content[k][t] = d
    <3>1. CASE d = e
      <4>1. r \in 1 .. Len(N.heap[g]) /\ N.content[g][r] = e
        BY <1>7, <1>9, <1>10
      <4>2. N.owner[sl[d]] = d /\ N.at[sl[d]] = home2[d]
        BY <3>1, <1>2, <1>7, <1>9, <1>13
      <4> QED
        BY <3>1, <4>1, <4>2
    <3>2. CASE d # e
      <4>1. home2[d] = home[d] /\ sl[d] \in Ind
        BY <3>2, <2>1, <1>1
      <4>2. H.owner[sl[d]] = d /\ H.at[sl[d]] = home[d]
        BY <2>1, <1>1 DEF Exact
      <4>3. PICK k \in HeapId : \E t \in 1 .. Len(H.heap[k]) : home[d] = <<k, t>> /\ H.content[k][t] = d
        BY <2>1, <1>1 DEF Exact
      <4>4. PICK t \in 1 .. Len(H.heap[k]) : home[d] = <<k, t>> /\ H.content[k][t] = d
        BY <4>3
      <4>5. home[d] # p /\ home[d] # q
        BY <3>2, <4>4, <1>4, <1>5, Nones
      <4>6. sl[d] # i /\ sl[d] # j
        BY <3>2, <4>2, <4>5, <1>2, <1>13
      <4>7. c2[k][t] = d
        BY <4>4, <4>5, <1>4, <1>10
      <4>8. N.at[sl[d]] = home2[d]
        BY <4>1, <4>2, <4>6, <1>7, <1>9
      <4>9. t \in 1 .. Len(N.heap[k]) /\ home2[d] = <<k, t>> /\ N.content[k][t] = d
        BY <4>1, <4>4, <4>7, <1>7, <1>9
      <4> QED
        BY <4>2, <4>8, <4>9, <1>9
    <3> QED
      BY <3>1, <3>2
  <2>2. \A x \in Ind : N.owner[x] # None => sl[N.owner[x]] = x
    BY <1>1, <1>9 DEF Exact
  <2>3. ASSUME NEW k \in HeapId, NEW t \in 1 .. Len(N.heap[k]), N.content[k][t] # None
        PROVE  sl[N.content[k][t]] # None /\ home2[N.content[k][t]] = <<k, t>>
    <3>0. t \in 1 .. Len(H.heap[k])
      BY <1>7, <1>9
    <3>1. CASE k = g /\ t = r
      BY <3>0, <3>1, <1>9, <1>10
    <3>2. CASE ~ (k = g /\ t = r)
      <4>1. ~ (k = h /\ t = s)
        BY <3>0, <3>2, <2>3, <1>9, <1>10
      <4>2. N.content[k][t] = H.content[k][t] /\ H.content[k][t] \in Owner
        <5>1. N.content[k][t] = H.content[k][t]
          BY <3>0, <3>2, <4>1, <1>9, <1>10
        <5>2. H.content[k][t] \in Cells
          BY <3>0, <1>1, Fields
        <5> QED
          BY <5>1, <5>2, <2>3 DEF Cells
      <4>3. sl[H.content[k][t]] # None /\ home[H.content[k][t]] = <<k, t>>
        BY <3>0, <4>2, <2>3, <1>1 DEF Exact
      <4>4. H.content[k][t] # e
        BY <4>1, <4>3, <1>4 DEF p
      <4> QED
        BY <4>2, <4>3, <4>4
    <3> QED
      BY <3>1, <3>2
  <2> QED
    BY <2>1, <2>2, <2>3 DEF Exact
<1>15. Filled(N) = (Filled(H) \ {p}) \cup {q}
  <2>1. ASSUME NEW x \in Filled(N), x # q PROVE x \in Filled(H) \ {p}
    <3>1. x = <<x[1], x[2]>> /\ x[1] \in HeapId /\ x[2] \in 1 .. Len(N.heap[x[1]])
          /\ N.content[x[1]][x[2]] # None
      BY <1>11, <2>1, FilledPair, Nones
    <3>2. x[2] \in 1 .. Len(H.heap[x[1]])
      BY <3>1, <1>7, <1>9
    <3>3. ~ (x[1] = g /\ x[2] = r)
      BY <3>1, <2>1
    <3>4. ~ (x[1] = h /\ x[2] = s) /\ H.content[x[1]][x[2]] # None
      BY <3>1, <3>2, <3>3, <1>9, <1>10
    <3>5. <<x[1], x[2]>> \in Filled(H)
      BY <3>1, <3>2, <3>4, <1>1, FilledIs
    <3> QED
      BY <3>1, <3>4, <3>5, <1>4
  <2>2. ASSUME NEW x \in Filled(H), x # p PROVE x \in Filled(N)
    <3>1. x = <<x[1], x[2]>> /\ x[1] \in HeapId /\ x[2] \in 1 .. Len(H.heap[x[1]])
          /\ H.content[x[1]][x[2]] # None
      BY <1>1, <2>2, FilledPair, Nones
    <3>2. x[2] \in 1 .. Len(N.heap[x[1]])
      BY <3>1, <1>7, <1>9
    <3>3. ~ (x[1] = g /\ x[2] = r) /\ ~ (x[1] = h /\ x[2] = s)
      BY <3>1, <2>2, <1>4, <1>5
    <3>4. N.content[x[1]][x[2]] # None
      BY <3>1, <3>3, <1>9, <1>10
    <3>5. <<x[1], x[2]>> \in Filled(N)
      BY <3>1, <3>2, <3>4, <1>11, FilledIs
    <3> QED
      BY <3>1, <3>5
  <2>3. q \in Filled(N)
    <3>1. r \in 1 .. Len(N.heap[g]) /\ N.content[g][r] = e
      BY <1>7, <1>9, <1>10
    <3> QED
      BY <3>1, <1>11, FilledIs, Nones
  <2> QED
    BY <2>1, <2>2, <2>3
<1>16. \A k \in HeapId : Len(N.heap[k]) = Len(H.heap[k])
  BY <1>7, <1>9
<1> QED
  BY <1>1, <1>5, <1>11, <1>12, <1>14, <1>15, <1>16 DEF Sound, p

\* Two sequences, one after the other.
JoinedAs(x, q, r) ==
  /\ Len(x) = Len(q) + Len(r)
  /\ \A k \in 1 .. Len(q) : k \in 1 .. Len(x) /\ x[k] = q[k]
  /\ \A k \in 1 .. Len(r) : Len(q) + k \in 1 .. Len(x) /\ x[Len(q) + k] = r[k]
  /\ \A k \in 1 .. Len(x) : k \in 1 .. Len(q) \/ \E l \in 1 .. Len(r) : k = Len(q) + l

LEMMA Joined ==
  ASSUME NEW X, NEW q \in Seq(X), NEW r \in Seq(X)
  PROVE  q \o r \in Seq(X) /\ JoinedAs(q \o r, q, r)
<1>1. /\ q \o r \in Seq(X) /\ Len(q \o r) = Len(q) + Len(r) /\ Len(q) \in Nat /\ Len(r) \in Nat
      /\ \A k \in 1 .. Len(q) : (q \o r)[k] = q[k]
      /\ \A k \in 1 .. Len(r) : (q \o r)[Len(q) + k] = r[k]
  OBVIOUS
<1>2. ASSUME NEW k \in 1 .. Len(q) + Len(r), k \notin 1 .. Len(q)
      PROVE  \E l \in 1 .. Len(r) : k = Len(q) + l
  <2>1. k - Len(q) \in 1 .. Len(r) /\ k = Len(q) + (k - Len(q))
    BY <1>1, <1>2
  <2> QED
    BY <2>1
<1>3. \A k \in 1 .. Len(q) : k \in 1 .. Len(q \o r)
  BY <1>1
<1>4. \A k \in 1 .. Len(r) : Len(q) + k \in 1 .. Len(q \o r)
  BY <1>1
<1>5. \A k \in 1 .. Len(q \o r) : k \in 1 .. Len(q) \/ \E l \in 1 .. Len(r) : k = Len(q) + l
  BY <1>1, <1>2
<1> QED
  BY <1>1, <1>3, <1>4, <1>5, Zenon DEF JoinedAs

\* A heap without values is dropped, and nobody has a handle of its slots.
LEMMA DroppedOK ==
  ASSUME NEW H, NEW sl, NEW home, Sound(H, sl, home), NEW h \in HeapId,
         \A s \in 1 .. Len(H.heap[h]) : H.content[h][s] = None,
         NEW N, N = Dropped(H, h)
  PROVE  /\ Sound(N, sl, home)
         /\ N.heap = [H.heap EXCEPT ![h] = <<>>]
         /\ Filled(N) = Filled(H)
<1>1. /\ HeapTypes(H) /\ Pointers(H) /\ Exact(H, sl, home)
      /\ sl \in [Owner -> Ind \cup {None}] /\ home \in [Owner -> Place \cup {None}]
  BY DEF Sound
<1>2. /\ H \in HeapRecord /\ H.heap[h] \in Seq(Ind) /\ Len(H.heap[h]) \in Nat
      /\ DOMAIN H.heap[h] = 1 .. Len(H.heap[h])
      /\ \A s \in 1 .. Len(H.heap[h]) : H.heap[h][s] \in Ind /\ H.heap[h][s] <= H.made
                                        /\ H.at[H.heap[h][s]] = <<h, s>> /\ <<h, s>> # None
  <2>1. /\ H \in HeapRecord /\ H.heap[h] \in Seq(Ind) /\ Len(H.heap[h]) \in Nat
        /\ DOMAIN H.heap[h] = 1 .. Len(H.heap[h])
        /\ \A s \in 1 .. Len(H.heap[h]) : H.heap[h][s] \in Ind
    BY <1>1, Fields DEF HeapTypes
  <2>2. \A s \in 1 .. Len(H.heap[h]) : <<h, s>> \in Place
    BY <2>1 DEF Place
  <2>3. \A s \in 1 .. Len(H.heap[h]) : H.heap[h][s] <= H.made /\ H.at[H.heap[h][s]] = <<h, s>>
    BY <1>1 DEF Pointers, Mutual
  <2> QED
    BY <2>1, <2>2, <2>3, Nones
<1> DEFINE was == H.free
           rest == H.heap[h]
           gone == Freed(H, h)
           f2 == H.free \o H.heap[h]
           o2 == [i \in Ind |-> IF i \in gone THEN None ELSE H.owner[i]]
           a2 == [i \in Ind |-> IF i \in gone THEN None ELSE H.at[i]]
           p2 == [H.heap EXCEPT ![h] = <<>>]
           c2 == [H.content EXCEPT ![h] = <<>>]
<1>3. N = HeapsOf(H.made, f2, o2, a2, p2, c2)
  BY <1>2, DroppedFields
<1>4. \A i : i \in gone <=> \E s \in 1 .. Len(rest) : rest[s] = i
  BY <1>2 DEF Freed
<1>5. /\ f2 \in Seq(Ind) /\ Len(f2) = Len(was) + Len(rest)
      /\ \A k \in 1 .. Len(was) : k \in 1 .. Len(f2) /\ f2[k] = was[k]
      /\ \A k \in 1 .. Len(rest) : Len(was) + k \in 1 .. Len(f2) /\ f2[Len(was) + k] = rest[k]
      /\ \A k \in 1 .. Len(f2) : k \in 1 .. Len(was) \/ \E l \in 1 .. Len(rest) : k = Len(was) + l
  <2>1. was \in Seq(Ind) /\ rest \in Seq(Ind)
    BY <1>1, <1>2, Fields
  <2> HIDE DEF was, rest
  <2>2. f2 = was \o rest
    BY DEF was, rest
  <2> HIDE DEF f2
  <2>3. f2 \in Seq(Ind) /\ JoinedAs(f2, was, rest)
    BY <2>1, <2>2, Joined
  <2> QED
    BY <2>3 DEF JoinedAs
<1>6. /\ o2 \in [Ind -> Cells] /\ a2 \in [Ind -> Place \cup {None}]
      /\ \A i \in Ind : o2[i] = IF i \in gone THEN None ELSE H.owner[i]
      /\ \A i \in Ind : a2[i] = IF i \in gone THEN None ELSE H.at[i]
  <2>1. H.owner \in [Ind -> Cells] /\ H.at \in [Ind -> Place \cup {None}]
    BY <1>1, Fields
  <2> HIDE DEF gone
  <2> QED
    BY <2>1 DEF Cells
<1>7. /\ p2 \in [HeapId -> Seq(Ind)] /\ c2 \in [HeapId -> Seq(Cells)]
      /\ p2[h] = <<>> /\ c2[h] = <<>>
      /\ \A g \in HeapId : g # h => p2[g] = H.heap[g] /\ c2[g] = H.content[g]
  <2>1. H.heap \in [HeapId -> Seq(Ind)] /\ H.content \in [HeapId -> Seq(Cells)]
    BY <1>1, Fields
  <2> QED
    BY <2>1
<1>8. /\ was \in Seq(Ind) /\ Len(was) \in Nat /\ \A k \in 1 .. Len(was) : was[k] \in Ind
      /\ \A k \in 1 .. Len(was) : was[k] <= H.made /\ H.at[was[k]] = None /\ H.owner[was[k]] = None
      /\ \A k, l \in 1 .. Len(was) : was[k] = was[l] => k = l
  <2>1. /\ was \in Seq(Ind) /\ Len(was) \in Nat /\ \A k \in 1 .. Len(was) : was[k] \in Ind
    BY <1>1, Fields
  <2>2. /\ \A k \in 1 .. Len(was) : was[k] <= H.made /\ H.at[was[k]] = None
        /\ \A k \in 1 .. Len(was) : H.owner[was[k]] = None
        /\ \A k, l \in 1 .. Len(was) : was[k] = was[l] => k = l
    BY <1>1 DEF Pointers, Mutual, Disowned
  <2> QED
    BY <2>1, <2>2
<1> HIDE DEF was, rest, gone, f2, o2, a2, p2, c2
<1>9. /\ N.made = H.made /\ N.free = f2 /\ N.owner = o2 /\ N.at = a2 /\ N.heap = p2 /\ N.content = c2
  BY <1>3, HeapsOfFields
<1>10. HeapTypes(N)
  <2>1. N \in HeapRecord
    <3>1. H.made \in Nat
      BY <1>1, Fields
    <3>2. HeapsOf(H.made, f2, o2, a2, p2, c2) \in HeapRecord
      BY ONLY <3>1, <1>5, <1>6, <1>7, HeapsOfTyped
    <3> QED
      BY <3>2, <1>3
  <2>2. \A g \in HeapId : Len(c2[g]) = Len(p2[g])
    BY <1>1, <1>7, Fields
  <2>3. H.made <= MaxInd
    BY <1>1, Fields
  <2> QED
    BY <2>1, <2>2, <2>3, <1>9 DEF HeapTypes
\* A slot of another heap is not given back.
<1>11. ASSUME NEW g \in HeapId, g # h, NEW t \in 1 .. Len(H.heap[g])
       PROVE  H.heap[g][t] \in Ind /\ H.heap[g][t] \notin gone
              /\ H.heap[g][t] <= H.made /\ H.at[H.heap[g][t]] = <<g, t>>
  <2>1. H.heap[g][t] \in Ind /\ H.at[H.heap[g][t]] = <<g, t>> /\ H.heap[g][t] <= H.made
    BY <1>1, Fields DEF Pointers, Mutual
  <2> QED
    <3>1. ASSUME NEW s \in 1 .. Len(H.heap[h]), H.heap[h][s] = H.heap[g][t] PROVE FALSE
      <4>1. <<h, s>> = <<g, t>>
        BY <2>1, <3>1, <1>2
      <4> QED
        BY <4>1, <1>11
    <3> QED
      BY <2>1, <3>1, <1>4 DEF rest
<1>12. Mutual(H.made, f2, a2, p2)
  <2>1. ASSUME NEW g \in HeapId, NEW t \in 1 .. Len(p2[g])
        PROVE  p2[g][t] <= H.made /\ a2[p2[g][t]] = <<g, t>>
    <3>1. g # h
      BY <2>1, <1>7
    <3>2. p2[g] = H.heap[g] /\ t \in 1 .. Len(H.heap[g])
      BY <3>1, <1>7
    <3>3. /\ H.heap[g][t] \in Ind /\ H.heap[g][t] \notin gone
          /\ H.heap[g][t] <= H.made /\ H.at[H.heap[g][t]] = <<g, t>>
      BY <3>1, <3>2, <1>11
    <3> QED
      BY <3>2, <3>3, <1>6
  <2>2. ASSUME NEW x \in Ind, a2[x] # None
        PROVE  \E g \in HeapId : \E t \in 1 .. Len(p2[g]) : a2[x] = <<g, t>> /\ p2[g][t] = x
    <3>1. x \notin gone /\ a2[x] = H.at[x]
      BY <2>2, <1>6
    <3>2. PICK g \in HeapId : \E t \in 1 .. Len(H.heap[g]) : H.at[x] = <<g, t>> /\ H.heap[g][t] = x
      BY <2>2, <3>1, <1>1 DEF Pointers, Mutual
    <3>3. g # h
      BY <3>1, <3>2, <1>4 DEF rest
    <3> QED
      BY <3>1, <3>2, <3>3, <1>7
  <2>3. ASSUME NEW k \in 1 .. Len(f2) PROVE f2[k] <= H.made /\ a2[f2[k]] = None
    <3>1. CASE k \in 1 .. Len(was)
      BY <3>1, <1>5, <1>6, <1>8
    <3>2. ASSUME NEW l \in 1 .. Len(rest), k = Len(was) + l PROVE f2[k] <= H.made /\ a2[f2[k]] = None
      <4>1. f2[k] = rest[l] /\ rest[l] \in gone /\ rest[l] \in Ind /\ rest[l] <= H.made
        BY <3>2, <1>2, <1>4, <1>5 DEF rest
      <4> QED
        BY <4>1, <1>6
    <3> QED
      BY <3>1, <3>2, <1>5
  <2>4. ASSUME NEW k \in 1 .. Len(f2), NEW l \in 1 .. Len(f2), f2[k] = f2[l] PROVE k = l
    <3>1. \A x \in 1 .. Len(was), y \in 1 .. Len(rest) : was[x] # rest[y]
      <4>1. \A y \in 1 .. Len(rest) : H.at[rest[y]] # None
        BY <1>2 DEF rest
      <4> QED
        BY <4>1, <1>8
    <3>2. \A x, y \in 1 .. Len(rest) : rest[x] = rest[y] => x = y
      BY <1>2 DEF rest
    <3>3. CASE k \in 1 .. Len(was) /\ l \in 1 .. Len(was)
      BY <3>3, <2>4, <1>5, <1>8
    <3>4. CASE k \in 1 .. Len(was) /\ l \notin 1 .. Len(was)
      BY <3>1, <3>4, <2>4, <1>5
    <3>5. CASE k \notin 1 .. Len(was) /\ l \in 1 .. Len(was)
      BY <3>1, <3>5, <2>4, <1>5
    <3>6. CASE k \notin 1 .. Len(was) /\ l \notin 1 .. Len(was)
      <4>1. PICK x \in 1 .. Len(rest) : k = Len(was) + x
        BY <3>6, <1>5
      <4>2. PICK y \in 1 .. Len(rest) : l = Len(was) + y
        BY <3>6, <1>5
      <4>3. rest[x] = rest[y]
        BY <4>1, <4>2, <2>4, <1>5
      <4> QED
        BY <4>1, <4>2, <4>3, <3>2
    <3> QED
      BY <3>3, <3>4, <3>5, <3>6
  <2>5. ASSUME NEW x \in 1 .. H.made, a2[x] = None PROVE \E k \in 1 .. Len(f2) : f2[k] = x
    <3>1. x \in Ind
      BY <1>1, Fields, Nones
    <3>2. CASE x \in gone
      <4>1. PICK l \in 1 .. Len(rest) : rest[l] = x
        BY <3>2, <1>4
      <4> QED
        BY <4>1, <1>5
    <3>3. CASE x \notin gone
      <4>1. H.at[x] = None
        BY <3>1, <3>3, <2>5, <1>6
      <4>2. PICK k \in 1 .. Len(was) : was[k] = x
        BY <4>1, <1>1 DEF Pointers, Mutual, was
      <4> QED
        BY <4>2, <1>5
    <3> QED
      BY <3>2, <3>3
  <2> QED
    BY <2>1, <2>2, <2>3, <2>4, <2>5 DEF Mutual
<1>13. Disowned(H.made, f2, o2)
  <2>1. ASSUME NEW k \in 1 .. Len(f2) PROVE o2[f2[k]] = None
    <3>1. CASE k \in 1 .. Len(was)
      <4>1. f2[k] = was[k] /\ was[k] \in Ind /\ H.owner[was[k]] = None
        BY <3>1, <1>5, <1>8
      <4> QED
        BY <4>1, <1>6
    <3>2. ASSUME NEW l \in 1 .. Len(rest), k = Len(was) + l PROVE o2[f2[k]] = None
      <4>1. f2[k] = rest[l] /\ rest[l] \in gone /\ rest[l] \in Ind
        BY <3>2, <1>2, <1>4, <1>5 DEF rest
      <4> QED
        BY <4>1, <1>6
    <3> QED
      BY <3>1, <3>2, <1>5
  <2>2. \A i \in Ind : i > H.made => o2[i] = None
    BY <1>1, <1>6 DEF Pointers, Disowned
  <2> QED
    BY <2>1, <2>2 DEF Disowned
<1>14. Pointers(N)
  BY <1>9, <1>12, <1>13 DEF Pointers
<1>15. Exact(N, sl, home)
  <2>1. ASSUME NEW d \in Owner, sl[d] # None
        PROVE  /\ N.owner[sl[d]] = d
               /\ N.at[sl[d]] = home[d]
               /\ \E g \in HeapId : \E t \in 1 .. Len(N.heap[g]) :
                    home[d] = <<g, t>> /\ N.content[g][t] = d
    <3>1. sl[d] \in Ind /\ H.owner[sl[d]] = d /\ H.at[sl[d]] = home[d]
      BY <2>1, <1>1 DEF Exact
    <3>2. PICK g \in HeapId : \E t \in 1 .. Len(H.heap[g]) : home[d] = <<g, t>> /\ H.content[g][t] = d
      BY <2>1, <1>1 DEF Exact
    <3>3. PICK t \in 1 .. Len(H.heap[g]) : home[d] = <<g, t>> /\ H.content[g][t] = d
      BY <3>2
    <3>4. g # h
      BY <3>3, Nones
    <3>5. sl[d] \notin gone
      BY <3>1, <3>3, <3>4, <1>2, <1>4 DEF rest
    <3>6. t \in 1 .. Len(N.heap[g]) /\ N.content[g][t] = d
      BY <3>3, <3>4, <1>7, <1>9
    <3>7. N.owner[sl[d]] = d /\ N.at[sl[d]] = home[d]
      BY <3>1, <3>5, <1>6, <1>9
    <3> QED
      BY <3>3, <3>6, <3>7
  <2>2. \A i \in Ind : N.owner[i] # None => sl[N.owner[i]] = i
    BY <1>1, <1>6, <1>9 DEF Exact
  <2>3. ASSUME NEW g \in HeapId, NEW t \in 1 .. Len(N.heap[g]), N.content[g][t] # None
        PROVE  sl[N.content[g][t]] # None /\ home[N.content[g][t]] = <<g, t>>
    <3>1. g # h
      BY <2>3, <1>7, <1>9
    <3>2. t \in 1 .. Len(H.heap[g]) /\ N.content[g][t] = H.content[g][t]
      BY <3>1, <1>7, <1>9
    <3>3. H.content[g][t] # None
      BY <3>2, <2>3
    <3>4. sl[H.content[g][t]] # None /\ home[H.content[g][t]] = <<g, t>>
      BY <3>2, <3>3, <1>1 DEF Exact
    <3> QED
      BY <3>2, <3>4
  <2> QED
    BY <2>1, <2>2, <2>3 DEF Exact
<1>16. Filled(N) = Filled(H)
  <2>1. ASSUME NEW x \in Filled(N) PROVE x \in Filled(H)
    <3>1. x = <<x[1], x[2]>> /\ x[1] \in HeapId /\ x[2] \in 1 .. Len(N.heap[x[1]])
          /\ N.content[x[1]][x[2]] # None
      BY <1>10, <2>1, FilledPair, Nones
    <3>2. x[1] # h
      BY <3>1, <1>7, <1>9
    <3>3. x[2] \in 1 .. Len(H.heap[x[1]]) /\ H.content[x[1]][x[2]] # None
      BY <3>1, <3>2, <1>7, <1>9
    <3>4. <<x[1], x[2]>> \in Filled(H)
      BY <3>1, <3>3, <1>1, FilledIs
    <3> QED
      BY <3>1, <3>4
  <2>2. ASSUME NEW x \in Filled(H) PROVE x \in Filled(N)
    <3>1. x = <<x[1], x[2]>> /\ x[1] \in HeapId /\ x[2] \in 1 .. Len(H.heap[x[1]])
          /\ H.content[x[1]][x[2]] # None
      BY <1>1, <2>2, FilledPair, Nones
    <3>2. x[1] # h
      BY <3>1
    <3>3. x[2] \in 1 .. Len(N.heap[x[1]]) /\ N.content[x[1]][x[2]] # None
      BY <3>1, <3>2, <1>7, <1>9
    <3>4. <<x[1], x[2]>> \in Filled(N)
      BY <3>1, <3>3, <1>10, FilledIs
    <3> QED
      BY <3>1, <3>4
  <2> QED
    BY <2>1, <2>2
<1> QED
  BY <1>1, <1>9, <1>10, <1>14, <1>15, <1>16 DEF Sound, p2

\* Indirectors are made, when there are too few, and join the free ones.
LEMMA ExtendedOK ==
  ASSUME NEW H, HeapTypes(H), Pointers(H), NEW h \in HeapId, Affordable(H, h),
         NEW m, m = H.made + Additional(H, HeapLen[h]), NEW x, x = Extended(H, h)
  PROVE  /\ m \in Nat /\ m <= MaxInd
         /\ x \in Seq(Ind) /\ Kept(H, h) \in Nat /\ Len(x) = Kept(H, h) + HeapLen[h]
         /\ Mutual(m, x, H.at, H.heap) /\ Disowned(m, x, H.owner)
<1> DEFINE made0 == H.made
           was == H.free
           n == HeapLen[h]
           add == Additional(H, n)
           more == [j \in 1 .. add |-> made0 + j]
<1>1. /\ made0 \in Nat /\ was \in Seq(Ind) /\ Len(was) \in Nat /\ n \in Nat
      /\ \A k \in 1 .. Len(was) : was[k] \in Ind
  BY Fields, Nones
<1>2. add \in Nat /\ Len(was) + add >= n /\ m = made0 + add /\ x = was \o more /\ m <= MaxInd
  <2>1. add \in Nat /\ Len(was) + add >= n
    BY <1>1, Nones DEF Additional
  <2> QED
    BY <2>1 DEF Affordable, Extended
<1>3. Kept(H, h) = Len(x) - n
  BY DEF Kept
<1>4. /\ \A i \in Ind : H.at[i] # None => i <= made0
      /\ \A h1 \in HeapId : \A s \in 1 .. Len(H.heap[h1]) :
           H.heap[h1][s] <= made0 /\ H.at[H.heap[h1][s]] = <<h1, s>> /\ H.heap[h1][s] \in Ind
      /\ \A i \in Ind : H.at[i] # None =>
           \E h1 \in HeapId : \E s \in 1 .. Len(H.heap[h1]) : H.at[i] = <<h1, s>> /\ H.heap[h1][s] = i
      /\ \A k \in 1 .. Len(was) : was[k] <= made0 /\ H.at[was[k]] = None /\ H.owner[was[k]] = None
      /\ \A k, l \in 1 .. Len(was) : was[k] = was[l] => k = l
      /\ \A i \in 1 .. made0 : H.at[i] = None => \E k \in 1 .. Len(was) : was[k] = i
      /\ \A i \in Ind : i > made0 => H.owner[i] = None
  <2>1. Mutual(H.made, H.free, H.at, H.heap) /\ Disowned(H.made, H.free, H.owner)
    BY DEF Pointers
  <2>2. \A h1 \in HeapId : \A s \in 1 .. Len(H.heap[h1]) : H.heap[h1][s] \in Ind
    BY Fields
  <2>3. \A i \in Ind : H.at[i] # None => i <= made0
    BY <2>1 DEF Mutual
  <2> QED
    BY <2>1, <2>2, <2>3 DEF Mutual, Disowned
<1> HIDE DEF made0, was, n, add
<1>5. more \in Seq(Ind) /\ Len(more) = add /\ \A j \in 1 .. add : more[j] = made0 + j
  <2>1. \A j \in 1 .. add : made0 + j \in Ind
    BY <1>1, <1>2, Nones
  <2> QED
    BY <2>1, <1>2
<1> HIDE DEF more
<1>6. /\ x \in Seq(Ind) /\ Len(x) = Len(was) + add
      /\ \A k \in 1 .. Len(was) : k \in 1 .. Len(x) /\ x[k] = was[k]
      /\ \A k \in 1 .. add : Len(was) + k \in 1 .. Len(x) /\ x[Len(was) + k] = made0 + k
      /\ \A k \in 1 .. Len(x) : k \in 1 .. Len(was) \/ \E l \in 1 .. add : k = Len(was) + l
  <2>1. was \in Seq(Ind) /\ more \in Seq(Ind)
    BY <1>1, <1>5
  <2>2. x \in Seq(Ind) /\ JoinedAs(x, was, more)
    BY <2>1, <1>2, Joined
  <2>3. Len(more) = add /\ \A j \in 1 .. add : more[j] = made0 + j
    BY <1>5
  <2> QED
    BY <2>2, <2>3 DEF JoinedAs
<1>7. \A j \in 1 .. add : made0 + j \in Ind /\ made0 + j > made0 /\ made0 + j <= m
  BY <1>1, <1>2, Nones
<1>8. ASSUME NEW k \in 1 .. Len(x)
      PROVE  x[k] <= m /\ H.at[x[k]] = None /\ H.owner[x[k]] = None
  <2>1. CASE k \in 1 .. Len(was)
    <3>1. x[k] = was[k] /\ was[k] \in Ind /\ was[k] <= made0 /\ H.at[was[k]] = None /\ H.owner[was[k]] = None
      BY <2>1, <1>1, <1>4, <1>6
    <3> QED
      BY <3>1, <1>1, <1>2, Nones
  <2>2. ASSUME NEW l \in 1 .. add, k = Len(was) + l
        PROVE  x[k] <= m /\ H.at[x[k]] = None /\ H.owner[x[k]] = None
    <3>1. x[k] = made0 + l
      BY <2>2, <1>6
    <3>2. made0 + l \in Ind /\ ~ (made0 + l <= made0) /\ made0 + l > made0 /\ made0 + l <= m
      BY <1>1, <1>7
    <3> QED
      BY <3>1, <3>2, <1>4
  <2> QED
    BY <2>1, <2>2, <1>6
<1>9. ASSUME NEW k \in 1 .. Len(x), NEW l \in 1 .. Len(x), x[k] = x[l] PROVE k = l
  <2>1. \A a \in 1 .. Len(was), b \in 1 .. add : was[a] # made0 + b
    <3>1. \A k1 \in 1 .. Len(was) : was[k1] <= made0 /\ was[k1] \in Nat
      BY <1>1, <1>4, Nones
    <3>2. \A b \in 1 .. add : made0 + b > made0 /\ made0 + b \in Nat
      BY <1>7, Nones
    <3> QED
      BY ONLY <3>1, <3>2, <1>1
  <2>2. CASE k \in 1 .. Len(was) /\ l \in 1 .. Len(was)
    BY <2>2, <1>4, <1>6, <1>9
  <2>3. CASE k \in 1 .. Len(was) /\ l \notin 1 .. Len(was)
    BY <2>1, <2>3, <1>6, <1>9
  <2>4. CASE k \notin 1 .. Len(was) /\ l \in 1 .. Len(was)
    BY <2>1, <2>4, <1>6, <1>9
  <2>5. CASE k \notin 1 .. Len(was) /\ l \notin 1 .. Len(was)
    <3>1. PICK a \in 1 .. add : k = Len(was) + a
      BY <2>5, <1>6
    <3>2. PICK b \in 1 .. add : l = Len(was) + b
      BY <2>5, <1>6
    <3>3. made0 + a = made0 + b
      BY <3>1, <3>2, <1>6, <1>9
    <3> QED
      BY <3>1, <3>2, <3>3, <1>1, <1>2
  <2> QED
    BY <2>2, <2>3, <2>4, <2>5
<1>10. ASSUME NEW i \in 1 .. m, H.at[i] = None PROVE \E k \in 1 .. Len(x) : x[k] = i
  <2>1. CASE i <= made0
    <3>1. PICK k \in 1 .. Len(was) : was[k] = i
      BY <2>1, <1>1, <1>2, <1>4, <1>10
    <3> QED
      BY <3>1, <1>6
  <2>2. CASE ~ (i <= made0)
    <3>1. i - made0 \in 1 .. add /\ made0 + (i - made0) = i
      BY <2>2, <1>1, <1>2
    <3> QED
      BY <3>1, <1>6
  <2> QED
    BY <2>1, <2>2
<1>11. Mutual(m, x, H.at, H.heap)
  <2>1. \A h1 \in HeapId : \A s \in 1 .. Len(H.heap[h1]) :
          H.heap[h1][s] <= m /\ H.at[H.heap[h1][s]] = <<h1, s>>
    <3>1. \A h1 \in HeapId : \A s \in 1 .. Len(H.heap[h1]) :
            /\ H.heap[h1][s] <= made0 /\ H.at[H.heap[h1][s]] = <<h1, s>>
            /\ H.heap[h1][s] \in Nat
      BY <1>4, Nones
    <3>2. \A i \in Nat : i <= made0 => i <= m
      BY <1>1, <1>2
    <3> QED
      BY ONLY <3>1, <3>2
  <2> QED
    BY <2>1, <1>4, <1>8, <1>9, <1>10 DEF Mutual
<1>12. Disowned(m, x, H.owner)
  <2>1. \A i \in Ind : i > m => H.owner[i] = None
    BY <1>1, <1>2, <1>4, Nones
  <2> QED
    BY <2>1, <1>8 DEF Disowned
<1>13. m \in Nat /\ Kept(H, h) \in Nat /\ Len(x) = Kept(H, h) + n
  BY <1>1, <1>2, <1>3, <1>6
<1> QED
  BY <1>2, <1>6, <1>11, <1>12, <1>13 DEF n

\* Indirectors are pointed to the slots of a heap, in order.
PointersAfter(a, h, taken) ==
  [i \in Ind |-> IF \E s \in DOMAIN taken : taken[s] = i
                 THEN <<h, CHOOSE s \in DOMAIN taken : taken[s] = i>> ELSE a[i]]

Distinct(taken) == \A s, t \in 1 .. Len(taken) : taken[s] = taken[t] => s = t

Repointed(a2, a, h, taken) ==
  /\ \A s \in 1 .. Len(taken) : a2[taken[s]] = <<h, s>>
  /\ \A i \in Ind : (\A s \in 1 .. Len(taken) : taken[s] # i) => a2[i] = a[i]

\* Each indirector which is taken points to the slot it becomes.
LEMMA RepointedOK ==
  ASSUME NEW a \in [Ind -> Place \cup {None}], NEW h \in HeapId, NEW taken \in Seq(Ind), Distinct(taken),
         NEW a2, a2 = PointersAfter(a, h, taken)
  PROVE  a2 \in [Ind -> Place \cup {None}] /\ Repointed(a2, a, h, taken)
<1> DEFINE used(i) == \E s \in DOMAIN taken : taken[s] = i
           where(i) == <<h, CHOOSE s \in DOMAIN taken : taken[s] = i>>
<1>1. Len(taken) \in Nat /\ DOMAIN taken = 1 .. Len(taken) /\ \A s \in 1 .. Len(taken) : taken[s] \in Ind
  BY SeqIs
<1>2. ASSUME NEW s \in 1 .. Len(taken)
      PROVE  used(taken[s]) /\ where(taken[s]) = <<h, s>> /\ <<h, s>> \in Place
  <2>1. \A t \in DOMAIN taken : taken[t] = taken[s] <=> t = s
    BY <1>1 DEF Distinct
  <2>2. (CHOOSE t \in DOMAIN taken : taken[t] = taken[s]) = s
    BY <2>1, <1>1
  <2>3. <<h, s>> \in Place
    BY <1>1 DEF Place
  <2> QED
    BY <2>1, <2>2, <2>3, <1>1
<1>3. a2 = [i \in Ind |-> IF used(i) THEN where(i) ELSE a[i]]
  BY Zenon DEF PointersAfter
<1>4. \A i : used(i) <=> \E s \in 1 .. Len(taken) : taken[s] = i
  BY <1>1
<1> HIDE DEF used, where
<1>5. \A s \in 1 .. Len(taken) : used(taken[s]) /\ where(taken[s]) = <<h, s>> /\ <<h, s>> \in Place
  BY <1>2
<1>6. \A i \in Ind : a2[i] = IF used(i) THEN where(i) ELSE a[i]
  BY <1>3
<1>7. \A s \in 1 .. Len(taken) : a2[taken[s]] = <<h, s>>
  BY <1>1, <1>5, <1>6
<1>8. \A i \in Ind : (\A s \in 1 .. Len(taken) : taken[s] # i) => a2[i] = a[i]
  BY <1>4, <1>6
<1>9. ASSUME NEW i \in Ind PROVE a2[i] \in Place \cup {None}
  <2>1. CASE used(i)
    <3>1. PICK s \in 1 .. Len(taken) : taken[s] = i
      BY <2>1, <1>4
    <3> QED
      BY <3>1, <1>5, <1>7
  <2>2. CASE ~ used(i)
    BY <2>2, <1>6
  <2> QED
    BY <2>1, <2>2
<1>10. a2 \in [Ind -> Place \cup {None}]
  BY <1>3, <1>9
<1> QED
  BY <1>7, <1>8, <1>10 DEF Repointed

\* The last of the free indirectors become the slots of a heap.
HeapMade(m, f2, a2, p2, x, a, p, h, kept) ==
  /\ Mutual(m, f2, a2, p2)
  /\ f2 \in Seq(Ind) /\ p2 \in [HeapId -> Seq(Ind)]
  /\ Len(f2) = kept /\ \A k \in 1 .. kept : f2[k] = x[k] /\ k \in 1 .. Len(x)
  /\ \A i \in Ind : a[i] # None => a2[i] = a[i]
  /\ Len(p2[h]) = Len(x) - kept
  /\ \A g \in HeapId : g # h => p2[g] = p[g]

LEMMA TakenOK ==
  ASSUME NEW m \in Nat, m <= MaxInd, NEW x \in Seq(Ind), NEW kept \in Nat, kept <= Len(x),
         NEW a \in [Ind -> Place \cup {None}], NEW p \in [HeapId -> Seq(Ind)], Mutual(m, x, a, p),
         NEW h \in HeapId, p[h] = <<>>, NEW f2, f2 = SubSeq(x, 1, kept),
         NEW taken, taken = SubSeq(x, kept + 1, Len(x)),
         NEW a2, Repointed(a2, a, h, taken),
         NEW p2, p2 = [p EXCEPT ![h] = taken]
  PROVE  HeapMade(m, f2, a2, p2, x, a, p, h, kept)
<1> DEFINE n == Len(x) - kept
<1>1. /\ Len(x) \in Nat /\ n \in Nat /\ Len(x) = kept + n
      /\ \A k \in 1 .. Len(x) : x[k] \in Ind /\ x[k] <= m /\ a[x[k]] = None
      /\ \A k, l \in 1 .. Len(x) : x[k] = x[l] => k = l
      /\ \A i \in 1 .. m : a[i] = None => \E k \in 1 .. Len(x) : x[k] = i
  BY SeqIs DEF Mutual
<1>2. f2 \in Seq(Ind) /\ Len(f2) = kept /\ \A k \in 1 .. kept : f2[k] = x[k] /\ k \in 1 .. Len(x)
  BY <1>1
<1>3. /\ taken \in Seq(Ind) /\ Len(taken) = n
      /\ \A s \in 1 .. n : taken[s] = x[kept + s] /\ kept + s \in 1 .. Len(x)
  <2>1. Len(x) \in Nat /\ \A k \in 1 .. Len(x) : x[k] \in Ind
    BY <1>1
  <2>2. Len(taken) = n
    BY <2>1
  <2>3. \A s \in 1 .. n : kept + s \in 1 .. Len(x)
    BY <2>1
  <2>4. \A s \in 1 .. n : taken[s] = x[kept + s]
    BY <2>1
  <2>5. taken \in Seq(Ind)
    BY <2>1
  <2> QED
    BY <2>2, <2>3, <2>4, <2>5
<1> HIDE DEF n
<1>4. \A s \in 1 .. n : taken[s] \in Ind /\ taken[s] <= m /\ a[taken[s]] = None
  BY <1>1, <1>3
<1>5. /\ \A s \in 1 .. n : a2[taken[s]] = <<h, s>> /\ <<h, s>> # None
      /\ \A i \in Ind : (\A s \in 1 .. n : taken[s] # i) => a2[i] = a[i]
  <2>1. \A s \in 1 .. n : <<h, s>> \in Place
    BY <1>1 DEF Place
  <2> QED
    <3>1. \A s \in 1 .. n : <<h, s>> # None
      BY <2>1, Nones
    <3>2. /\ \A s \in 1 .. n : a2[taken[s]] = <<h, s>>
          /\ \A i \in Ind : (\A s \in 1 .. n : taken[s] # i) => a2[i] = a[i]
      BY <1>3, Zenon DEF Repointed
    <3> QED
      BY <3>1, <3>2
<1>6. \A i \in Ind : a[i] # None => a2[i] = a[i]
  BY <1>4, <1>5
<1>7. /\ p2 \in [HeapId -> Seq(Ind)] /\ p2[h] = taken
      /\ \A g \in HeapId : g # h => p2[g] = p[g]
  BY <1>3
<1>8. ASSUME NEW g \in HeapId, NEW t \in 1 .. Len(p2[g])
      PROVE  p2[g][t] <= m /\ a2[p2[g][t]] = <<g, t>>
  <2>1. CASE g = h
    <3>1. p2[g][t] = taken[t] /\ t \in 1 .. n
      BY <2>1, <1>3, <1>7
    <3> QED
      BY <2>1, <3>1, <1>4, <1>5
  <2>2. CASE g # h
    <3>1. p2[g][t] = p[g][t] /\ t \in 1 .. Len(p[g])
      BY <2>2, <1>7
    <3>2. p[g][t] <= m /\ a[p[g][t]] = <<g, t>>
      BY <3>1 DEF Mutual
    <3>3. p[g] \in Seq(Ind)
      OBVIOUS
    <3>4. p[g][t] \in Ind /\ t \in Nat
      BY <3>1, <3>3
    <3>5. <<g, t>> # None
      BY <3>4, Nones DEF Place
    <3> QED
      BY <3>1, <3>2, <3>4, <3>5, <1>6
  <2> QED
    BY <2>1, <2>2
<1>9. ASSUME NEW i \in Ind, a2[i] # None
      PROVE  \E g \in HeapId : \E t \in 1 .. Len(p2[g]) : a2[i] = <<g, t>> /\ p2[g][t] = i
  <2>1. ASSUME NEW s \in 1 .. n, taken[s] = i
        PROVE  s \in 1 .. Len(p2[h]) /\ a2[i] = <<h, s>> /\ p2[h][s] = i
    BY <2>1, <1>3, <1>5, <1>7
  <2>2. CASE \A s \in 1 .. n : taken[s] # i
    <3>1. a2[i] = a[i] /\ a[i] # None
      BY <2>2, <1>5, <1>9
    <3>2. PICK g \in HeapId : \E t \in 1 .. Len(p[g]) : a[i] = <<g, t>> /\ p[g][t] = i
      BY <3>1 DEF Mutual
    <3>3. g # h
      BY <3>2
    <3>4. p2[g] = p[g]
      BY <3>3, <1>7
    <3> QED
      BY <3>1, <3>2, <3>4
  <2> QED
    BY <2>1, <2>2
<1>10. ASSUME NEW k \in 1 .. Len(f2) PROVE f2[k] <= m /\ a2[f2[k]] = None
  <2>1. k \in 1 .. kept /\ k \in 1 .. Len(x) /\ f2[k] = x[k]
    BY <1>2
  <2>2. x[k] \in Ind /\ x[k] <= m /\ a[x[k]] = None
    BY <2>1, <1>1
  <2>3. \A s \in 1 .. n : taken[s] # x[k]
    <3> SUFFICES ASSUME NEW s \in 1 .. n, taken[s] = x[k] PROVE FALSE
      OBVIOUS
    <3>1. kept + s = k
      BY <2>1, <1>1, <1>3
    <3> QED
      BY <3>1, <2>1
  <2> QED
    BY <2>1, <2>2, <2>3, <1>5
<1>11. \A k, l \in 1 .. Len(f2) : f2[k] = f2[l] => k = l
  BY <1>1, <1>2
<1>12. ASSUME NEW i \in 1 .. m, a2[i] = None PROVE \E k \in 1 .. Len(f2) : f2[k] = i
  <2>1. i \in Ind
    BY Nones
  <2>2. \A s \in 1 .. n : taken[s] # i
    BY <1>5, <1>12
  <2>3. a[i] = None
    BY <2>1, <2>2, <1>5, <1>12
  <2>4. PICK k \in 1 .. Len(x) : x[k] = i
    BY <2>3, <1>1
  <2>5. CASE k <= kept
    BY <2>4, <2>5, <1>2
  <2>6. CASE ~ (k <= kept)
    <3>1. k - kept \in 1 .. n /\ kept + (k - kept) = k
      BY <2>6, <1>1
    <3>2. taken[k - kept] = i
      BY <3>1, <2>4, <1>3
    <3> QED
      BY <3>1, <3>2, <2>2
  <2> QED
    BY <2>5, <2>6
<1>13. Mutual(m, f2, a2, p2)
  BY <1>8, <1>9, <1>10, <1>11, <1>12 DEF Mutual
<1>14. Len(p2[h]) = Len(x) - kept
  BY <1>3, <1>7 DEF n
<1> QED
  BY <1>2, <1>6, <1>7, <1>13, <1>14 DEF HeapMade

\* A heap is made: nothing which was in use is disturbed.
LEMMA NewHeapOK ==
  ASSUME NEW H, NEW sl, NEW home, Sound(H, sl, home), NEW h \in HeapId, H.heap[h] = <<>>,
         Affordable(H, h), NEW N, N = NewHeap(H, h)
  PROVE  /\ Sound(N, sl, home)
         /\ Len(N.heap[h]) = HeapLen[h]
         /\ \A g \in HeapId : g # h => N.heap[g] = H.heap[g]
         /\ Filled(N) = Filled(H)
<1>1. /\ HeapTypes(H) /\ Pointers(H) /\ Exact(H, sl, home)
      /\ sl \in [Owner -> Ind \cup {None}] /\ home \in [Owner -> Place \cup {None}]
  BY DEF Sound
<1> DEFINE m == H.made + Additional(H, HeapLen[h])
           x == Extended(H, h)
           kept == Kept(H, h)
           f2 == SubSeq(x, 1, kept)
           taken == SubSeq(x, kept + 1, Len(x))
           a2 == PointersAfter(H.at, h, taken)
           p2 == [H.heap EXCEPT ![h] = taken]
           empty == [s \in 1 .. HeapLen[h] |-> None]
           c2 == [H.content EXCEPT ![h] = empty]
<1>2. N = HeapsOf(m, f2, H.owner, a2, p2, c2)
  <2>1. H \in HeapRecord
    BY <1>1 DEF HeapTypes
  <2>2. taken = Taken(H, h)
    BY DEF Taken
  <2> QED
    BY <2>1, <2>2, NewHeapFields, ZenonT(60) DEF PointersAfter
<1>3. /\ H.at \in [Ind -> Place \cup {None}] /\ H.heap \in [HeapId -> Seq(Ind)]
      /\ H.content \in [HeapId -> Seq(Cells)] /\ H.owner \in [Ind -> Cells]
      /\ HeapLen[h] \in Nat
  BY <1>1, Fields, Nones
<1>4. /\ m \in Nat /\ m <= MaxInd /\ x \in Seq(Ind) /\ kept \in Nat /\ Len(x) = kept + HeapLen[h]
      /\ Mutual(m, x, H.at, H.heap) /\ Disowned(m, x, H.owner)
  <2> HIDE DEF m, x, kept
  <2>1. m = H.made + Additional(H, HeapLen[h]) /\ x = Extended(H, h) /\ kept = Kept(H, h)
    BY DEF m, x, kept
  <2> QED
    BY <1>1, <2>1, ExtendedOK
<1>5. empty \in Seq(Cells) /\ Len(empty) = HeapLen[h] /\ \A s \in 1 .. HeapLen[h] : empty[s] = None
  BY <1>3 DEF Cells
<1>6. /\ c2 \in [HeapId -> Seq(Cells)] /\ c2[h] = empty
      /\ \A g \in HeapId : g # h => c2[g] = H.content[g]
  <2> HIDE DEF empty
  <2> QED
    BY <1>3, <1>5
<1> HIDE DEF m, x, kept, empty, c2
<1>7. a2 \in [Ind -> Place \cup {None}] /\ Repointed(a2, H.at, h, taken)
  <2> DEFINE a == H.at
  <2>1. taken \in Seq(Ind) /\ Distinct(taken)
    <3>1. \A k, l \in 1 .. Len(x) : x[k] = x[l] => k = l
      BY <1>4 DEF Mutual
    <3>2. kept \in Nat /\ Len(x) \in Nat /\ kept <= Len(x)
      BY <1>3, <1>4
    <3>3. /\ Len(taken) = Len(x) - kept
          /\ \A s \in 1 .. Len(x) - kept : kept + s \in 1 .. Len(x) /\ taken[s] = x[kept + s]
      BY <1>4, <3>2
    <3>4. taken \in Seq(Ind)
      BY <1>4, <3>2
    <3>5. ASSUME NEW s \in 1 .. Len(taken), NEW t \in 1 .. Len(taken), taken[s] = taken[t]
          PROVE  s = t
      <4>1. kept + s = kept + t
        BY <3>1, <3>3, <3>5
      <4> QED
        BY <4>1, <3>2
    <3> QED
      BY <3>4, <3>5 DEF Distinct
  <2>2. a \in [Ind -> Place \cup {None}]
    BY <1>3
  <2>3. a2 = PointersAfter(a, h, taken)
    OBVIOUS
  <2> HIDE DEF a, a2, taken
  <2>4. a2 \in [Ind -> Place \cup {None}] /\ Repointed(a2, a, h, taken)
    BY <2>1, <2>2, <2>3, RepointedOK
  <2> QED
    BY <2>4 DEF a
<1>8. HeapMade(m, f2, a2, p2, x, H.at, H.heap, h, kept)
  <2> DEFINE a == H.at
             p == H.heap
  <2>1. kept <= Len(x)
    BY <1>3, <1>4
  <2>2. a \in [Ind -> Place \cup {None}] /\ p \in [HeapId -> Seq(Ind)] /\ p[h] = <<>>
        /\ Mutual(m, x, a, p)
    BY <1>3, <1>4
  <2>3. f2 = SubSeq(x, 1, kept) /\ taken = SubSeq(x, kept + 1, Len(x)) /\ p2 = [p EXCEPT ![h] = taken]
    OBVIOUS
  <2> HIDE DEF a2, taken, f2, p2
  <2>4. Repointed(a2, a, h, taken)
    BY <1>7
  <2> HIDE DEF a, p
  <2>5. HeapMade(m, f2, a2, p2, x, a, p, h, kept)
    BY <1>4, <2>1, <2>2, <2>3, <2>4, TakenOK
  <2> QED
    BY <2>5 DEF a, p
<1> HIDE DEF taken, f2, a2, p2
<1>9. /\ N.made = m /\ N.free = f2 /\ N.owner = H.owner /\ N.at = a2 /\ N.heap = p2 /\ N.content = c2
  BY <1>2, HeapsOfFields
<1>10. /\ Mutual(m, f2, a2, p2) /\ f2 \in Seq(Ind) /\ p2 \in [HeapId -> Seq(Ind)]
       /\ Len(f2) = kept /\ \A k \in 1 .. kept : f2[k] = x[k] /\ k \in 1 .. Len(x)
       /\ \A i \in Ind : H.at[i] # None => a2[i] = H.at[i]
       /\ Len(p2[h]) = HeapLen[h]
       /\ \A g \in HeapId : g # h => p2[g] = H.heap[g]
  <2>1. Len(p2[h]) = HeapLen[h]
    <3>1. Len(p2[h]) = Len(x) - kept
      BY <1>8 DEF HeapMade
    <3> QED
      BY <3>1, <1>3, <1>4
  <2> QED
    BY <2>1, <1>8 DEF HeapMade
<1>11. HeapTypes(N)
  <2>1. N \in HeapRecord
    <3>1. /\ m \in Nat /\ f2 \in Seq(Ind) /\ H.owner \in [Ind -> Cells]
          /\ a2 \in [Ind -> Place \cup {None}]
          /\ p2 \in [HeapId -> Seq(Ind)] /\ c2 \in [HeapId -> Seq(Cells)]
      BY <1>3, <1>4, <1>6, <1>7, <1>10
    <3>2. HeapsOf(m, f2, H.owner, a2, p2, c2) \in HeapRecord
      BY ONLY <3>1, HeapsOfTyped
    <3> QED
      BY <3>2, <1>2
  <2>2. ASSUME NEW g \in HeapId PROVE Len(c2[g]) = Len(p2[g])
    <3>1. CASE g = h
      BY <3>1, <1>5, <1>6, <1>10
    <3>2. CASE g # h
      <4>1. Len(H.content[g]) = Len(H.heap[g])
        BY <1>1, Fields
      <4> QED
        BY <3>2, <4>1, <1>6, <1>10
    <3> QED
      BY <3>1, <3>2
  <2> QED
    BY <2>1, <2>2, <1>4, <1>9 DEF HeapTypes
<1>12. Pointers(N)
  <2>1. Disowned(m, f2, H.owner)
    <3>1. Disowned(m, x, H.owner)
      BY <1>4
    <3>2. Len(f2) = kept /\ \A k \in 1 .. kept : f2[k] = x[k] /\ k \in 1 .. Len(x)
      BY <1>10
    <3> HIDE DEF f2
    <3>3. \A k \in 1 .. Len(f2) : H.owner[f2[k]] = None
      BY <3>1, <3>2 DEF Disowned
    <3> QED
      BY <3>1, <3>3 DEF Disowned
  <2> QED
    BY <2>1, <1>9, <1>10 DEF Pointers
<1>13. Exact(N, sl, home)
  <2>1. ASSUME NEW d \in Owner, sl[d] # None
        PROVE  /\ N.owner[sl[d]] = d
               /\ N.at[sl[d]] = home[d]
               /\ \E g \in HeapId : \E t \in 1 .. Len(N.heap[g]) :
                    home[d] = <<g, t>> /\ N.content[g][t] = d
    <3>1. sl[d] \in Ind /\ H.owner[sl[d]] = d /\ H.at[sl[d]] = home[d]
      BY <2>1, <1>1 DEF Exact
    <3>2. PICK g \in HeapId : \E t \in 1 .. Len(H.heap[g]) : home[d] = <<g, t>> /\ H.content[g][t] = d
      BY <2>1, <1>1 DEF Exact
    <3>3. PICK t \in 1 .. Len(H.heap[g]) : home[d] = <<g, t>> /\ H.content[g][t] = d
      BY <3>2
    <3>4. g # h
      BY <3>3
    <3>5. <<g, t>> # None
      <4>1. t \in Nat
        BY <3>3, <1>1, Fields
      <4> QED
        BY <4>1, Nones DEF Place
    <3>6. t \in 1 .. Len(N.heap[g]) /\ N.content[g][t] = d
      BY <3>3, <3>4, <1>6, <1>9, <1>10
    <3>7. N.owner[sl[d]] = d /\ N.at[sl[d]] = home[d]
      BY <3>1, <3>3, <3>5, <1>9, <1>10
    <3> QED
      BY <3>3, <3>6, <3>7
  <2>2. \A i \in Ind : N.owner[i] # None => sl[N.owner[i]] = i
    BY <1>1, <1>9 DEF Exact
  <2>3. ASSUME NEW g \in HeapId, NEW t \in 1 .. Len(N.heap[g]), N.content[g][t] # None
        PROVE  sl[N.content[g][t]] # None /\ home[N.content[g][t]] = <<g, t>>
    <3>1. g # h
      BY <2>3, <1>5, <1>6, <1>9, <1>10
    <3>2. t \in 1 .. Len(H.heap[g]) /\ N.content[g][t] = H.content[g][t]
      BY <3>1, <1>6, <1>9, <1>10
    <3>3. H.content[g][t] # None
      BY <3>2, <2>3
    <3>4. sl[H.content[g][t]] # None /\ home[H.content[g][t]] = <<g, t>>
      BY <3>2, <3>3, <1>1 DEF Exact
    <3> QED
      BY <3>2, <3>4
  <2> QED
    BY <2>1, <2>2, <2>3 DEF Exact
<1>14. Filled(N) = Filled(H)
  <2>1. ASSUME NEW y \in Filled(N) PROVE y \in Filled(H)
    <3>1. y = <<y[1], y[2]>> /\ y[1] \in HeapId /\ y[2] \in 1 .. Len(N.heap[y[1]])
          /\ N.content[y[1]][y[2]] # None
      BY <1>11, <2>1, FilledPair, Nones
    <3>2. y[1] # h
      BY <3>1, <1>5, <1>6, <1>9, <1>10
    <3>3. y[2] \in 1 .. Len(H.heap[y[1]]) /\ H.content[y[1]][y[2]] # None
      BY <3>1, <3>2, <1>6, <1>9, <1>10
    <3>4. <<y[1], y[2]>> \in Filled(H)
      BY <3>1, <3>3, <1>1, FilledIs
    <3> QED
      BY <3>1, <3>4
  <2>2. ASSUME NEW y \in Filled(H) PROVE y \in Filled(N)
    <3>1. y = <<y[1], y[2]>> /\ y[1] \in HeapId /\ y[2] \in 1 .. Len(H.heap[y[1]])
          /\ H.content[y[1]][y[2]] # None
      BY <1>1, <2>2, FilledPair, Nones
    <3>2. y[1] # h
      BY <3>1
    <3>3. y[2] \in 1 .. Len(N.heap[y[1]]) /\ N.content[y[1]][y[2]] # None
      BY <3>1, <3>2, <1>6, <1>9, <1>10
    <3>4. <<y[1], y[2]>> \in Filled(N)
      BY <3>1, <3>3, <1>11, FilledIs
    <3> QED
      BY <3>1, <3>4
  <2> QED
    BY <2>1, <2>2
<1> QED
  BY <1>1, <1>9, <1>10, <1>11, <1>12, <1>13, <1>14 DEF Sound

-----------------------------------------------------------------------------
(* The storage.                                                            *)

\* HomeOf, for reservations r and positions ps.
HomeFn(r, ps) == [e \in Owner |-> IF r[e] # NoResv THEN <<r[e].block, r[e].slot>> ELSE ps[e]]

Home == HomeFn(resv, pos)

\* A heap is there whole or not at all, and that of a block while the block is live.
Sized(H, live) ==
  /\ \A h \in HeapId : Len(H.heap[h]) \in {0, HeapLen[h]}
  /\ \A b \in Ptr : b \in live <=> Len(H.heap[b]) # 0

\* No two entities have the same position, and a component whose entity has none
\* is in a reserved slot.
PlacesOK ==
  /\ pos \in [Owner -> Position \cup {None}]
  /\ \A d, e \in Owner : pos[d] = pos[e] /\ pos[d] # None => d = e
  /\ \A e \in Owner : resv[e] # NoResv <=> slot[e] # None /\ pos[e] = None

StorageInv ==
  /\ AllocatorInv
  /\ Sound(Heaps, slot, Home)
  /\ Sized(Heaps, Live)
  /\ PlacesOK
  /\ borrowed \subseteq Filled(Heaps)

\* The heaps become what SetHeaps says.
LEMMA SetHeapsIs ==
  ASSUME NEW N \in HeapRecord, SetHeaps(N)
  PROVE  Heaps' = N
<1>1. N = HeapsOf(N.made, N.free, N.owner, N.at, N.heap, N.content)
  BY IsHeapsOf
<1>2. Heaps' = HeapsOf(N.made, N.free, N.owner, N.at, N.heap, N.content)
  BY DEF SetHeaps, Heaps, HeapsOf
<1> QED
  BY <1>1, <1>2

LEMMA HeapsSame ==
  ASSUME UNCHANGED heapVars
  PROVE  Heaps' = Heaps /\ borrowed' = borrowed
BY DEF heapVars, Heaps

\* A heap is made if it is not there.
LEMMA EnsuredOK ==
  ASSUME NEW H, NEW sl, NEW home, Sound(H, sl, home), NEW live, Sized(H, live), NEW h \in HeapId,
         HeapLen[h] # 0, Exists(H, h) \/ Affordable(H, h), NEW live2,
         \A b \in Ptr : b \in live2 <=> b \in live \/ b = h,
         NEW N, N = Ensured(H, h)
  PROVE  /\ Sound(N, sl, home) /\ Sized(N, live2)
         /\ Len(N.heap[h]) = HeapLen[h] /\ Filled(N) = Filled(H)
<1>1. HeapTypes(H)
  BY DEF Sound
<1>2. \A g \in HeapId : H.heap[g] \in Seq(Ind) /\ Len(H.heap[g]) \in Nat
  BY <1>1, Fields
<1>3. CASE Exists(H, h)
  <2>1. N = H
    BY <1>3 DEF Ensured
  <2>2. Len(H.heap[h]) # 0
    BY <1>2, <1>3 DEF Exists
  <2>3. Len(H.heap[h]) = HeapLen[h]
    BY <2>2 DEF Sized
  <2>4. Sized(H, live2)
    BY <2>2 DEF Sized
  <2> QED
    BY <2>1, <2>3, <2>4
<1>4. CASE ~ Exists(H, h)
  <2>1. N = NewHeap(H, h) /\ H.heap[h] = <<>> /\ Affordable(H, h)
    BY <1>4 DEF Ensured, Exists
  <2>2. /\ Sound(N, sl, home) /\ Len(N.heap[h]) = HeapLen[h] /\ Filled(N) = Filled(H)
        /\ \A g \in HeapId : g # h => N.heap[g] = H.heap[g]
    BY <2>1, NewHeapOK
  <2>3. \A g \in HeapId : Len(N.heap[g]) \in {0, HeapLen[g]}
    BY <2>2 DEF Sized
  <2>4. \A b \in Ptr : b \in live2 <=> Len(N.heap[b]) # 0
    BY <2>2, StorageAssumption DEF Sized
  <2> QED
    BY <2>2, <2>3, <2>4 DEF Sized
<1> QED
  BY <1>3, <1>4

\* An empty heap is dropped.
LEMMA DroppedSized ==
  ASSUME NEW H, HeapTypes(H), NEW live, Sized(H, live), NEW h \in HeapId, NEW live2,
         \A b \in Ptr : b \in live2 <=> b \in live /\ b # h,
         NEW N, N.heap = [H.heap EXCEPT ![h] = <<>>]
  PROVE  Sized(N, live2)
<1>1. H.heap \in [HeapId -> Seq(Ind)] /\ Len(<<>>) = 0
  BY Fields
<1>2. Len(N.heap[h]) = 0 /\ \A g \in HeapId : g # h => N.heap[g] = H.heap[g]
  BY <1>1
<1>3. \A g \in HeapId : Len(N.heap[g]) \in {0, HeapLen[g]}
  BY <1>2 DEF Sized
<1>4. \A b \in Ptr : b \in live2 <=> Len(N.heap[b]) # 0
  BY <1>2, StorageAssumption DEF Sized
<1> QED
  BY <1>3, <1>4 DEF Sized

\* Only the lengths of the heaps matter.
LEMMA SameSized ==
  ASSUME NEW H, NEW live, Sized(H, live), NEW N,
         \A k \in HeapId : Len(N.heap[k]) = Len(H.heap[k])
  PROVE  Sized(N, live)
BY StorageAssumption DEF Sized

\* Where an entity without a component has its home does not matter.
LEMMA HomeFree ==
  ASSUME NEW H, NEW sl, NEW home, Sound(H, sl, home), NEW e \in Owner, sl[e] = None,
         NEW home2 \in [Owner -> Place \cup {None}],
         \A d \in Owner : d # e => home2[d] = home[d]
  PROVE  Sound(H, sl, home2)
<1>1. HeapTypes(H) /\ Pointers(H) /\ sl \in [Owner -> Ind \cup {None}] /\ Exact(H, sl, home)
  BY DEF Sound
<1>2. \A d \in Owner : sl[d] # None => home2[d] = home[d]
  OBVIOUS
<1>3. ASSUME NEW h \in HeapId, NEW s \in 1 .. Len(H.heap[h]), H.content[h][s] # None
      PROVE  sl[H.content[h][s]] # None /\ home2[H.content[h][s]] = <<h, s>>
  <2>1. H.content[h][s] \in Owner
    BY <1>1, <1>3, Fields DEF Cells
  <2>2. sl[H.content[h][s]] # None /\ home[H.content[h][s]] = <<h, s>>
    BY <1>1, <1>3 DEF Exact
  <2> QED
    BY <2>1, <2>2, <1>2
<1>4. Exact(H, sl, home2)
  BY <1>1, <1>2, <1>3 DEF Exact
<1> QED
  BY <1>1, <1>4 DEF Sound

\* What the allocator promises when it reserves a slot.
LEMMA AllocGives ==
  ASSUME AllocatorInv, NEW c \in Client, Alloc(c)
  PROVE  /\ AllocatorInv'
         /\ resv[c] = NoResv /\ resv'[c] \in Reservation
         /\ \A d \in Client : d # c => resv'[d] = resv[d] /\ resv'[d] # resv'[c]
         /\ resv' \in [Client -> Reservation \cup {NoResv}]
         /\ Live' = Live \cup {resv'[c].block}
<1>1. PICK b \in Ptr :
        /\ resv[c] = NoResv
        /\ Hammering(b) \/ TakingUp(b) \/ MakingNew(b)
        /\ hammered' = HammeredAfter(b, Grown(b).occupied_mask)
        /\ resv' = [resv EXCEPT ![c] = [block |-> b, slot |-> FirstFree(Old(b))]]
  BY AllocInParts
<1>2. AllocatorInv'
  BY AllocPreserves
<1>3. FirstFree(Old(b)) \in AllSlots /\ Live' = Live \cup {b}
  BY <1>1, BlockGrows
<1>4. resv \in [Client -> Reservation \cup {NoResv}]
  BY DEF AllocatorInv, BlockTypes, Reservation
<1>5. [block |-> b, slot |-> FirstFree(Old(b))] \in Reservation
  BY <1>3 DEF Reservation
<1> DEFINE r == [block |-> b, slot |-> FirstFree(Old(b))]
<1>6. r.block = b
  OBVIOUS
<1> HIDE DEF r
<1>7. /\ resv' \in [Client -> Reservation \cup {NoResv}] /\ resv'[c] = r
      /\ \A d \in Client : d # c => resv'[d] = resv[d]
  BY <1>1, <1>4, <1>5 DEF r
<1>8. r \in Reservation /\ r # NoResv
  BY <1>5, BlockAssumption DEF r, Reservation
<1>9. \A d \in Client : d # c => resv'[d] # resv'[c]
  BY <1>2, <1>7, <1>8 DEF AllocatorInv, ReservationsExact
<1> QED
  BY <1>1, <1>2, <1>3, <1>6, <1>7, <1>8, <1>9

\* And when it takes one back: the block goes only if no other slot of it is reserved.
LEMMA DeallocTakes ==
  ASSUME AllocatorInv, NEW c \in Client, Dealloc(c)
  PROVE  /\ AllocatorInv'
         /\ resv[c] \in Reservation /\ resv' = [resv EXCEPT ![c] = NoResv]
         /\ resv' \in [Client -> Reservation \cup {NoResv}]
         /\ resv[c].block \in Live
         /\ Live' = IF value'[resv[c].block] = Vacant THEN Live \ {resv[c].block} ELSE Live
         /\ \A d \in Client : resv'[d] # NoResv => resv'[d].block \in Live'
<1> DEFINE b == resv[c].block
           bit == resv[c].slot
           mask == value[b].occupied_mask \ {bit}
<1>1. /\ resv[c] # NoResv
      /\ GivingBack(b, mask) \/ Keeping(b, mask)
      /\ resv' = [resv EXCEPT ![c] = NoResv]
  BY DeallocInParts
<1>2. AllocatorInv'
  BY DeallocPreserves
<1>3. resv \in [Client -> Reservation \cup {NoResv}]
  BY DEF AllocatorInv, BlockTypes, Reservation
<1>4. resv[c] \in Reservation /\ b \in Ptr /\ bit \in AllSlots /\ resv[c] = [block |-> b, slot |-> bit]
  <2>1. resv[c] \in Reservation
    BY <1>1, <1>3
  <2> QED
    BY <2>1 DEF Reservation
<1>5. b \in Live /\ bit \in value[b].occupied_mask
  BY <1>1, <1>4 DEF AllocatorInv, ReservationsExact, Reserved
<1>6. Live' \in {Live, Live \ {b}}
  <2> HIDE DEF b, bit
  <2> QED
    BY <1>1, <1>5, BlockShrinks
<1>7. b \in Live' <=> value'[b] # Vacant
  BY <1>4 DEF Live
<1>8. Live' = IF value'[b] = Vacant THEN Live \ {b} ELSE Live
  <2> HIDE DEF b
  <2> QED
    BY <1>5, <1>6, <1>7
<1>9. \A d \in Client : resv'[d] # NoResv => resv'[d].block \in Live'
  BY <1>2 DEF AllocatorInv, ReservationsExact
<1>10. resv' \in [Client -> Reservation \cup {NoResv}]
  BY <1>1, <1>3
<1> QED
  BY <1>1, <1>2, <1>4, <1>5, <1>8, <1>9, <1>10

\* Homes are places: those of reserved slots are in blocks, the others in columns.
LEMMA HomesAre ==
  ASSUME NEW r \in [Owner -> Reservation \cup {NoResv}], NEW ps \in [Owner -> Position \cup {None}],
         NEW e \in Owner
  PROVE  /\ r[e] # NoResv => /\ <<r[e].block, r[e].slot>> \in Place
                             /\ r[e].block \in Ptr /\ r[e].block \in HeapId
                             /\ r[e].slot \in 1 .. BlockSize
         /\ ps[e] # None => /\ ps[e] \in Place /\ ps[e] = <<ps[e][1], ps[e][2]>>
                            /\ ps[e][1] \in Column /\ ps[e][1] \in HeapId /\ ps[e][1] \notin Ptr
                            /\ ps[e][2] \in 1 .. ColumnLen
                            /\ HeapLen[ps[e][1]] = ColumnLen
<1>1. ASSUME r[e] # NoResv
      PROVE  /\ <<r[e].block, r[e].slot>> \in Place
             /\ r[e].block \in Ptr /\ r[e].block \in HeapId
             /\ r[e].slot \in 1 .. BlockSize
  <2>1. r[e] \in Reservation
    BY <1>1
  <2>2. r[e].block \in Ptr /\ r[e].slot \in 1 .. BlockSize
    BY <2>1 DEF Reservation, AllSlots
  <2>3. r[e].slot \in Nat
    BY <2>2, BlockAssumption
  <2> QED
    BY <2>2, <2>3, StorageAssumption DEF Place
<1>2. ASSUME ps[e] # None
      PROVE  /\ ps[e] \in Place /\ ps[e] = <<ps[e][1], ps[e][2]>>
             /\ ps[e][1] \in Column /\ ps[e][1] \in HeapId /\ ps[e][1] \notin Ptr
             /\ ps[e][2] \in 1 .. ColumnLen
             /\ HeapLen[ps[e][1]] = ColumnLen
  <2>1. ps[e] \in Position
    BY <1>2
  <2>2. ps[e] = <<ps[e][1], ps[e][2]>> /\ ps[e][1] \in Column /\ ps[e][2] \in 1 .. ColumnLen
    BY <2>1 DEF Position
  <2>3. ps[e][1] \in HeapId /\ ps[e][1] \notin Ptr /\ HeapLen[ps[e][1]] = ColumnLen
    BY <2>2, StorageAssumption
  <2>4. ColumnLen \in Nat
    BY <2>3, Nones
  <2> QED
    BY <2>2, <2>3, <2>4 DEF Place
<1> QED
  BY <1>1, <1>2

\* The homes of entities are places, if they have one.
LEMMA HomeFnIs ==
  ASSUME NEW r \in [Owner -> Reservation \cup {NoResv}], NEW ps \in [Owner -> Position \cup {None}]
  PROVE  /\ HomeFn(r, ps) \in [Owner -> Place \cup {None}]
         /\ \A e \in Owner :
              HomeFn(r, ps)[e] = IF r[e] # NoResv THEN <<r[e].block, r[e].slot>> ELSE ps[e]
<1>1. \A e \in Owner :
        HomeFn(r, ps)[e] = IF r[e] # NoResv THEN <<r[e].block, r[e].slot>> ELSE ps[e]
  BY DEF HomeFn
<1>2. ASSUME NEW e \in Owner PROVE HomeFn(r, ps)[e] \in Place \cup {None}
  <2>1. CASE r[e] # NoResv
    <3>1. <<r[e].block, r[e].slot>> \in Place
      BY <2>1, HomesAre
    <3> QED
      BY <2>1, <3>1, <1>1
  <2>2. CASE r[e] = NoResv
    <3>1. ps[e] # None => ps[e] \in Place
      BY HomesAre
    <3> QED
      BY <2>2, <3>1, <1>1
  <2> QED
    BY <2>1, <2>2
<1> QED
  BY <1>1, <1>2 DEF HomeFn

\* A filled place is the home of the entity whose component is there.
LEMMA FilledHome ==
  ASSUME NEW H, NEW sl, NEW home, Sound(H, sl, home), NEW p \in Filled(H)
  PROVE  \E d \in Owner : sl[d] # None /\ home[d] = p
<1>1. HeapTypes(H) /\ Exact(H, sl, home)
  BY DEF Sound
<1>2. /\ p = <<p[1], p[2]>> /\ p[1] \in HeapId /\ p[2] \in 1 .. Len(H.heap[p[1]])
      /\ H.content[p[1]][p[2]] \in Owner
  BY <1>1, FilledPair
<1> DEFINE d == H.content[p[1]][p[2]]
<1>3. d # None
  BY <1>2, Nones
<1>4. sl[d] # None /\ home[d] = <<p[1], p[2]>>
  BY <1>1, <1>2, <1>3 DEF Exact
<1> QED
  BY <1>2, <1>4

\* And the home of an entity with a component is filled.
LEMMA HomeFilled ==
  ASSUME NEW H, NEW sl, NEW home, Sound(H, sl, home), NEW e \in Owner, sl[e] # None
  PROVE  home[e] \in Filled(H) /\ sl[e] \in Ind /\ H.at[sl[e]] = home[e]
<1>1. HeapTypes(H) /\ Exact(H, sl, home) /\ sl \in [Owner -> Ind \cup {None}]
  BY DEF Sound
<1>2. H.at[sl[e]] = home[e] /\ sl[e] \in Ind
  BY <1>1 DEF Exact
<1>3. PICK h \in HeapId : \E s \in 1 .. Len(H.heap[h]) : home[e] = <<h, s>> /\ H.content[h][s] = e
  BY <1>1 DEF Exact
<1>4. PICK s \in 1 .. Len(H.heap[h]) : home[e] = <<h, s>> /\ H.content[h][s] = e
  BY <1>3
<1>5. <<h, s>> \in Filled(H)
  BY <1>1, <1>4, FilledIs, Nones
<1> QED
  BY <1>2, <1>4, <1>5

\* The invariant in parts.
LEMMA StorageFacts ==
  ASSUME StorageInv
  PROVE  /\ AllocatorInv /\ Sound(Heaps, slot, Home) /\ Sized(Heaps, Live) /\ PlacesOK
         /\ borrowed \subseteq Filled(Heaps)
         /\ resv \in [Owner -> Reservation \cup {NoResv}] /\ NoResv \notin Reservation
         /\ pos \in [Owner -> Position \cup {None}]
         /\ slot \in [Owner -> Ind \cup {None}]
         /\ Home \in [Owner -> Place \cup {None}]
         /\ \A e \in Owner :
              Home[e] = IF resv[e] # NoResv THEN <<resv[e].block, resv[e].slot>> ELSE pos[e]
         /\ \A e \in Owner : HomeOf(e) = Home[e]
         /\ \A e \in Owner : slot[e] = None => resv[e] = NoResv
<1>1. /\ AllocatorInv /\ Sound(Heaps, slot, Home) /\ Sized(Heaps, Live) /\ PlacesOK
      /\ borrowed \subseteq Filled(Heaps)
  BY DEF StorageInv
<1>2. resv \in [Owner -> Reservation \cup {NoResv}] /\ NoResv \notin Reservation
  BY <1>1, StorageAssumption, BlockAssumption DEF AllocatorInv, BlockTypes, Reservation
<1>3. pos \in [Owner -> Position \cup {None}] /\ \A e \in Owner : slot[e] = None => resv[e] = NoResv
  BY <1>1 DEF PlacesOK
<1>4. slot \in [Owner -> Ind \cup {None}]
  BY <1>1 DEF Sound
<1>5. /\ Home \in [Owner -> Place \cup {None}]
      /\ \A e \in Owner :
           Home[e] = IF resv[e] # NoResv THEN <<resv[e].block, resv[e].slot>> ELSE pos[e]
  BY <1>2, <1>3, HomeFnIs DEF Home
<1>6. \A e \in Owner : HomeOf(e) = Home[e]
  BY <1>5 DEF HomeOf
<1> QED
  BY <1>1, <1>2, <1>3, <1>4, <1>5, <1>6

\* A position nobody with a component is in is not filled.
LEMMA PositionFree ==
  ASSUME StorageInv, NEW p \in Position, \A d \in Owner : slot[d] # None => pos[d] # p
  PROVE  p \notin Filled(Heaps)
<1>1. /\ Sound(Heaps, slot, Home)
      /\ resv \in [Owner -> Reservation \cup {NoResv}]
      /\ pos \in [Owner -> Position \cup {None}]
      /\ \A e \in Owner :
           Home[e] = IF resv[e] # NoResv THEN <<resv[e].block, resv[e].slot>> ELSE pos[e]
  BY StorageFacts
<1> SUFFICES ASSUME p \in Filled(Heaps) PROVE FALSE
  OBVIOUS
<1>2. PICK d \in Owner : slot[d] # None /\ Home[d] = p
  BY <1>1, FilledHome
<1>3. resv[d] = NoResv
  <2> SUFFICES ASSUME resv[d] # NoResv PROVE FALSE
    OBVIOUS
  <2>1. p = <<resv[d].block, resv[d].slot>> /\ resv[d].block \in Ptr
    BY <1>1, <1>2, HomesAre
  <2>2. p[1] \in Ptr /\ p[1] \in Column
    BY <2>1 DEF Position
  <2> QED
    BY <2>2, StorageAssumption
<1> QED
  BY <1>1, <1>2, <1>3

\* The slot which is reserved is not filled.
LEMMA ReservedFree ==
  ASSUME StorageInv, NEW c \in Owner, Alloc(c)
  PROVE  <<resv'[c].block, resv'[c].slot>> \notin Filled(Heaps)
<1>1. /\ Sound(Heaps, slot, Home) /\ AllocatorInv
      /\ resv \in [Owner -> Reservation \cup {NoResv}]
      /\ pos \in [Owner -> Position \cup {None}]
      /\ \A e \in Owner :
           Home[e] = IF resv[e] # NoResv THEN <<resv[e].block, resv[e].slot>> ELSE pos[e]
  BY StorageFacts
<1>2. /\ resv[c] = NoResv /\ resv'[c] \in Reservation
      /\ \A d \in Owner : d # c => resv'[d] = resv[d] /\ resv'[d] # resv'[c]
  BY <1>1, AllocGives, StorageAssumption
<1>3. resv'[c].block \in Ptr /\ resv'[c] = [block |-> resv'[c].block, slot |-> resv'[c].slot]
  BY <1>2 DEF Reservation
<1> SUFFICES ASSUME <<resv'[c].block, resv'[c].slot>> \in Filled(Heaps) PROVE FALSE
  OBVIOUS
<1>4. PICK d \in Owner : slot[d] # None /\ Home[d] = <<resv'[c].block, resv'[c].slot>>
  BY <1>1, FilledHome
<1>5. CASE resv[d] = NoResv
  <2>1. pos[d] = <<resv'[c].block, resv'[c].slot>>
    BY <1>1, <1>4, <1>5
  <2>2. pos[d] # None
    <3>1. <<resv'[c].block, resv'[c].slot>> \in Place
      BY <1>2, StorageAssumption, BlockAssumption DEF Reservation, Place, AllSlots
    <3> QED
      BY <2>1, <3>1, Nones
  <2>3. pos[d][1] \notin Ptr
    BY <1>1, <2>2, HomesAre
  <2> QED
    BY <2>1, <2>3, <1>3
<1>6. CASE resv[d] # NoResv
  <2>1. <<resv[d].block, resv[d].slot>> = <<resv'[c].block, resv'[c].slot>>
    BY <1>1, <1>4, <1>6
  <2>2. d # c
    BY <1>2, <1>6
  <2>3. resv[d] \in Reservation
    BY <1>1, <1>6
  <2>4. resv[d] = [block |-> resv[d].block, slot |-> resv[d].slot]
    BY <2>3 DEF Reservation
  <2>5. resv[d].block = resv'[c].block /\ resv[d].slot = resv'[c].slot
    BY <2>1
  <2>6. resv[d] = resv'[c]
    BY <2>4, <2>5, <1>3
  <2> QED
    BY <2>2, <2>6, <1>2
<1> QED
  BY <1>5, <1>6

\* The allocator is left alone.
LEMMA AllocatorSame ==
  ASSUME AllocatorInv, UNCHANGED allocatorVars
  PROVE  AllocatorInv' /\ Live' = Live /\ resv' = resv
<1>1. AllocatorInv'
  BY AllocatorInvStep
<1> QED
  BY <1>1 DEF allocatorVars, arenaVars, Live

\* A reservation is given back, and with the last of a block its heap: nobody's
\* component is in it.
LEMMA UnreserveOK ==
  ASSUME AllocatorInv, NEW e \in Owner, Dealloc(e), NEW ps \in [Owner -> Position \cup {None}],
         NEW H, NEW sl, Sound(H, sl, HomeFn(resv', ps)), Sized(H, Live),
         NEW N, N = IF value'[resv[e].block] = Vacant THEN Dropped(H, resv[e].block) ELSE H
  PROVE  Sound(N, sl, HomeFn(resv', ps)) /\ Sized(N, Live') /\ Filled(N) = Filled(H)
<1> DEFINE b == resv[e].block
           home == HomeFn(resv', ps)
<1>1. /\ resv[e] \in Reservation /\ resv' \in [Owner -> Reservation \cup {NoResv}]
      /\ Live' = IF value'[b] = Vacant THEN Live \ {b} ELSE Live
      /\ \A d \in Owner : resv'[d] # NoResv => resv'[d].block \in Live'
  BY DeallocTakes, StorageAssumption
<1>2. b \in Ptr /\ b \in HeapId
  BY <1>1, StorageAssumption DEF Reservation
<1>3. \A d \in Owner : home[d] = IF resv'[d] # NoResv THEN <<resv'[d].block, resv'[d].slot>> ELSE ps[d]
  BY <1>1, HomeFnIs
<1>4. HeapTypes(H) /\ Sound(H, sl, home)
  BY DEF Sound
<1> HIDE DEF b, home
<1>5. CASE value'[b] # Vacant
  <2>1. N = H
    BY <1>5 DEF b
  <2>2. Live' = Live
    BY <1>1, <1>5
  <2> QED
    BY <2>1, <2>2
<1>6. CASE value'[b] = Vacant
  <2>1. N = Dropped(H, b) /\ Live' = Live \ {b}
    BY <1>1, <1>6 DEF b
  <2>2. ASSUME NEW s \in 1 .. Len(H.heap[b]), H.content[b][s] # None PROVE FALSE
    <3>1. <<b, s>> \in Filled(H)
      BY <2>2, <1>2, <1>4, FilledIs
    <3>2. PICK d \in Owner : sl[d] # None /\ home[d] = <<b, s>>
      BY <3>1, <1>4, FilledHome
    <3>3. CASE resv'[d] # NoResv
      <4>1. <<resv'[d].block, resv'[d].slot>> = <<b, s>>
        BY <3>2, <3>3, <1>3
      <4>2. resv'[d].block = b
        BY <4>1
      <4> QED
        BY <4>2, <3>3, <2>1, <1>1
    <3>4. CASE resv'[d] = NoResv
      <4>1. ps[d] = <<b, s>>
        BY <3>2, <3>4, <1>3
      <4>2. s \in Nat
        BY <1>2, <1>4, Fields
      <4>3. ps[d] # None
        BY <4>1, <4>2, <1>2, Nones DEF Place
      <4>4. ps[d][1] \notin Ptr
        BY <4>3, <1>1, HomesAre
      <4> QED
        BY <4>1, <4>4, <1>2
    <3> QED
      BY <3>3, <3>4
  <2>3. /\ Sound(N, sl, home) /\ N.heap = [H.heap EXCEPT ![b] = <<>>] /\ Filled(N) = Filled(H)
    <3>1. \A s \in 1 .. Len(H.heap[b]) : H.content[b][s] = None
      BY <2>2
    <3> QED
      BY ONLY <3>1, <2>1, <1>2, <1>4, DroppedOK
  <2>4. \A c \in Ptr : c \in Live' <=> c \in Live /\ c # b
    BY <2>1
  <2>5. Sized(N, Live')
    BY <2>3, <2>4, <1>2, <1>4, DroppedSized
  <2> QED
    BY <2>3, <2>5 DEF home
<1> QED
  BY <1>5, <1>6

\* insert_component, into the heap of a column.
LEMMA InsertInColumn ==
  ASSUME StorageInv, NEW e \in Owner, Insert(e), pos[e] # None
  PROVE  StorageInv'
<1> DEFINE p == pos[e]
           h == pos[e][1]
           s == pos[e][2]
           H == Ensured(Heaps, h)
           N == SetPair(H, p, e)
           i == H.heap[h][s]
<1>1. /\ slot[e] = None
      /\ Exists(Heaps, h) \/ Affordable(Heaps, h)
      /\ SetHeaps(N)
      /\ slot' = [slot EXCEPT ![e] = i]
      /\ UNCHANGED allocatorVars /\ borrowed' = borrowed /\ pos' = pos
  BY Zenon DEF Insert
<1>2. /\ AllocatorInv /\ Sound(Heaps, slot, Home) /\ Sized(Heaps, Live) /\ PlacesOK
      /\ borrowed \subseteq Filled(Heaps)
      /\ resv \in [Owner -> Reservation \cup {NoResv}]
      /\ pos \in [Owner -> Position \cup {None}]
      /\ slot \in [Owner -> Ind \cup {None}]
      /\ Home \in [Owner -> Place \cup {None}]
      /\ Home[e] = IF resv[e] # NoResv THEN <<resv[e].block, resv[e].slot>> ELSE pos[e]
      /\ resv[e] = NoResv
  BY <1>1, StorageFacts
<1>3. /\ p \in Place /\ p = <<h, s>> /\ h \in Column /\ h \in HeapId /\ h \notin Ptr
      /\ s \in 1 .. ColumnLen /\ HeapLen[h] = ColumnLen /\ HeapLen[h] \in Nat
  <2>1. /\ p \in Place /\ p = <<h, s>> /\ h \in Column /\ h \in HeapId /\ h \notin Ptr
        /\ s \in 1 .. ColumnLen /\ HeapLen[h] = ColumnLen
    BY <1>2, HomesAre, ZenonT(60)
  <2> QED
    BY <2>1, Nones
<1>4. p \notin Filled(Heaps)
  <2>1. p \in Position
    BY <1>2
  <2>2. \A d \in Owner : slot[d] # None => pos[d] # p
    BY <1>1, <1>2 DEF PlacesOK
  <2> QED
    BY <2>1, <2>2, PositionFree
<1>5. AllocatorInv' /\ Live' = Live /\ resv' = resv
  BY <1>1, <1>2, AllocatorSame
<1> HIDE DEF p, h, s, H, N, i
<1>6. Sound(H, slot, Home) /\ Sized(H, Live) /\ Len(H.heap[h]) = HeapLen[h] /\ Filled(H) = Filled(Heaps)
  <2>1. HeapLen[h] # 0
    BY <1>3
  <2>2. \A b \in Ptr : b \in Live <=> b \in Live \/ b = h
    BY <1>3
  <2>3. H = Ensured(Heaps, h)
    BY DEF H
  <2>4. /\ Sound(Heaps, slot, Home) /\ Sized(Heaps, Live) /\ h \in HeapId
        /\ Exists(Heaps, h) \/ Affordable(Heaps, h)
    BY <1>1, <1>2, <1>3 DEF h
  <2> QED
    BY ONLY <2>1, <2>2, <2>3, <2>4, EnsuredOK
<1>7. /\ Sound(N, [slot EXCEPT ![e] = i], Home) /\ N.heap = H.heap /\ Filled(N) = Filled(H) \cup {p}
  <2>1. s \in 1 .. Len(H.heap[h]) /\ p \notin Filled(H) /\ Home[e] = p
    BY <1>2, <1>3, <1>4, <1>6 DEF p
  <2>2. N = SetPair(H, p, e) /\ i = H.heap[h][s]
    BY DEF N, i
  <2>3. Sound(H, slot, Home) /\ h \in HeapId /\ p = <<h, s>> /\ slot[e] = None /\ Home \in [Owner -> Place \cup {None}]
    BY <1>1, <1>2, <1>3, <1>6
  <2> QED
    BY ONLY <2>1, <2>2, <2>3, e \in Owner, SetPairOK
<1>8. Heaps' = N
  <2>1. N \in HeapRecord
    BY <1>7 DEF Sound, HeapTypes
  <2> QED
    BY <2>1, <1>1, SetHeapsIs
<1>9. Home' = Home
  BY <1>1, <1>5 DEF Home
<1>10. PlacesOK'
  <2>1. \A d \in Owner : d # e => slot'[d] = slot[d]
    BY <1>1, <1>2
  <2> QED
    BY <2>1, <1>1, <1>2, <1>5 DEF PlacesOK, p
<1>11. Sound(Heaps, slot, Home)'
  BY <1>1, <1>7, <1>8, <1>9
<1>12. Sized(Heaps, Live)'
  <2>1. Sized(N, Live)
    BY <1>6, <1>7, SameSized
  <2> QED
    BY <2>1, <1>5, <1>8 DEF Sized
<1>13. (borrowed \subseteq Filled(Heaps))'
  BY <1>1, <1>2, <1>6, <1>7, <1>8
<1> QED
  BY <1>5, <1>10, <1>11, <1>12, <1>13 DEF StorageInv

\* A slot is reserved, in a block whose heap is there or is made for it.
LEMMA ReserveOK ==
  ASSUME StorageInv, NEW e \in Owner, Reserve(e, Heaps), NEW b, b = resv'[e].block,
         NEW p, p = ReservedPlace(e), NEW H, H = Ensured(Heaps, b)
  PROVE  /\ AllocatorInv'
         /\ resv[e] = NoResv /\ resv'[e] # NoResv
         /\ \A d \in Owner : d # e => resv'[d] = resv[d]
         /\ resv' \in [Owner -> Reservation \cup {NoResv}]
         /\ b \in HeapId /\ p \in Place /\ p = <<b, resv'[e].slot>>
         /\ resv'[e].slot \in 1 .. Len(H.heap[b]) /\ p \notin Filled(H)
         /\ Sound(H, slot, Home) /\ Sized(H, Live') /\ Filled(H) = Filled(Heaps)
<1> DEFINE s == resv'[e].slot
<1>1. /\ AllocatorInv /\ Sound(Heaps, slot, Home) /\ Sized(Heaps, Live) /\ NoResv \notin Reservation
      /\ Alloc(e) /\ (b \notin Live => Affordable(Heaps, b))
  BY StorageFacts DEF Reserve
<1>2. /\ AllocatorInv'
      /\ resv[e] = NoResv /\ resv'[e] \in Reservation
      /\ \A d \in Owner : d # e => resv'[d] = resv[d] /\ resv'[d] # resv'[e]
      /\ resv' \in [Owner -> Reservation \cup {NoResv}]
      /\ Live' = Live \cup {b}
  BY <1>1, AllocGives, StorageAssumption
<1>3. b \in Ptr /\ s \in 1 .. BlockSize
  BY <1>2 DEF Reservation, AllSlots
<1>4. p = <<b, s>>
  BY DEF ReservedPlace
<1> HIDE DEF s
<1>5. b \in HeapId /\ HeapLen[b] = BlockSize /\ BlockSize \in Nat /\ BlockSize # 0
  BY <1>3, StorageAssumption, BlockAssumption
<1>6. p \in Place
  BY <1>3, <1>4, <1>5 DEF Place
<1>7. p \notin Filled(Heaps)
  BY <1>1, <1>4, ReservedFree DEF s
<1>8. Exists(Heaps, b) \/ Affordable(Heaps, b)
  <2>1. CASE b \in Live
    <3>1. Len(Heaps.heap[b]) # 0
      BY <2>1, <1>1, <1>3 DEF Sized
    <3>2. Len(<<>>) = 0
      OBVIOUS
    <3> QED
      BY <3>1, <3>2 DEF Exists
  <2> QED
    BY <2>1, <1>1
<1>9. Sound(H, slot, Home) /\ Sized(H, Live') /\ Len(H.heap[b]) = HeapLen[b] /\ Filled(H) = Filled(Heaps)
  <2>1. \A c \in Ptr : c \in Live' <=> c \in Live \/ c = b
    BY <1>2
  <2>2. /\ Sound(Heaps, slot, Home) /\ Sized(Heaps, Live) /\ b \in HeapId /\ HeapLen[b] # 0
        /\ Exists(Heaps, b) \/ Affordable(Heaps, b)
        /\ H = Ensured(Heaps, b)
    BY <1>1, <1>5, <1>8
  <2> QED
    BY ONLY <2>1, <2>2, EnsuredOK
<1>10. resv'[e] # NoResv
  BY <1>1, <1>2
<1> QED
  BY <1>2, <1>3, <1>4, <1>5, <1>6, <1>7, <1>9, <1>10 DEF s

\* insert_component, into a reserved slot.
LEMMA InsertReserved ==
  ASSUME StorageInv, NEW e \in Owner, Insert(e), pos[e] = None
  PROVE  StorageInv'
<1> DEFINE b == resv'[e].block
           s == resv'[e].slot
           p == ReservedPlace(e)
           H == Ensured(Heaps, b)
           N == SetPair(H, p, e)
           i == H.heap[b][s]
<1>1. /\ slot[e] = None
      /\ Reserve(e, Heaps)
      /\ SetHeaps(N)
      /\ slot' = [slot EXCEPT ![e] = i]
      /\ borrowed' = borrowed /\ pos' = pos
  <2>1. p[1] = b /\ p[2] = s
    BY DEF ReservedPlace
  <2> HIDE DEF b, s, p
  <2>2. /\ slot[e] = None /\ Reserve(e, Heaps) /\ SetHeaps(SetPair(Ensured(Heaps, p[1]), p, e))
        /\ slot' = [slot EXCEPT ![e] = Ensured(Heaps, p[1]).heap[p[1]][p[2]]]
        /\ borrowed' = borrowed /\ pos' = pos
    BY Zenon DEF Insert, p
  <2> QED
    BY <2>1, <2>2, Zenon
<1>2. /\ PlacesOK
      /\ borrowed \subseteq Filled(Heaps)
      /\ pos \in [Owner -> Position \cup {None}]
      /\ slot \in [Owner -> Ind \cup {None}]
      /\ \A d \in Owner :
           Home[d] = IF resv[d] # NoResv THEN <<resv[d].block, resv[d].slot>> ELSE pos[d]
  BY StorageFacts
<1> HIDE DEF H, p
<1>3. /\ AllocatorInv'
      /\ resv[e] = NoResv /\ resv'[e] # NoResv
      /\ \A d \in Owner : d # e => resv'[d] = resv[d]
      /\ resv' \in [Owner -> Reservation \cup {NoResv}]
      /\ b \in HeapId /\ p \in Place /\ p = <<b, s>>
      /\ s \in 1 .. Len(H.heap[b]) /\ p \notin Filled(H)
      /\ Sound(H, slot, Home) /\ Sized(H, Live') /\ Filled(H) = Filled(Heaps)
  BY <1>1, ReserveOK DEF H, p
<1> HIDE DEF b, s, N, i
<1>4. /\ Home' \in [Owner -> Place \cup {None}]
      /\ \A d \in Owner :
           Home'[d] = IF resv'[d] # NoResv THEN <<resv'[d].block, resv'[d].slot>> ELSE pos[d]
  <2>1. Home' = HomeFn(resv', pos)
    BY <1>1 DEF Home
  <2> QED
    BY <2>1, <1>2, <1>3, HomeFnIs
<1>5. Home'[e] = p /\ \A d \in Owner : d # e => Home'[d] = Home[d]
  BY <1>2, <1>3, <1>4 DEF b, s
<1>6. /\ Sound(N, [slot EXCEPT ![e] = i], Home') /\ N.heap = H.heap /\ Filled(N) = Filled(H) \cup {p}
  <2>1. N = SetPair(H, p, e) /\ i = H.heap[b][s]
    BY DEF N, i
  <2>2. /\ Sound(H, slot, Home) /\ b \in HeapId /\ p = <<b, s>> /\ slot[e] = None
        /\ s \in 1 .. Len(H.heap[b]) /\ p \notin Filled(H)
        /\ Home' \in [Owner -> Place \cup {None}]
    BY <1>1, <1>3, <1>4
  <2> QED
    BY ONLY <2>1, <2>2, <1>5, e \in Owner, SetPairOK
<1>7. Heaps' = N
  <2>1. N \in HeapRecord
    BY <1>6 DEF Sound, HeapTypes
  <2> QED
    BY <2>1, <1>1, SetHeapsIs
<1>8. i \in Ind
  <2>1. HeapTypes(H)
    BY <1>3 DEF Sound
  <2> QED
    BY <2>1, <1>3, Fields DEF i
<1>9. PlacesOK'
  <2>1. slot'[e] # None /\ \A d \in Owner : d # e => slot'[d] = slot[d]
    BY <1>1, <1>2, <1>8, Nones
  <2> QED
    BY <2>1, <1>1, <1>2, <1>3 DEF PlacesOK
<1>10. Sound(Heaps, slot, Home)'
  BY <1>1, <1>6, <1>7
<1>11. Sized(Heaps, Live)'
  <2>1. Sized(N, Live')
    BY <1>3, <1>6, SameSized
  <2> QED
    BY <2>1, <1>7 DEF Sized
<1>12. (borrowed \subseteq Filled(Heaps))'
  BY <1>1, <1>2, <1>3, <1>6, <1>7
<1> QED
  BY <1>3, <1>9, <1>10, <1>11, <1>12 DEF StorageInv

\* remove_component
LEMMA RemoveOK ==
  ASSUME StorageInv, NEW e \in Owner, Remove(e)
  PROVE  StorageInv'
<1> DEFINE H == ClearPair(Heaps, slot[e])
           b == resv[e].block
           N == IF value'[b] = Vacant THEN Dropped(H, b) ELSE H
<1>1. /\ slot[e] # None
      /\ at[slot[e]] \notin borrowed
      /\ \/ resv[e] # NoResv /\ Dealloc(e) /\ SetHeaps(N)
         \/ resv[e] = NoResv /\ UNCHANGED allocatorVars /\ SetHeaps(H)
      /\ slot' = [slot EXCEPT ![e] = None]
      /\ borrowed' = borrowed /\ pos' = pos
  BY Zenon DEF Remove, Unreserve, Unborrowed
<1>2. /\ AllocatorInv /\ Sound(Heaps, slot, Home) /\ Sized(Heaps, Live) /\ PlacesOK
      /\ borrowed \subseteq Filled(Heaps)
      /\ resv \in [Owner -> Reservation \cup {NoResv}]
      /\ pos \in [Owner -> Position \cup {None}]
      /\ slot \in [Owner -> Ind \cup {None}]
      /\ \A d \in Owner :
           Home[d] = IF resv[d] # NoResv THEN <<resv[d].block, resv[d].slot>> ELSE pos[d]
  BY StorageFacts
<1>3. Home[e] \in Filled(Heaps) /\ at[slot[e]] = Home[e]
  <2>1. Heaps.at = at
    BY DEF Heaps
  <2>2. Home[e] \in Filled(Heaps) /\ Heaps.at[slot[e]] = Home[e]
    BY <1>1, <1>2, HomeFilled
  <2> QED
    BY <2>1, <2>2
<1>4. /\ AllocatorInv'
      /\ resv' = [resv EXCEPT ![e] = NoResv] /\ resv' \in [Owner -> Reservation \cup {NoResv}]
  <2>1. CASE resv[e] # NoResv
    BY <2>1, <1>1, <1>2, DeallocTakes, StorageAssumption
  <2>2. CASE resv[e] = NoResv
    <3>1. AllocatorInv' /\ resv' = resv
      BY <2>2, <1>1, <1>2, AllocatorSame
    <3> QED
      BY <3>1, <2>2, <1>2
  <2> QED
    BY <2>1, <2>2
<1>5. /\ HomeFn(resv', pos) \in [Owner -> Place \cup {None}]
      /\ \A d \in Owner :
           HomeFn(resv', pos)[d] = IF resv'[d] # NoResv THEN <<resv'[d].block, resv'[d].slot>> ELSE pos[d]
  BY <1>2, <1>4, HomeFnIs
<1>6. \A d \in Owner : d # e => HomeFn(resv', pos)[d] = Home[d]
  BY <1>2, <1>4, <1>5
<1> HIDE DEF H
<1>7. /\ Sound(H, slot', HomeFn(resv', pos)) /\ H.heap = Heaps.heap
      /\ Filled(H) = Filled(Heaps) \ {Home[e]}
  <2>1. Sound(Heaps, slot, Home) /\ slot[e] # None /\ H = ClearPair(Heaps, slot[e])
        /\ HomeFn(resv', pos) \in [Owner -> Place \cup {None}]
    BY <1>1, <1>2, <1>5 DEF H
  <2>2. /\ Sound(H, [slot EXCEPT ![e] = None], HomeFn(resv', pos)) /\ H.heap = Heaps.heap
        /\ Filled(H) = Filled(Heaps) \ {Home[e]}
    BY ONLY <2>1, <1>6, e \in Owner, ClearPairOK
  <2> QED
    BY <2>2, <1>1
<1>8. Sized(H, Live)
  BY <1>2, <1>7, SameSized
<1>9. /\ Sound(Heaps', slot', HomeFn(resv', pos)) /\ Sized(Heaps', Live')
      /\ Filled(Heaps') = Filled(H)
  <2>1. CASE resv[e] # NoResv
    <3>1. Dealloc(e) /\ SetHeaps(N)
      BY <2>1, <1>1
    <3>2. N = IF value'[resv[e].block] = Vacant THEN Dropped(H, resv[e].block) ELSE H
      OBVIOUS
    <3> HIDE DEF N
    <3>3. Sound(N, slot', HomeFn(resv', pos)) /\ Sized(N, Live') /\ Filled(N) = Filled(H)
      BY ONLY <3>1, <3>2, <1>2, <1>7, <1>8, e \in Owner, UnreserveOK
    <3>4. N \in HeapRecord
      BY <3>3 DEF Sound, HeapTypes
    <3> QED
      BY <3>1, <3>3, <3>4, SetHeapsIs
  <2>2. CASE resv[e] = NoResv
    <3>1. SetHeaps(H) /\ UNCHANGED allocatorVars
      BY <2>2, <1>1
    <3>2. H \in HeapRecord
      BY <1>7 DEF Sound, HeapTypes
    <3>3. Heaps' = H /\ Live' = Live
      BY <3>1, <3>2, <1>2, SetHeapsIs, AllocatorSame
    <3> QED
      BY <3>3, <1>7, <1>8
  <2> QED
    BY <2>1, <2>2
<1>10. PlacesOK'
  <2>1. /\ slot'[e] = None /\ \A d \in Owner : d # e => slot'[d] = slot[d]
        /\ resv'[e] = NoResv /\ \A d \in Owner : d # e => resv'[d] = resv[d]
    BY <1>1, <1>2, <1>4
  <2> QED
    BY <2>1, <1>1, <1>2 DEF PlacesOK
<1>11. Sound(Heaps, slot, Home)'
  BY <1>1, <1>9 DEF Home
<1>12. Sized(Heaps, Live)'
  BY <1>9 DEF Sized
<1>13. (borrowed \subseteq Filled(Heaps))'
  BY <1>1, <1>2, <1>3, <1>7, <1>9
<1> QED
  BY <1>4, <1>10, <1>11, <1>12, <1>13 DEF StorageInv

\* The flush has moved an entity without a component.
LEMMA MoveBare ==
  ASSUME StorageInv, NEW e \in Owner, NEW p \in Position \cup {None}, Move(e, p), slot[e] = None
  PROVE  StorageInv'
<1>1. /\ p # None => \A d \in Owner : pos[d] # p
      /\ pos' = [pos EXCEPT ![e] = p]
      /\ UNCHANGED allocatorVars /\ UNCHANGED heapVars /\ slot' = slot
  BY Zenon DEF Move
<1>2. /\ AllocatorInv /\ Sound(Heaps, slot, Home) /\ Sized(Heaps, Live) /\ PlacesOK
      /\ borrowed \subseteq Filled(Heaps)
      /\ resv \in [Owner -> Reservation \cup {NoResv}]
      /\ pos \in [Owner -> Position \cup {None}]
      /\ \A d \in Owner :
           Home[d] = IF resv[d] # NoResv THEN <<resv[d].block, resv[d].slot>> ELSE pos[d]
  BY StorageFacts
<1>3. AllocatorInv' /\ Live' = Live /\ resv' = resv
  BY <1>1, <1>2, AllocatorSame
<1>4. Heaps' = Heaps /\ borrowed' = borrowed
  BY <1>1, HeapsSame
<1>5. /\ pos' \in [Owner -> Position \cup {None}] /\ pos'[e] = p
      /\ \A d \in Owner : d # e => pos'[d] = pos[d]
  BY <1>1, <1>2
<1>6. /\ Home' \in [Owner -> Place \cup {None}]
      /\ \A d \in Owner : d # e => Home'[d] = Home[d]
  <2>1. Home' = HomeFn(resv, pos')
    BY <1>3 DEF Home
  <2>2. /\ HomeFn(resv, pos') \in [Owner -> Place \cup {None}]
        /\ \A d \in Owner :
             HomeFn(resv, pos')[d] = IF resv[d] # NoResv THEN <<resv[d].block, resv[d].slot>> ELSE pos'[d]
    BY <1>2, <1>5, HomeFnIs
  <2> QED
    BY <2>1, <2>2, <1>2, <1>5
<1>7. Sound(Heaps, slot, Home')
  BY ONLY <1>2, <1>6, e \in Owner, slot[e] = None, HomeFree
<1>8. Sound(Heaps, slot, Home)'
  BY <1>1, <1>4, <1>7
<1>9. PlacesOK'
  <2>1. \A d \in Owner : d # e => pos'[d] # p \/ p = None
    BY <1>1, <1>5
  <2>2. \A c, d \in Owner : pos'[c] = pos'[d] /\ pos'[c] # None => c = d
    BY <2>1, <1>2, <1>5 DEF PlacesOK
  <2>3. \A d \in Owner : resv'[d] # NoResv <=> slot'[d] # None /\ pos'[d] = None
    BY <1>1, <1>2, <1>3, <1>5 DEF PlacesOK
  <2> QED
    BY <2>2, <2>3, <1>5 DEF PlacesOK
<1>10. Sized(Heaps, Live)'
  BY <1>2, <1>3, <1>4 DEF Sized
<1> QED
  BY <1>2, <1>3, <1>4, <1>8, <1>9, <1>10 DEF StorageInv

\* What every move of an entity with a component needs.
LEMMA MoveFacts ==
  ASSUME StorageInv, NEW e \in Owner, NEW p \in Position \cup {None}, Move(e, p), slot[e] # None
  PROVE  /\ p # pos[e]
         /\ p # None => \A d \in Owner : pos[d] # p
         /\ pos' = [pos EXCEPT ![e] = p] /\ slot' = slot /\ borrowed' = borrowed
         /\ pos' \in [Owner -> Position \cup {None}] /\ pos'[e] = p
         /\ \A d \in Owner : d # e => pos'[d] = pos[d]
         /\ \A c, d \in Owner : pos'[c] = pos'[d] /\ pos'[c] # None => c = d
         /\ HomeOf(e) = Home[e] /\ Home[e] \notin borrowed
         /\ resv[e] # NoResv <=> pos[e] = None
<1>1. /\ p # pos[e]
      /\ p # None => \A d \in Owner : pos[d] # p
      /\ pos' = [pos EXCEPT ![e] = p] /\ slot' = slot /\ borrowed' = borrowed
      /\ at[slot[e]] \notin borrowed
  BY Zenon DEF Move, Unborrowed
<1>2. /\ Sound(Heaps, slot, Home) /\ PlacesOK
      /\ pos \in [Owner -> Position \cup {None}]
      /\ HomeOf(e) = Home[e]
  BY StorageFacts
<1>3. at[slot[e]] = Home[e]
  <2>1. Heaps.at = at
    BY DEF Heaps
  <2>2. Heaps.at[slot[e]] = Home[e]
    BY <1>2, HomeFilled
  <2> QED
    BY <2>1, <2>2
<1>4. /\ pos' \in [Owner -> Position \cup {None}] /\ pos'[e] = p
      /\ \A d \in Owner : d # e => pos'[d] = pos[d]
  BY <1>1, <1>2
<1>5. \A c, d \in Owner : pos'[c] = pos'[d] /\ pos'[c] # None => c = d
  <2>1. \A d \in Owner : d # e => pos'[d] # p \/ p = None
    BY <1>1, <1>4
  <2> QED
    BY <2>1, <1>2, <1>4 DEF PlacesOK
<1>6. resv[e] # NoResv <=> pos[e] = None
  BY <1>2 DEF PlacesOK
<1> QED
  BY <1>1, <1>2, <1>3, <1>4, <1>5, <1>6

\* Into the heap of a column; the reservation there may have been is given back.
LEMMA MoveToColumn ==
  ASSUME StorageInv, NEW e \in Owner, NEW p \in Position \cup {None}, Move(e, p), slot[e] # None,
         p # None
  PROVE  StorageInv'
<1> DEFINE h == p[1]
           s == p[2]
           E == Ensured(Heaps, h)
           H == SwapSlots(E, HomeOf(e), p)
           N == IF value'[resv[e].block] = Vacant THEN Dropped(H, resv[e].block) ELSE H
           home == HomeFn(resv', pos')
<1>1. /\ Exists(Heaps, h) \/ Affordable(Heaps, h)
      /\ \/ resv[e] # NoResv /\ Dealloc(e) /\ SetHeaps(N)
         \/ resv[e] = NoResv /\ UNCHANGED allocatorVars /\ SetHeaps(H)
  BY Zenon DEF Move, Unreserve
<1>2. /\ AllocatorInv /\ Sound(Heaps, slot, Home) /\ Sized(Heaps, Live) /\ PlacesOK
      /\ borrowed \subseteq Filled(Heaps)
      /\ resv \in [Owner -> Reservation \cup {NoResv}]
      /\ pos \in [Owner -> Position \cup {None}]
      /\ \A d \in Owner :
           Home[d] = IF resv[d] # NoResv THEN <<resv[d].block, resv[d].slot>> ELSE pos[d]
  BY StorageFacts
<1>3. /\ \A d \in Owner : pos[d] # p
      /\ slot' = slot /\ borrowed' = borrowed
      /\ pos' \in [Owner -> Position \cup {None}] /\ pos'[e] = p
      /\ \A d \in Owner : d # e => pos'[d] = pos[d]
      /\ \A c, d \in Owner : pos'[c] = pos'[d] /\ pos'[c] # None => c = d
      /\ HomeOf(e) = Home[e] /\ Home[e] \notin borrowed
  BY MoveFacts
<1>4. /\ AllocatorInv'
      /\ resv' = [resv EXCEPT ![e] = NoResv] /\ resv' \in [Owner -> Reservation \cup {NoResv}]
  <2>1. CASE resv[e] # NoResv
    BY <2>1, <1>1, <1>2, DeallocTakes, StorageAssumption
  <2>2. CASE resv[e] = NoResv
    <3>1. AllocatorInv' /\ resv' = resv
      BY <2>2, <1>1, <1>2, AllocatorSame
    <3> QED
      BY <3>1, <2>2, <1>2
  <2> QED
    BY <2>1, <2>2
<1>5. /\ home \in [Owner -> Place \cup {None}]
      /\ \A d \in Owner :
           home[d] = IF resv'[d] # NoResv THEN <<resv'[d].block, resv'[d].slot>> ELSE pos'[d]
  BY <1>3, <1>4, HomeFnIs
<1>6. /\ p \in Place /\ p = <<h, s>> /\ h \in HeapId /\ h \notin Ptr
      /\ s \in 1 .. ColumnLen /\ HeapLen[h] = ColumnLen
  BY <1>2, <1>3, HomesAre, ZenonT(60)
<1>7. p \in Position /\ p \notin Filled(Heaps)
  <2>1. p \in Position
    OBVIOUS
  <2> QED
    BY <2>1, <1>3, PositionFree
<1> HIDE DEF h, s, E, H, home
<1>8. home[e] = p /\ \A d \in Owner : d # e => home[d] = Home[d]
  BY <1>2, <1>3, <1>4, <1>5
<1>9. Sound(E, slot, Home) /\ Sized(E, Live) /\ Len(E.heap[h]) = HeapLen[h] /\ Filled(E) = Filled(Heaps)
  <2>1. HeapLen[h] # 0
    BY <1>6, Nones
  <2>2. \A b \in Ptr : b \in Live <=> b \in Live \/ b = h
    BY <1>6
  <2>3. /\ E = Ensured(Heaps, h) /\ Sound(Heaps, slot, Home) /\ Sized(Heaps, Live) /\ h \in HeapId
        /\ Exists(Heaps, h) \/ Affordable(Heaps, h)
    BY <1>1, <1>2, <1>6 DEF E
  <2> QED
    BY ONLY <2>1, <2>2, <2>3, EnsuredOK
<1>10. /\ Sound(H, slot, home)
       /\ \A k \in HeapId : Len(H.heap[k]) = Len(E.heap[k])
       /\ Home[e] \in Filled(E)
       /\ Filled(H) = (Filled(E) \ {Home[e]}) \cup {p}
  <2>1. /\ Sound(E, slot, Home) /\ slot[e] # None /\ h \in HeapId /\ s \in 1 .. Len(E.heap[h])
        /\ p = <<h, s>> /\ p \notin Filled(E) /\ home \in [Owner -> Place \cup {None}]
        /\ H = SwapSlots(E, Home[e], p)
    BY <1>3, <1>5, <1>6, <1>7, <1>9 DEF H
  <2> QED
    BY ONLY <2>1, <1>8, e \in Owner, SwapSlotsOK
<1>11. Sized(H, Live)
  BY <1>9, <1>10, SameSized
<1>12. Sound(Heaps', slot, home) /\ Sized(Heaps', Live') /\ Filled(Heaps') = Filled(H)
  <2>1. CASE resv[e] # NoResv
    <3>1. Dealloc(e) /\ SetHeaps(N)
      BY <2>1, <1>1
    <3>2. N = IF value'[resv[e].block] = Vacant THEN Dropped(H, resv[e].block) ELSE H
      OBVIOUS
    <3> HIDE DEF N
    <3>3. Sound(H, slot, HomeFn(resv', pos'))
      BY <1>10 DEF home
    <3>4. Sound(N, slot, HomeFn(resv', pos')) /\ Sized(N, Live') /\ Filled(N) = Filled(H)
      BY ONLY <3>1, <3>2, <3>3, <1>2, <1>3, <1>11, e \in Owner, UnreserveOK
    <3>5. N \in HeapRecord
      BY <3>4 DEF Sound, HeapTypes
    <3> QED
      BY <3>1, <3>4, <3>5, SetHeapsIs DEF home
  <2>2. CASE resv[e] = NoResv
    <3>1. SetHeaps(H) /\ UNCHANGED allocatorVars
      BY <2>2, <1>1
    <3>2. H \in HeapRecord
      BY <1>10 DEF Sound, HeapTypes
    <3>3. Heaps' = H /\ Live' = Live
      BY <3>1, <3>2, <1>2, SetHeapsIs, AllocatorSame
    <3> QED
      BY <3>3, <1>10, <1>11
  <2> QED
    BY <2>1, <2>2
<1>13. PlacesOK'
  <2>1. resv'[e] = NoResv /\ \A d \in Owner : d # e => resv'[d] = resv[d]
    BY <1>2, <1>4
  <2> QED
    BY <2>1, <1>2, <1>3 DEF PlacesOK
<1>14. Sound(Heaps, slot, Home)'
  BY <1>3, <1>12 DEF Home, home
<1>15. Sized(Heaps, Live)'
  BY <1>12 DEF Sized
<1>16. (borrowed \subseteq Filled(Heaps))'
  BY <1>2, <1>3, <1>9, <1>10, <1>12
<1> QED
  BY <1>4, <1>13, <1>14, <1>15, <1>16 DEF StorageInv

\* Into a slot which is reserved for it.
LEMMA MoveToReserved ==
  ASSUME StorageInv, NEW e \in Owner, Move(e, None), slot[e] # None
  PROVE  StorageInv'
<1> DEFINE b == resv'[e].block
           s == resv'[e].slot
           q == ReservedPlace(e)
           E == Ensured(Heaps, b)
           N == SwapSlots(E, HomeOf(e), q)
<1>1. Reserve(e, Heaps) /\ SetHeaps(N)
  <2>1. q[1] = b
    BY DEF ReservedPlace
  <2> HIDE DEF b, q
  <2>2. Reserve(e, Heaps) /\ SetHeaps(SwapSlots(Ensured(Heaps, q[1]), HomeOf(e), q))
    BY Zenon DEF Move, q
  <2> QED
    BY <2>1, <2>2, Zenon
<1>2. /\ PlacesOK
      /\ borrowed \subseteq Filled(Heaps)
      /\ \A d \in Owner :
           Home[d] = IF resv[d] # NoResv THEN <<resv[d].block, resv[d].slot>> ELSE pos[d]
  BY StorageFacts
<1>3. /\ slot' = slot /\ borrowed' = borrowed
      /\ pos' \in [Owner -> Position \cup {None}] /\ pos'[e] = None
      /\ \A d \in Owner : d # e => pos'[d] = pos[d]
      /\ \A c, d \in Owner : pos'[c] = pos'[d] /\ pos'[c] # None => c = d
      /\ HomeOf(e) = Home[e] /\ Home[e] \notin borrowed
  <2>1. None \in Position \cup {None}
    OBVIOUS
  <2> QED
    BY <2>1, MoveFacts
<1> HIDE DEF E, q
<1>4. /\ AllocatorInv'
      /\ resv[e] = NoResv /\ resv'[e] # NoResv
      /\ \A d \in Owner : d # e => resv'[d] = resv[d]
      /\ resv' \in [Owner -> Reservation \cup {NoResv}]
      /\ b \in HeapId /\ q \in Place /\ q = <<b, s>>
      /\ s \in 1 .. Len(E.heap[b]) /\ q \notin Filled(E)
      /\ Sound(E, slot, Home) /\ Sized(E, Live') /\ Filled(E) = Filled(Heaps)
  BY <1>1, ReserveOK DEF E, q
<1> HIDE DEF b, s, N
<1>5. /\ Home' \in [Owner -> Place \cup {None}]
      /\ \A d \in Owner :
           Home'[d] = IF resv'[d] # NoResv THEN <<resv'[d].block, resv'[d].slot>> ELSE pos'[d]
  <2>1. Home' = HomeFn(resv', pos')
    BY DEF Home
  <2> QED
    BY <2>1, <1>3, <1>4, HomeFnIs
<1>6. Home'[e] = q /\ \A d \in Owner : d # e => Home'[d] = Home[d]
  <2>1. Home'[e] = <<b, s>>
    BY <1>4, <1>5 DEF b, s
  <2>2. ASSUME NEW d \in Owner, d # e PROVE Home'[d] = Home[d]
    <3>1. resv'[d] = resv[d] /\ pos'[d] = pos[d]
      BY <2>2, <1>3, <1>4
    <3> QED
      BY <3>1, <1>2, <1>5
  <2> QED
    BY <2>1, <2>2, <1>4
<1>7. /\ Sound(N, slot, Home')
      /\ \A k \in HeapId : Len(N.heap[k]) = Len(E.heap[k])
      /\ Home[e] \in Filled(E)
      /\ Filled(N) = (Filled(E) \ {Home[e]}) \cup {q}
  <2>1. /\ Sound(E, slot, Home) /\ slot[e] # None /\ b \in HeapId /\ s \in 1 .. Len(E.heap[b])
        /\ q = <<b, s>> /\ q \notin Filled(E) /\ Home' \in [Owner -> Place \cup {None}]
        /\ N = SwapSlots(E, Home[e], q)
    BY <1>3, <1>4, <1>5 DEF N
  <2> QED
    BY ONLY <2>1, <1>6, e \in Owner, SwapSlotsOK
<1>8. Heaps' = N
  <2>1. N \in HeapRecord
    BY <1>7 DEF Sound, HeapTypes
  <2> QED
    BY <2>1, <1>1, SetHeapsIs
<1>9. PlacesOK'
  BY <1>2, <1>3, <1>4 DEF PlacesOK
<1>10. Sound(Heaps, slot, Home)'
  BY <1>3, <1>7, <1>8
<1>11. Sized(Heaps, Live)'
  <2>1. Sized(N, Live')
    BY <1>4, <1>7, SameSized
  <2> QED
    BY <2>1, <1>8 DEF Sized
<1>12. (borrowed \subseteq Filled(Heaps))'
  BY <1>2, <1>3, <1>4, <1>7, <1>8
<1> QED
  BY <1>4, <1>9, <1>10, <1>11, <1>12 DEF StorageInv

\* truncate_archetype_heap_len
LEMMA TruncateOK ==
  ASSUME StorageInv, NEW c \in Column, Truncate(c)
  PROVE  StorageInv'
<1> DEFINE N == Dropped(Heaps, c)
<1>1. /\ \A e \in Owner : pos[e] # None => pos[e][1] # c
      /\ SetHeaps(N) /\ UNCHANGED allocatorVars
      /\ borrowed' = borrowed /\ pos' = pos /\ slot' = slot
  BY Zenon DEF Truncate
<1>2. /\ AllocatorInv /\ Sound(Heaps, slot, Home) /\ Sized(Heaps, Live) /\ PlacesOK
      /\ borrowed \subseteq Filled(Heaps)
      /\ resv \in [Owner -> Reservation \cup {NoResv}]
      /\ pos \in [Owner -> Position \cup {None}]
      /\ \A d \in Owner :
           Home[d] = IF resv[d] # NoResv THEN <<resv[d].block, resv[d].slot>> ELSE pos[d]
  BY StorageFacts
<1>3. AllocatorInv' /\ Live' = Live /\ resv' = resv
  BY <1>1, <1>2, AllocatorSame
<1>4. c \in HeapId /\ c \notin Ptr
  BY StorageAssumption
<1>5. HeapTypes(Heaps)
  BY <1>2 DEF Sound
<1>6. ASSUME NEW s \in 1 .. Len(Heaps.heap[c]), Heaps.content[c][s] # None PROVE FALSE
  <2>1. <<c, s>> \in Filled(Heaps)
    BY <1>4, <1>5, <1>6, FilledIs
  <2>2. PICK d \in Owner : slot[d] # None /\ Home[d] = <<c, s>>
    BY <2>1, <1>2, FilledHome
  <2>3. CASE resv[d] # NoResv
    <3>1. <<resv[d].block, resv[d].slot>> = <<c, s>> /\ resv[d].block \in Ptr
      BY <2>2, <2>3, <1>2, HomesAre
    <3>2. resv[d].block = c
      BY <3>1
    <3> QED
      BY <3>1, <3>2, <1>4
  <2>4. CASE resv[d] = NoResv
    <3>1. pos[d] = <<c, s>>
      BY <2>2, <2>4, <1>2
    <3>2. pos[d] # None
      <4>1. s \in Nat
        BY <1>4, <1>5, Fields
      <4> QED
        BY <3>1, <4>1, <1>4, Nones DEF Place
    <3>3. pos[d][1] = c
      BY <3>1
    <3> QED
      BY <3>2, <3>3, <1>1
  <2> QED
    BY <2>3, <2>4
<1>7. Sound(N, slot, Home) /\ N.heap = [Heaps.heap EXCEPT ![c] = <<>>] /\ Filled(N) = Filled(Heaps)
  BY <1>2, <1>4, <1>6, DroppedOK
<1> HIDE DEF N
<1>8. Sized(N, Live)
  <2>1. \A b \in Ptr : b \in Live <=> b \in Live /\ b # c
    BY <1>4
  <2> QED
    BY <2>1, <1>2, <1>4, <1>5, <1>7, DroppedSized
<1>9. Heaps' = N
  <2>1. N \in HeapRecord
    BY <1>7 DEF Sound, HeapTypes
  <2> QED
    BY <2>1, <1>1, SetHeapsIs
<1>10. Home' = Home
  BY <1>1, <1>3 DEF Home
<1>11. PlacesOK'
  BY <1>1, <1>2, <1>3 DEF PlacesOK
<1>12. Sound(Heaps, slot, Home)'
  BY <1>1, <1>7, <1>9, <1>10
<1>13. Sized(Heaps, Live)'
  BY <1>3, <1>8, <1>9 DEF Sized
<1> QED
  BY <1>1, <1>2, <1>3, <1>7, <1>9, <1>11, <1>12, <1>13 DEF StorageInv

\* Whatever leaves the memory as it is, and borrows nothing but values.
LEMMA MemorySame ==
  ASSUME StorageInv, UNCHANGED allocatorVars, pos' = pos, slot' = slot, Heaps' = Heaps,
         borrowed' \subseteq Filled(Heaps)
  PROVE  StorageInv'
<1>1. /\ AllocatorInv /\ Sound(Heaps, slot, Home) /\ Sized(Heaps, Live) /\ PlacesOK
  BY StorageFacts
<1>2. AllocatorInv' /\ Live' = Live /\ resv' = resv
  BY <1>1, AllocatorSame
<1>3. Home' = Home
  BY <1>2 DEF Home
<1>4. PlacesOK'
  BY <1>1, <1>2 DEF PlacesOK
<1>5. Sound(Heaps, slot, Home)'
  BY <1>1, <1>3
<1>6. Sized(Heaps, Live)'
  BY <1>1, <1>2 DEF Sized
<1> QED
  BY <1>2, <1>4, <1>5, <1>6 DEF StorageInv

\* Obj::get, and the end of the guard.
LEMMA UseOK ==
  ASSUME StorageInv, Use
  PROVE  StorageInv'
<1>1. /\ Sound(Heaps, slot, Home) /\ borrowed \subseteq Filled(Heaps)
      /\ slot \in [Owner -> Ind \cup {None}]
  BY StorageFacts
<1>2. UNCHANGED allocatorVars /\ pos' = pos /\ slot' = slot
  BY DEF Use
<1>3. CASE \E e \in Owner, i \in Ind : BorrowObj(e, i)
  <2>1. PICK e \in Owner, i \in Ind : BorrowObj(e, i)
    BY <1>3
  <2>2. /\ owner[i] = e /\ borrowed' = borrowed \cup {at[i]}
        /\ UNCHANGED <<made, free_ind, owner, at, heap, content>>
    BY <2>1 DEF BorrowObj, ObjAlive
  <2>3. Heaps' = Heaps
    BY <2>2 DEF Heaps
  <2>4. Heaps.owner = owner /\ Heaps.at = at
    BY DEF Heaps
  <2>5. Exact(Heaps, slot, Home)
    BY <1>1 DEF Sound
  <2>6. e # None
    BY Nones
  <2>7. slot[e] = i
    BY <2>2, <2>4, <2>5, <2>6 DEF Exact
  <2>8. i # None
    BY Nones
  <2>9. at[i] \in Filled(Heaps)
    BY <1>1, <2>4, <2>7, <2>8, HomeFilled
  <2> QED
    BY <2>2, <2>3, <2>9, <1>1, <1>2, MemorySame
<1>4. CASE \E p \in borrowed : ReleaseObj(p)
  <2>1. PICK p \in borrowed : ReleaseObj(p)
    BY <1>4
  <2>2. /\ borrowed' = borrowed \ {p}
        /\ UNCHANGED <<made, free_ind, owner, at, heap, content>>
    BY <2>1 DEF ReleaseObj
  <2>3. Heaps' = Heaps
    BY <2>2 DEF Heaps
  <2> QED
    BY <2>2, <2>3, <1>1, <1>2, MemorySame
<1> QED
  BY <1>3, <1>4 DEF Use

\* There are no heaps at first.
LEMMA HeapsAtFirst ==
  ASSUME HeapInit
  PROVE  /\ HeapTypes(Heaps) /\ Pointers(Heaps)
         /\ \A h \in HeapId : Heaps.heap[h] = <<>> /\ Len(Heaps.heap[h]) = 0
         /\ Heaps.owner = [i \in Ind |-> None] /\ borrowed = {}
<1>1. Heaps = HeapsOf(made, free_ind, owner, at, heap, content)
  BY DEF Heaps, HeapsOf
<1>2. /\ Heaps.made = 0 /\ Heaps.free = <<>>
      /\ Heaps.owner = [i \in Ind |-> None] /\ Heaps.at = [i \in Ind |-> None]
      /\ Heaps.heap = [h \in HeapId |-> <<>>] /\ Heaps.content = [h \in HeapId |-> <<>>]
      /\ borrowed = {}
  BY DEF Heaps, HeapInit
<1>3. /\ 0 \in Nat /\ Len(<<>>) = 0 /\ 0 <= MaxInd
      /\ <<>> \in Seq(Ind) /\ <<>> \in Seq(Cells)
  BY Nones
<1>4. /\ Heaps.owner \in [Ind -> Cells] /\ Heaps.at \in [Ind -> Place \cup {None}]
      /\ Heaps.heap \in [HeapId -> Seq(Ind)] /\ Heaps.content \in [HeapId -> Seq(Cells)]
  BY <1>2, <1>3 DEF Cells
<1>5. Heaps \in HeapRecord
  BY <1>2, <1>3, <1>4 DEF Heaps, HeapRecord
<1>6. \A h \in HeapId : Heaps.heap[h] = <<>> /\ Heaps.content[h] = <<>>
  BY <1>2
<1>7. HeapTypes(Heaps)
  BY <1>2, <1>3, <1>5, <1>6 DEF HeapTypes
<1>8. Mutual(0, <<>>, Heaps.at, Heaps.heap)
  <2>1. \A i \in Ind : Heaps.at[i] = None
    BY <1>2
  <2> QED
    BY <2>1, <1>3, <1>6 DEF Mutual
<1>9. Disowned(0, <<>>, Heaps.owner)
  BY <1>2, <1>3 DEF Disowned
<1> QED
  BY <1>2, <1>3, <1>6, <1>7, <1>8, <1>9 DEF Pointers

\* The invariant holds at first, is kept by every step, and holds always.
LEMMA StorageInvInit == Init => StorageInv
<1> SUFFICES ASSUME Init PROVE StorageInv
  OBVIOUS
<1>1. /\ AllocatorInit /\ HeapInit
      /\ pos = [e \in Owner |-> None] /\ slot = [e \in Owner |-> None]
  BY DEF Init
<1>2. /\ HeapTypes(Heaps) /\ Pointers(Heaps)
      /\ \A h \in HeapId : Heaps.heap[h] = <<>> /\ Len(Heaps.heap[h]) = 0
      /\ Heaps.owner = [i \in Ind |-> None] /\ borrowed = {}
  BY <1>1, HeapsAtFirst
<1>3. AllocatorInv
  BY <1>1, AllocatorInvInit
<1>4. \A e \in Owner : resv[e] = NoResv
  BY <1>1, StorageAssumption DEF AllocatorInit
<1>5. resv \in [Owner -> Reservation \cup {NoResv}]
  BY <1>3, StorageAssumption DEF AllocatorInv, BlockTypes, Reservation
<1>6. /\ pos \in [Owner -> Position \cup {None}] /\ slot \in [Owner -> Ind \cup {None}]
      /\ \A e \in Owner : pos[e] = None /\ slot[e] = None
  BY <1>1
<1>7. Home \in [Owner -> Place \cup {None}]
  BY <1>5, <1>6, HomeFnIs DEF Home
<1>8. Exact(Heaps, slot, Home)
  <2>1. \A i \in Ind : Heaps.owner[i] = None
    BY <1>2
  <2>2. \A h \in HeapId : \A s \in 1 .. Len(Heaps.heap[h]) : FALSE
    BY <1>2
  <2> QED
    BY <2>1, <2>2, <1>6 DEF Exact
<1>9. Sound(Heaps, slot, Home)
  BY <1>2, <1>6, <1>7, <1>8 DEF Sound
<1>10. Sized(Heaps, Live)
  <2>1. \A b \in Ptr : b \notin Live
    BY <1>1 DEF AllocatorInit, ArenaInit, Live
  <2> QED
    BY <2>1, <1>2, StorageAssumption DEF Sized
<1>11. PlacesOK
  BY <1>4, <1>6 DEF PlacesOK
<1> QED
  BY <1>2, <1>3, <1>9, <1>10, <1>11 DEF StorageInv

LEMMA StorageInvStep == StorageInv /\ [Next]_storageVars => StorageInv'
<1> SUFFICES ASSUME StorageInv, [Next]_storageVars PROVE StorageInv'
  OBVIOUS
<1>1. ASSUME NEW e \in Owner, Insert(e) PROVE StorageInv'
  BY <1>1, InsertInColumn, InsertReserved
<1>2. ASSUME NEW e \in Owner, Remove(e) PROVE StorageInv'
  BY <1>2, RemoveOK
<1>3. ASSUME NEW e \in Owner, NEW p \in Position \cup {None}, Move(e, p) PROVE StorageInv'
  BY <1>3, MoveBare, MoveToColumn, MoveToReserved
<1>4. ASSUME NEW c \in Column, Truncate(c) PROVE StorageInv'
  BY <1>4, TruncateOK
<1>5. CASE Use
  BY <1>5, UseOK
<1>6. CASE UNCHANGED storageVars
  <2>1. UNCHANGED allocatorVars /\ UNCHANGED heapVars /\ pos' = pos /\ slot' = slot
    BY <1>6 DEF storageVars
  <2>2. Heaps' = Heaps /\ borrowed' = borrowed
    BY <2>1, HeapsSame
  <2>3. borrowed \subseteq Filled(Heaps)
    BY StorageFacts
  <2> QED
    BY <2>1, <2>2, <2>3, MemorySame
<1> QED
  BY <1>1, <1>2, <1>3, <1>4, <1>5, <1>6 DEF Next

LEMMA StorageInvAlways == Spec => []StorageInv
BY StorageInvInit, StorageInvStep, PTL DEF Spec

\* The variables of the heaps, as fields.
LEMMA Variables ==
  ASSUME StorageInv
  PROVE  /\ Heaps.made = made /\ Heaps.free = free_ind /\ Heaps.owner = owner /\ Heaps.at = at
         /\ Heaps.heap = heap /\ Heaps.content = content
         /\ HeapTypes(Heaps) /\ Pointers(Heaps) /\ Exact(Heaps, slot, Home)
         /\ DOMAIN free_ind = 1 .. Len(free_ind)
         /\ \A h \in HeapId : DOMAIN heap[h] = 1 .. Len(heap[h]) /\ DOMAIN content[h] = 1 .. Len(heap[h])
<1>1. /\ Heaps.made = made /\ Heaps.free = free_ind /\ Heaps.owner = owner /\ Heaps.at = at
      /\ Heaps.heap = heap /\ Heaps.content = content
  BY DEF Heaps
<1>2. HeapTypes(Heaps) /\ Pointers(Heaps) /\ Exact(Heaps, slot, Home)
  BY StorageFacts DEF Sound
<1>3. /\ free_ind \in Seq(Ind)
      /\ \A h \in HeapId : DOMAIN heap[h] = 1 .. Len(heap[h]) /\ DOMAIN content[h] = 1 .. Len(heap[h])
  BY <1>1, <1>2, Fields
<1>4. DOMAIN free_ind = 1 .. Len(free_ind)
  BY <1>3
<1> QED
  BY <1>1, <1>2, <1>3, <1>4

\* What it says of the pointers, the handles and the guards.
LEMMA InvPointers == StorageInv => PointersMutual
<1> SUFFICES ASSUME StorageInv PROVE PointersMutual
  OBVIOUS
<1>1. /\ Mutual(made, free_ind, at, heap) /\ Disowned(made, free_ind, owner)
      /\ DOMAIN free_ind = 1 .. Len(free_ind)
      /\ \A h \in HeapId : DOMAIN heap[h] = 1 .. Len(heap[h])
  BY Variables DEF Pointers
<1>2. ASSUME NEW h \in HeapId, NEW s \in DOMAIN heap[h]
      PROVE  at[heap[h][s]] = <<h, s>>
  <2>1. s \in 1 .. Len(heap[h])
    BY <1>1
  <2> QED
    BY <2>1, <1>1 DEF Mutual
<1>3. ASSUME NEW i \in Ind, at[i] # None
      PROVE  at[i][2] \in DOMAIN heap[at[i][1]] /\ heap[at[i][1]][at[i][2]] = i
  <2>1. PICK h \in HeapId : \E s \in 1 .. Len(heap[h]) : at[i] = <<h, s>> /\ heap[h][s] = i
    BY <1>1, <1>3 DEF Mutual
  <2>2. PICK s \in 1 .. Len(heap[h]) : at[i] = <<h, s>> /\ heap[h][s] = i
    BY <2>1
  <2> QED
    BY <2>2, <1>1
<1>4. \A k \in DOMAIN free_ind : at[free_ind[k]] = None /\ owner[free_ind[k]] = None
  BY <1>1 DEF Mutual, Disowned
<1>5. \A k, l \in DOMAIN free_ind : free_ind[k] = free_ind[l] => k = l
  BY <1>1 DEF Mutual
<1>6. \A i \in 1 .. made : at[i] = None => \E k \in DOMAIN free_ind : free_ind[k] = i
  BY <1>1 DEF Mutual
<1> QED
  BY <1>2, <1>3, <1>4, <1>5, <1>6 DEF PointersMutual

LEMMA InvHandles == StorageInv => HandleExact
<1> SUFFICES ASSUME StorageInv PROVE HandleExact
  OBVIOUS
<1>1. /\ Heaps.owner = owner /\ Heaps.at = at /\ Heaps.heap = heap /\ Heaps.content = content
      /\ HeapTypes(Heaps) /\ Exact(Heaps, slot, Home)
      /\ \A h \in HeapId : DOMAIN content[h] = 1 .. Len(heap[h])
  BY Variables
<1>2. /\ Sound(Heaps, slot, Home) /\ \A e \in Owner : HomeOf(e) = Home[e]
      /\ \A e \in Owner : slot[e] = None => resv[e] = NoResv
  BY StorageFacts
<1>3. ASSUME NEW e \in Owner, slot[e] # None
      PROVE  /\ owner[slot[e]] = e /\ at[slot[e]] = HomeOf(e)
             /\ content[HomeOf(e)[1]][HomeOf(e)[2]] = e
  <2>1. owner[slot[e]] = e /\ at[slot[e]] = Home[e]
    BY <1>1, <1>3 DEF Exact
  <2>2. \E h \in HeapId : \E s \in 1 .. Len(heap[h]) : Home[e] = <<h, s>> /\ content[h][s] = e
    BY <1>1, <1>3 DEF Exact
  <2>3. content[Home[e][1]][Home[e][2]] = e
    BY <2>2
  <2> QED
    BY <2>1, <2>3, <1>2
<1>4. \A i \in Ind : owner[i] # None => slot[owner[i]] = i
  BY <1>1 DEF Exact
<1>5. ASSUME NEW h \in HeapId, NEW s \in DOMAIN content[h], content[h][s] # None
      PROVE  at[slot[content[h][s]]] = <<h, s>>
  <2>1. s \in 1 .. Len(heap[h])
    BY <1>1
  <2>2. content[h][s] \in Owner
    BY <2>1, <1>1, <1>5, Fields DEF Cells
  <2>3. slot[content[h][s]] # None /\ Home[content[h][s]] = <<h, s>>
    BY <2>1, <1>1, <1>5 DEF Exact
  <2> QED
    BY <2>2, <2>3, <1>1, <1>2, HomeFilled
<1> QED
  BY <1>2, <1>3, <1>4, <1>5 DEF HandleExact

LEMMA InvGuards == StorageInv => GuardsValid
<1> SUFFICES ASSUME StorageInv, NEW p \in borrowed
             PROVE  /\ p[2] \in DOMAIN content[p[1]]
                    /\ content[p[1]][p[2]] # None
                    /\ at[slot[content[p[1]][p[2]]]] = p
  BY DEF GuardsValid
<1>1. /\ Heaps.heap = heap /\ Heaps.content = content /\ HeapTypes(Heaps)
      /\ \A h \in HeapId : DOMAIN content[h] = 1 .. Len(heap[h])
  BY Variables
<1>2. p \in Filled(Heaps)
  BY StorageFacts
<1>3. /\ p = <<p[1], p[2]>> /\ p[1] \in HeapId /\ p[2] \in 1 .. Len(heap[p[1]])
      /\ content[p[1]][p[2]] \in Owner
  BY <1>1, <1>2, FilledPair
<1>4. p[2] \in DOMAIN content[p[1]] /\ content[p[1]][p[2]] # None
  BY <1>1, <1>3, Nones
<1>5. at[slot[content[p[1]][p[2]]]] = <<p[1], p[2]>>
  BY <1>3, <1>4, InvHandles DEF HandleExact
<1> QED
  BY <1>3, <1>4, <1>5

\* However often a component moves between columns and reserved slots, and whatever
\* is inserted, removed, dropped and borrowed in between, the handle which was given
\* out for it reaches it, at the place the mapping has for it, and the handle of a
\* component which is gone reaches nothing (Obj, insert_component, remove_component
\* and move_entity_into_empty_never_truncate).
THEOREM HandleTheorem == Spec => []HandleExact
BY StorageInvAlways, InvHandles, PTL

\* No insertion, removal, move or truncation takes a borrowed value away from under
\* its guard, gives its place to another one or frees the heap it is in.
THEOREM GuardsTheorem == Spec => []GuardsValid
BY StorageInvAlways, InvGuards, PTL

\* Every indirector in use points to the slot which holds it, and the free ones to
\* the empty cell and to no owner, once each (Heap::new, Heap::drop, swap_slots).
THEOREM PointersTheorem == Spec => []PointersMutual
BY StorageInvAlways, InvPointers, PTL
=============================================================================
