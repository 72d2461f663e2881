---------------------------- MODULE SetMapProofs ----------------------------
(***************************************************************************)
(* SetMap keeps the promise of TagGraph, for any keys and any arena: every *)
(* set has one entry, every cached edge leads where a lookup would, and an *)
(* edge goes when either of its ends goes.                                 *)
(***************************************************************************)
EXTENDS SetMap, TLAPS

Triple == Ptr \X Key \X Ptr

\* The key lists of an entry without k and of one with k, otherwise the same.
Neighbours(lo, k, hi) == lo[k] = 0 /\ hi = [lo EXCEPT ![k] = 1]

\* The root is never removed, and it is the entry of the empty set.
RootOK == root \in arena /\ keys[root] = NoKeys

SetMapInv == EntriesExact /\ EdgesExact /\ RootOK

-----------------------------------------------------------------------------
(* Key lists.                                                              *)

\* Lists which hold the same keys are the same list, as none holds one twice.
LEMMA SameKeys ==
  ASSUME NEW a \in [Key -> {0, 1}], NEW b \in [Key -> {0, 1}],
         \A k \in Key : a[k] > 0 <=> b[k] > 0
  PROVE  a = b
<1>1. \A k \in Key : a[k] = b[k]
  OBVIOUS
<1> QED
  BY <1>1

\* Merging a key which is not there adds it once.
LEMMA MergedOK ==
  ASSUME NEW a \in [Key -> {0, 1}], NEW k \in Key, a[k] = 0
  PROVE  Merged(a, k) \in [Key -> {0, 1}] /\ Neighbours(a, k, Merged(a, k))
BY DEF Merged, Neighbours

\* Filtering a key out takes it away, or changes nothing.
LEMMA FilteredOK ==
  ASSUME NEW a \in [Key -> {0, 1}], NEW k \in Key
  PROVE  /\ Filtered(a, k) \in [Key -> {0, 1}]
         /\ a[k] = 0 => Filtered(a, k) = a
         /\ a[k] # 0 => Neighbours(Filtered(a, k), k, a)
<1>1. Filtered(a, k) \in [Key -> {0, 1}]
  BY DEF Filtered
<1>2. ASSUME a[k] = 0 PROVE Filtered(a, k) = a
  BY <1>2 DEF Filtered
<1>3. ASSUME a[k] # 0 PROVE Neighbours(Filtered(a, k), k, a)
  <2>1. a[k] = 1
    BY <1>3
  <2> QED
    BY <2>1 DEF Filtered, Neighbours
<1> QED
  BY <1>1, <1>2, <1>3

\* Each neighbour determines the other.
LEMMA NeighboursUnique ==
  ASSUME NEW a \in [Key -> {0, 1}], NEW b \in [Key -> {0, 1}], NEW c \in [Key -> {0, 1}],
         NEW k \in Key
  PROVE  /\ Neighbours(a, k, b) /\ Neighbours(a, k, c) => b = c
         /\ Neighbours(a, k, c) /\ Neighbours(b, k, c) => a = b
         /\ Neighbours(a, k, b) => a # b /\ b[k] = 1
<1>1. ASSUME Neighbours(a, k, c), Neighbours(b, k, c) PROVE a = b
  <2>1. ASSUME NEW x \in Key PROVE a[x] = b[x]
    BY <1>1 DEF Neighbours
  <2> QED
    BY <2>1
<1> QED
  BY <1>1 DEF Neighbours

-----------------------------------------------------------------------------
(* What the invariant says of edges.                                       *)

\* An extension edge which is no self loop joins neighbours, in the right order.
LEMMA EdgeNeighbours ==
  ASSUME SetMapInv, NEW p \in Ptr, NEW q \in Ptr, NEW k \in Key,
         <<p, k, q>> \in extensions
  PROVE  /\ p \in arena /\ q \in arena
         /\ p = q => keys[p][k] = 1
         /\ p # q => Neighbours(keys[p], k, keys[q])
<1>1. /\ keys \in [Ptr -> [Key -> {0, 1}]]
      /\ \A r, s \in arena : keys[r] = keys[s] => r = s
      /\ \A e \in extensions : e[1] \in arena /\ e[3] \in arena
      /\ \A r \in arena : \A x \in Key : <<r, x, r>> \in extensions <=> keys[r][x] > 0
  BY DEF SetMapInv, EntriesExact, EdgesExact, TypeOK, EntriesUnique, NoDanglingEdge, HasKeyExact, has_key
<1>2. \A x \in Key : keys[q][x] > 0 <=> keys[p][x] > 0 \/ x = k
  <2>1. <<p, k, q>>[1] = p /\ <<p, k, q>>[2] = k /\ <<p, k, q>>[3] = q
    OBVIOUS
  <2> QED
    BY <2>1 DEF SetMapInv, EdgesExact, EdgesRight
<1>3. p \in arena /\ q \in arena
  BY <1>1
<1>4. p = q => keys[p][k] = 1
  BY <1>1, <1>2
<1>5. ASSUME p # q PROVE Neighbours(keys[p], k, keys[q])
  <2>1. keys[p] \in [Key -> {0, 1}] /\ keys[q] \in [Key -> {0, 1}]
    BY <1>1
  <2>2. keys[p][k] = 0
    <3> SUFFICES ASSUME keys[p][k] # 0 PROVE FALSE
      BY <2>1
    <3>1. \A x \in Key : keys[q][x] > 0 <=> keys[p][x] > 0
      BY <1>2, <2>1
    <3>2. keys[p] = keys[q]
      BY <2>1, <3>1, SameKeys
    <3> QED
      BY <1>1, <1>3, <1>5, <3>2
  <2>3. ASSUME NEW x \in Key PROVE keys[q][x] = [keys[p] EXCEPT ![k] = 1][x]
    BY <1>2, <2>1
  <2>4. keys[q] = [keys[p] EXCEPT ![k] = 1]
    BY <2>1, <2>3
  <2> QED
    BY <2>2, <2>4 DEF Neighbours
<1> QED
  BY <1>3, <1>4, <1>5

\* A de-extension edge is an extension edge the other way, or a self loop of an
\* entry without the key.
LEMMA BackEdge ==
  ASSUME SetMapInv, NEW p \in Ptr, NEW q \in Ptr, NEW k \in Key,
         <<p, k, q>> \in de_extensions
  PROVE  /\ p \in arena /\ q \in arena
         /\ p # q => <<q, k, p>> \in extensions
         /\ p = q => keys[p][k] = 0
<1>1. <<p, k, q>>[1] = p /\ <<p, k, q>>[2] = k /\ <<p, k, q>>[3] = q
  OBVIOUS
<1>2. p \in arena /\ q \in arena
  BY <1>1 DEF SetMapInv, EdgesExact, NoDanglingEdge
<1>3. p # q => <<q, k, p>> \in extensions
  BY DEF SetMapInv, EdgesExact, DoublyLinked
<1>4. p = q => keys[p][k] = 0
  <2>1. keys[q][k] > 0 <=> keys[p][k] > 0 /\ k # k
    BY <1>1 DEF SetMapInv, EdgesExact, EdgesRight
  <2>2. keys[p][k] \in {0, 1}
    BY DEF SetMapInv, EntriesExact, TypeOK
  <2> QED
    BY <2>1, <2>2
<1> QED
  BY <1>2, <1>3, <1>4

-----------------------------------------------------------------------------
(* What the calls do.                                                      *)

\* An edge and its way back are cached between lo and hi, one of which is q,
\* found or created.
Linking(lo, k, hi, q) ==
  /\ q \in {lo, hi} /\ lo # hi /\ {lo, hi} \ {q} \subseteq arena
  /\ keys' \in [Ptr -> [Key -> {0, 1}]]
  /\ Neighbours(keys'[lo], k, keys'[hi])
  /\ \A p \in arena : keys'[p] = keys[p]
  /\ q \notin arena => \A p \in arena : keys[p] # keys'[q]
  /\ arena' = arena \cup {q}
  /\ map' = map \cup {q}
  /\ extensions' = extensions \cup {<<lo, k, hi>>} \cup
                     {<<q, x, q>> : x \in {y \in Key : q \notin arena /\ keys'[q][y] > 0}}
  /\ de_extensions' = de_extensions \cup {<<hi, k, lo>>}

\* A removal which changes nothing is cached at the entry alone.
Looping(p, k) ==
  /\ keys[p][k] = 0
  /\ de_extensions' = de_extensions \cup {<<p, k, p>>}
  /\ UNCHANGED <<arena, keys, extensions, map>>

\* A set which is looked up is found under its one entry, or created in a free one.
LEMMA TargetFound ==
  ASSUME SetMapInv, NEW ks \in [Key -> {0, 1}], NEW q \in Targets(ks), Present(q, ks)
  PROVE  /\ q \in Ptr
         /\ keys' \in [Ptr -> [Key -> {0, 1}]]
         /\ keys'[q] = ks
         /\ \A p \in arena : keys'[p] = keys[p]
         /\ q \in arena => keys' = keys
         /\ q \notin arena => \A p \in arena : keys[p] # ks
         /\ arena' = arena \cup {q}
         /\ map' = map \cup {q}
         /\ q \in map <=> q \in arena
<1>1. keys \in [Ptr -> [Key -> {0, 1}]] /\ map = arena /\ arena \subseteq Ptr
  BY DEF SetMapInv, EntriesExact, EntriesUnique, TypeOK
<1>2. keys' = [keys EXCEPT ![q] = ks] /\ arena' = arena \cup {q} /\ map' = map \cup {q}
  BY DEF Present
<1>3. \/ q \in map /\ keys[q] = ks
      \/ q \in Ptr \ arena /\ \A p \in map : keys[p] # ks
  BY DEF Targets
<1>4. q \in Ptr
  BY <1>1, <1>3
<1>5. keys' \in [Ptr -> [Key -> {0, 1}]] /\ keys'[q] = ks
  BY <1>1, <1>2, <1>4
<1>6. ASSUME NEW p \in arena PROVE keys'[p] = keys[p]
  BY <1>1, <1>2, <1>3
<1>7. q \in arena => keys' = keys
  BY <1>1, <1>2, <1>3
<1> QED
  BY <1>1, <1>2, <1>3, <1>4, <1>5, <1>6, <1>7

\* Inserting an edge by a new key replaces none.
LEMMA InsertNew ==
  ASSUME NEW edges \in SUBSET Triple, NEW p \in Ptr, NEW k \in Key, NEW q \in Ptr,
         \A r \in Ptr : <<p, k, r>> \notin edges
  PROVE  Insert(edges, p, k, q) = edges \cup {<<p, k, q>>}
<1>1. ASSUME NEW e \in edges PROVE <<e[1], e[2]>> # <<p, k>>
  <2>1. PICK a \in Ptr, b \in Key, c \in Ptr : e = <<a, b, c>>
    BY DEF Triple
  <2> QED
    BY <2>1
<1> QED
  BY <1>1 DEF Insert

\* The lookup of an extension caches one edge each way, or finds one cached.
LEMMA ExtensionLinks ==
  ASSUME SetMapInv, NEW p \in Ptr, NEW k \in Key, LookupExtension(p, k)
  PROVE  UNCHANGED vars \/ \E q \in Ptr : Linking(p, k, q, q)
<1>1. p \in arena
  BY DEF LookupExtension
<1>2. CASE Cached(extensions, p, k) # {}
  BY <1>2 DEF LookupExtension
<1>3. CASE Cached(extensions, p, k) = {}
  <2> DEFINE ks == Merged(keys[p], k)
  <2>1. /\ keys \in [Ptr -> [Key -> {0, 1}]] /\ extensions \in SUBSET Triple
        /\ de_extensions \in SUBSET Triple
    BY DEF SetMapInv, EntriesExact, TypeOK, Triple
  <2>2. \A r \in Ptr : <<p, k, r>> \notin extensions
    BY <1>3 DEF Cached
  <2>3. keys[p][k] = 0
    <3>1. <<p, k, p>> \notin extensions
      BY <2>2
    <3> QED
      BY <3>1, <1>1, <2>1 DEF SetMapInv, EntriesExact, HasKeyExact, has_key
  <2>4. ks \in [Key -> {0, 1}] /\ Neighbours(keys[p], k, ks)
    BY <2>1, <2>3, MergedOK
  <2>5. PICK q \in Targets(ks) :
          LET linked == Link(extensions, de_extensions, p, k, q) IN
          /\ Present(q, ks)
          /\ extensions' = linked[1] \cup SelfLoops(q, ks)
          /\ de_extensions' = linked[2]
    BY <1>3 DEF LookupExtension
  <2> HIDE DEF ks
  <2>6. /\ q \in Ptr
        /\ keys' \in [Ptr -> [Key -> {0, 1}]]
        /\ keys'[q] = ks
        /\ \A r \in arena : keys'[r] = keys[r]
        /\ q \in arena => keys' = keys
        /\ q \notin arena => \A r \in arena : keys[r] # ks
        /\ arena' = arena \cup {q}
        /\ map' = map \cup {q}
        /\ q \in map <=> q \in arena
    BY <2>4, <2>5, TargetFound
  <2>7. Neighbours(keys'[p], k, keys'[q])
    BY <1>1, <2>4, <2>6
  <2>8. p # q
    BY <2>1, <2>6, <2>7, NeighboursUnique
  <2>9. Insert(extensions, p, k, q) = extensions \cup {<<p, k, q>>}
    BY <2>1, <2>2, <2>6, InsertNew
  <2>10. ASSUME NEW r \in Ptr, <<q, k, r>> \in de_extensions PROVE FALSE
    <3>1. q \in arena /\ r \in arena /\ (q # r => <<r, k, q>> \in extensions) /\ (q = r => keys[q][k] = 0)
      BY <2>6, <2>10, BackEdge
    <3>2. keys[q] = ks /\ ks[k] = 1
      BY <2>1, <2>4, <2>6, <3>1, NeighboursUnique
    <3>3. q # r
      BY <3>1, <3>2
    <3>4. Neighbours(keys[r], k, ks)
      BY <2>6, <3>1, <3>2, <3>3, EdgeNeighbours
    <3>5. keys[r] = keys[p]
      BY <2>1, <2>4, <3>4, NeighboursUnique
    <3>6. r = p
      BY <1>1, <3>1, <3>5 DEF SetMapInv, EntriesExact, EntriesUnique
    <3> QED
      BY <2>2, <2>6, <3>1, <3>3, <3>6
  <2>11. Insert(de_extensions, q, k, p) = de_extensions \cup {<<q, k, p>>}
    BY <2>1, <2>6, <2>10, InsertNew
  <2>12. Link(extensions, de_extensions, p, k, q) =
           <<extensions \cup {<<p, k, q>>}, de_extensions \cup {<<q, k, p>>}>>
    BY <2>8, <2>9, <2>11 DEF Link
  <2>13. SelfLoops(q, ks) = {<<q, x, q>> : x \in {y \in Key : q \notin arena /\ keys'[q][y] > 0}}
    BY <2>6 DEF SelfLoops
  <2>14. /\ extensions' = extensions \cup {<<p, k, q>>} \cup
              {<<q, x, q>> : x \in {y \in Key : q \notin arena /\ keys'[q][y] > 0}}
         /\ de_extensions' = de_extensions \cup {<<q, k, p>>}
    BY <2>5, <2>12, <2>13
  <2>15. Linking(p, k, q, q)
    BY <1>1, <2>6, <2>7, <2>8, <2>14 DEF Linking
  <2> QED
    BY <2>6, <2>15
<1> QED
  BY <1>2, <1>3

\* So does the lookup of a de-extension, unless the key is not there.
LEMMA DeExtensionLinks ==
  ASSUME SetMapInv, NEW p \in Ptr, NEW k \in Key, LookupDeExtension(p, k)
  PROVE  UNCHANGED vars \/ Looping(p, k) \/ \E q \in Ptr : Linking(q, k, p, q)
<1>1. p \in arena
  BY DEF LookupDeExtension
<1>2. CASE Cached(de_extensions, p, k) # {}
  BY <1>2 DEF LookupDeExtension
<1>3. CASE Cached(de_extensions, p, k) = {}
  <2> DEFINE ks == Filtered(keys[p], k)
  <2>1. /\ keys \in [Ptr -> [Key -> {0, 1}]] /\ extensions \in SUBSET Triple
        /\ de_extensions \in SUBSET Triple /\ map = arena
    BY DEF SetMapInv, EntriesExact, EntriesUnique, TypeOK, Triple
  <2>2. \A r \in Ptr : <<p, k, r>> \notin de_extensions
    BY <1>3 DEF Cached
  <2>3. /\ ks \in [Key -> {0, 1}]
        /\ keys[p][k] = 0 => ks = keys[p]
        /\ keys[p][k] # 0 => Neighbours(ks, k, keys[p])
    BY <2>1, FilteredOK
  <2>4. PICK q \in Targets(ks) :
          LET linked == Link(de_extensions, extensions, p, k, q) IN
          /\ Present(q, ks)
          /\ de_extensions' = linked[1]
          /\ extensions' = linked[2] \cup SelfLoops(q, ks)
    BY <1>3 DEF LookupDeExtension
  <2> HIDE DEF ks
  <2>5. /\ q \in Ptr
        /\ keys' \in [Ptr -> [Key -> {0, 1}]]
        /\ keys'[q] = ks
        /\ \A r \in arena : keys'[r] = keys[r]
        /\ q \in arena => keys' = keys
        /\ q \notin arena => \A r \in arena : keys[r] # ks
        /\ arena' = arena \cup {q}
        /\ map' = map \cup {q}
        /\ q \in map <=> q \in arena
    BY <2>3, <2>4, TargetFound
  <2>6. Insert(de_extensions, p, k, q) = de_extensions \cup {<<p, k, q>>}
    BY <2>1, <2>2, <2>5, InsertNew
  <2>7. CASE keys[p][k] = 0
    <3>1. q \in arena /\ keys[q] = keys[p]
      BY <1>1, <2>3, <2>5, <2>7
    <3>2. q = p
      BY <1>1, <3>1 DEF SetMapInv, EntriesExact, EntriesUnique
    <3>3. Link(de_extensions, extensions, p, k, q) = <<de_extensions \cup {<<p, k, p>>}, extensions>>
      BY <2>6, <3>2 DEF Link
    <3>4. SelfLoops(q, ks) = {}
      BY <2>5, <3>1 DEF SelfLoops
    <3>5. de_extensions' = de_extensions \cup {<<p, k, p>>} /\ extensions' = extensions
      BY <2>4, <3>3, <3>4
    <3>6. arena' = arena /\ map' = map /\ keys' = keys
      BY <2>1, <2>5, <3>1
    <3> QED
      BY <2>7, <3>5, <3>6 DEF Looping
  <2>8. CASE keys[p][k] # 0
    <3>1. Neighbours(keys'[q], k, keys'[p])
      BY <1>1, <2>3, <2>5, <2>8
    <3>2. p # q
      BY <2>1, <2>5, <3>1, NeighboursUnique
    <3>3. ASSUME NEW r \in Ptr, <<q, k, r>> \in extensions PROVE FALSE
      <4>1. q \in arena /\ r \in arena /\ (q = r => keys[q][k] = 1)
            /\ (q # r => Neighbours(keys[q], k, keys[r]))
        BY <2>5, <3>3, EdgeNeighbours
      <4>2. keys[q] = ks
        BY <2>5, <4>1
      <4>3. q # r
        BY <2>3, <2>8, <4>1, <4>2 DEF Neighbours
      <4>4. keys[r] = keys[p]
        BY <2>1, <2>3, <2>8, <4>1, <4>2, <4>3, NeighboursUnique
      <4>5. r = p
        BY <1>1, <4>1, <4>4 DEF SetMapInv, EntriesExact, EntriesUnique
      <4>6. <<p, k, q>> \in de_extensions
        BY <2>5, <3>2, <3>3, <4>5 DEF SetMapInv, EdgesExact, DoublyLinked
      <4> QED
        BY <2>2, <2>5, <4>6
    <3>4. Insert(extensions, q, k, p) = extensions \cup {<<q, k, p>>}
      BY <2>1, <2>5, <3>3, InsertNew
    <3>5. Link(de_extensions, extensions, p, k, q) =
            <<de_extensions \cup {<<p, k, q>>}, extensions \cup {<<q, k, p>>}>>
      BY <2>6, <3>2, <3>4 DEF Link
    <3>6. SelfLoops(q, ks) = {<<q, x, q>> : x \in {y \in Key : q \notin arena /\ keys'[q][y] > 0}}
      BY <2>5 DEF SelfLoops
    <3>7. /\ extensions' = extensions \cup {<<q, k, p>>} \cup
               {<<q, x, q>> : x \in {y \in Key : q \notin arena /\ keys'[q][y] > 0}}
          /\ de_extensions' = de_extensions \cup {<<p, k, q>>}
      BY <2>4, <3>5, <3>6
    <3>8. Linking(q, k, p, q)
      BY <1>1, <2>5, <3>1, <3>2, <3>7 DEF Linking
    <3> QED
      BY <2>5, <3>8
  <2> QED
    BY <2>7, <2>8
<1> QED
  BY <1>2, <1>3

-----------------------------------------------------------------------------
(* The invariant.                                                          *)

\* Edges which join neighbours, and self loops where the key changes nothing,
\* are right.
LEMMA JoinedRight ==
  ASSUME keys' \in [Ptr -> [Key -> {0, 1}]],
         extensions' \in SUBSET Triple, de_extensions' \in SUBSET Triple,
         \A r \in Ptr, x \in Key, s \in Ptr : <<r, x, s>> \in extensions' =>
           /\ r \in arena' /\ s \in arena'
           /\ r = s => keys'[r][x] = 1
           /\ r # s => Neighbours(keys'[r], x, keys'[s]),
         \A r \in Ptr, x \in Key, s \in Ptr : <<r, x, s>> \in de_extensions' =>
           /\ r \in arena' /\ s \in arena'
           /\ r = s => keys'[r][x] = 0
           /\ r # s => Neighbours(keys'[s], x, keys'[r])
  PROVE  NoDanglingEdge' /\ EdgesRight'
<1>1. ASSUME NEW e \in extensions'
      PROVE  /\ e[1] \in arena' /\ e[3] \in arena'
             /\ \A y \in Key : keys'[e[3]][y] > 0 <=> keys'[e[1]][y] > 0 \/ y = e[2]
  <2>1. PICK r \in Ptr, x \in Key, s \in Ptr : e = <<r, x, s>>
    BY DEF Triple
  <2>2. \A y \in Key : keys'[s][y] > 0 <=> keys'[r][y] > 0 \/ y = x
    <3>1. CASE r = s
      BY <2>1, <3>1
    <3>2. CASE r # s
      <4>1. keys'[s] = [keys'[r] EXCEPT ![x] = 1]
        BY <2>1, <3>2 DEF Neighbours
      <4>2. keys'[r] \in [Key -> {0, 1}]
        OBVIOUS
      <4> QED
        BY <4>1, <4>2
    <3> QED
      BY <3>1, <3>2
  <2> QED
    BY <2>1, <2>2
<1>2. ASSUME NEW e \in de_extensions'
      PROVE  /\ e[1] \in arena' /\ e[3] \in arena'
             /\ \A y \in Key : keys'[e[3]][y] > 0 <=> keys'[e[1]][y] > 0 /\ y # e[2]
  <2>1. PICK r \in Ptr, x \in Key, s \in Ptr : e = <<r, x, s>>
    BY DEF Triple
  <2>2. \A y \in Key : keys'[s][y] > 0 <=> keys'[r][y] > 0 /\ y # x
    <3>1. CASE r = s
      BY <2>1, <3>1
    <3>2. CASE r # s
      <4>1. keys'[s][x] = 0 /\ keys'[r] = [keys'[s] EXCEPT ![x] = 1]
        BY <2>1, <3>2 DEF Neighbours
      <4>2. keys'[s] \in [Key -> {0, 1}]
        OBVIOUS
      <4> QED
        BY <4>1, <4>2
    <3> QED
      BY <3>1, <3>2
  <2> QED
    BY <2>1, <2>2
<1> QED
  BY <1>1, <1>2 DEF NoDanglingEdge, EdgesRight

\* Caching an edge between neighbours keeps the invariant.
LEMMA LinkingSound ==
  ASSUME SetMapInv, NEW lo \in Ptr, NEW hi \in Ptr, NEW k \in Key, NEW q \in Ptr,
         Linking(lo, k, hi, q)
  PROVE  SetMapInv'
<1>1. /\ q = lo \/ q = hi
      /\ lo # hi /\ lo \in arena' /\ hi \in arena'
      /\ keys' \in [Ptr -> [Key -> {0, 1}]]
      /\ Neighbours(keys'[lo], k, keys'[hi])
      /\ \A p \in arena : keys'[p] = keys[p]
      /\ q \notin arena => \A p \in arena : keys[p] # keys'[q]
      /\ arena' = arena \cup {q} /\ map' = map \cup {q}
  BY DEF Linking
<1>2. /\ arena \subseteq Ptr /\ map = arena
      /\ extensions \in SUBSET Triple /\ de_extensions \in SUBSET Triple
      /\ \A r, s \in arena : keys[r] = keys[s] => r = s
  BY DEF SetMapInv, EntriesExact, EntriesUnique, TypeOK, Triple
<1>3. \A r, x, s : <<r, x, s>> \in extensions' <=>
        \/ <<r, x, s>> \in extensions
        \/ r = lo /\ x = k /\ s = hi
        \/ r = q /\ s = q /\ q \notin arena /\ x \in Key /\ keys'[q][x] > 0
  BY DEF Linking
<1>4. \A r, x, s : <<r, x, s>> \in de_extensions' <=>
        <<r, x, s>> \in de_extensions \/ (r = hi /\ x = k /\ s = lo)
  BY DEF Linking
<1>5. extensions' \in SUBSET Triple /\ de_extensions' \in SUBSET Triple
  BY <1>2 DEF Linking, Triple
<1>6. TypeOK'
  BY <1>1, <1>2, <1>5 DEF TypeOK, Triple
<1>7. EntriesUnique'
  BY <1>1, <1>2 DEF EntriesUnique
\* What joins entries which were there joins them still, and a new one has none.
<1>8. ASSUME NEW r \in Ptr, NEW x \in Key, NEW s \in Ptr, <<r, x, s>> \in extensions
      PROVE  /\ r \in arena /\ s \in arena
             /\ r = s => keys'[r][x] = 1
             /\ r # s => Neighbours(keys'[r], x, keys'[s])
  BY <1>1, <1>8, EdgeNeighbours
<1>9. ASSUME NEW r \in Ptr, NEW x \in Key, NEW s \in Ptr, <<r, x, s>> \in de_extensions
      PROVE  /\ r \in arena /\ s \in arena
             /\ r = s => keys'[r][x] = 0
             /\ r # s => Neighbours(keys'[s], x, keys'[r])
  <2>1. r \in arena /\ s \in arena /\ (r # s => <<s, x, r>> \in extensions) /\ (r = s => keys[r][x] = 0)
    BY <1>9, BackEdge
  <2>2. r # s => Neighbours(keys'[s], x, keys'[r])
    BY <1>8, <2>1
  <2> QED
    BY <1>1, <2>1, <2>2
<1>10. HasKeyExact'
  <2> SUFFICES ASSUME NEW r \in arena', NEW x \in Key
               PROVE  <<r, x, r>> \in extensions' <=> keys'[r][x] > 0
    BY DEF HasKeyExact, has_key
  <2>1. <<r, x, r>> \in extensions' <=>
          <<r, x, r>> \in extensions \/ (r = q /\ q \notin arena /\ keys'[q][x] > 0)
    BY <1>1, <1>3
  <2>2. CASE r \in arena
    <3>1. <<r, x, r>> \in extensions <=> keys[r][x] > 0
      BY <2>2 DEF SetMapInv, EntriesExact, HasKeyExact, has_key
    <3> QED
      BY <1>1, <2>1, <2>2, <3>1
  <2>3. CASE r \notin arena
    <3>1. r = q /\ r \in Ptr
      BY <1>1, <2>3
    <3>2. <<r, x, r>> \notin extensions
      BY <1>8, <2>3, <3>1
    <3> QED
      BY <2>1, <2>3, <3>1, <3>2
  <2> QED
    BY <2>2, <2>3
<1>11. DoublyLinked'
  BY <1>3, <1>4 DEF DoublyLinked, SetMapInv, EdgesExact
\* Every edge, old or new, joins what its key says.
<1>12. ASSUME NEW r \in Ptr, NEW x \in Key, NEW s \in Ptr, <<r, x, s>> \in extensions'
       PROVE  /\ r \in arena' /\ s \in arena'
              /\ r = s => keys'[r][x] = 1
              /\ r # s => Neighbours(keys'[r], x, keys'[s])
  <2>1. r = s /\ keys'[r][x] > 0 => keys'[r][x] = 1
    BY <1>1
  <2> QED
    BY <1>1, <1>3, <1>8, <1>12, <2>1
<1>13. ASSUME NEW r \in Ptr, NEW x \in Key, NEW s \in Ptr, <<r, x, s>> \in de_extensions'
       PROVE  /\ r \in arena' /\ s \in arena'
              /\ r = s => keys'[r][x] = 0
              /\ r # s => Neighbours(keys'[s], x, keys'[r])
  BY <1>1, <1>4, <1>9, <1>13
<1>14. NoDanglingEdge' /\ EdgesRight'
  BY <1>1, <1>5, <1>12, <1>13, JoinedRight
<1>15. RootOK'
  BY <1>1 DEF SetMapInv, RootOK
<1> QED
  BY <1>6, <1>7, <1>10, <1>11, <1>14, <1>15 DEF SetMapInv, EntriesExact, EdgesExact

\* A removal which changes nothing keeps it too.
LEMMA LoopingSound ==
  ASSUME SetMapInv, NEW p \in Ptr, NEW k \in Key, p \in arena, Looping(p, k)
  PROVE  SetMapInv'
<1>1. /\ keys[p][k] = 0 /\ de_extensions' = de_extensions \cup {<<p, k, p>>}
      /\ arena' = arena /\ keys' = keys /\ extensions' = extensions /\ map' = map
  BY DEF Looping
<1>2. EntriesExact'
  BY <1>1 DEF SetMapInv, EntriesExact, EntriesUnique, HasKeyExact, has_key, TypeOK
<1>3. DoublyLinked' /\ RootOK'
  BY <1>1 DEF SetMapInv, EdgesExact, DoublyLinked, RootOK
<1>4. NoDanglingEdge'
  BY <1>1 DEF SetMapInv, EdgesExact, NoDanglingEdge
<1>5. \A y \in Key : keys[p][y] > 0 <=> keys[p][y] > 0 /\ y # k
  <2>1. keys[p] \in [Key -> {0, 1}]
    BY DEF SetMapInv, EntriesExact, TypeOK
  <2> QED
    BY <1>1, <2>1
<1>6. EdgesRight'
  BY <1>1, <1>5 DEF SetMapInv, EdgesExact, EdgesRight
<1> QED
  BY <1>2, <1>3, <1>4, <1>6 DEF SetMapInv, EdgesExact

\* remove() finds every edge which leads to the entry by following the edges
\* which leave it.
LEMMA RemoveEdges ==
  ASSUME SetMapInv, NEW p \in Ptr, Remove(p)
  PROVE  /\ extensions' = {e \in extensions : e[1] # p /\ e[3] # p}
         /\ de_extensions' = {e \in de_extensions : e[1] # p /\ e[3] # p}
<1>1. /\ extensions \in SUBSET Triple /\ de_extensions \in SUBSET Triple
      /\ keys \in [Ptr -> [Key -> {0, 1}]] /\ p \in arena
      /\ \A r, s \in arena : keys[r] = keys[s] => r = s
  BY DEF SetMapInv, EntriesExact, TypeOK, EntriesUnique, Triple, Remove
<1>2. ASSUME NEW e \in extensions, e[1] # p
      PROVE  <<p, e[2], e[1]>> \in de_extensions <=> e[3] = p
  <2>1. PICK r \in Ptr, x \in Key, s \in Ptr : e = <<r, x, s>>
    BY <1>1 DEF Triple
  <2>2. <<p, x, r>> \in de_extensions <=> <<r, x, p>> \in extensions
    BY <1>2, <2>1 DEF SetMapInv, EdgesExact, DoublyLinked
  <2>3. ASSUME <<r, x, p>> \in extensions PROVE s = p
    <3>1. Neighbours(keys[r], x, keys[p]) /\ r \in arena
      BY <1>2, <2>1, <2>3, EdgeNeighbours
    <3>2. /\ r = s => keys[r][x] = 1
          /\ r # s => Neighbours(keys[r], x, keys[s])
          /\ s \in arena
      BY <2>1, EdgeNeighbours
    <3>3. r # s
      BY <3>1, <3>2 DEF Neighbours
    <3>4. keys[s] = keys[p]
      BY <1>1, <3>1, <3>2, <3>3, NeighboursUnique
    <3> QED
      BY <1>1, <3>2, <3>4
  <2> QED
    BY <2>1, <2>2, <2>3
<1>3. ASSUME NEW e \in de_extensions, e[1] # p
      PROVE  <<p, e[2], e[1]>> \in extensions <=> e[3] = p
  <2>1. PICK r \in Ptr, x \in Key, s \in Ptr : e = <<r, x, s>>
    BY <1>1 DEF Triple
  <2>2. <<p, x, r>> \in extensions <=> <<r, x, p>> \in de_extensions
    BY <1>3, <2>1 DEF SetMapInv, EdgesExact, DoublyLinked
  <2>3. ASSUME <<p, x, r>> \in extensions PROVE s = p
    <3>1. Neighbours(keys[p], x, keys[r]) /\ r \in arena
      BY <1>3, <2>1, <2>3, EdgeNeighbours
    <3>2. /\ r = s => keys[r][x] = 0
          /\ r # s => <<s, x, r>> \in extensions
          /\ s \in arena
      BY <2>1, BackEdge
    <3>3. r # s
      BY <1>1, <3>1, <3>2, NeighboursUnique
    <3>4. Neighbours(keys[s], x, keys[r])
      BY <3>2, <3>3, EdgeNeighbours
    <3>5. keys[s] = keys[p]
      BY <1>1, <3>1, <3>4, NeighboursUnique
    <3> QED
      BY <1>1, <3>2, <3>5
  <2> QED
    BY <2>1, <2>2, <2>3
<1>4. extensions' = {e \in extensions : e[1] # p /\ <<p, e[2], e[1]>> \notin de_extensions}
  BY DEF Remove, Without
<1>5. de_extensions' = {e \in de_extensions : e[1] # p /\ <<p, e[2], e[1]>> \notin extensions}
  BY DEF Remove, Without
<1> QED
  BY <1>2, <1>3, <1>4, <1>5

\* Removing an entry with its edges keeps the invariant.
LEMMA RemoveSound ==
  ASSUME SetMapInv, NEW p \in Ptr, Remove(p)
  PROVE  SetMapInv'
<1>1. /\ extensions' = {e \in extensions : e[1] # p /\ e[3] # p}
      /\ de_extensions' = {e \in de_extensions : e[1] # p /\ e[3] # p}
  BY RemoveEdges
<1>2. /\ p \in arena \ {root} /\ arena' = arena \ {p} /\ map' = map \ {p}
      /\ keys' = [keys EXCEPT ![p] = NoKeys]
  BY DEF Remove
<1>3. /\ arena \subseteq Ptr /\ map = arena
      /\ keys \in [Ptr -> [Key -> {0, 1}]]
      /\ extensions \in SUBSET Triple /\ de_extensions \in SUBSET Triple
      /\ \A r, s \in arena : keys[r] = keys[s] => r = s
  BY DEF SetMapInv, EntriesExact, EntriesUnique, TypeOK, Triple
<1>4. NoKeys \in [Key -> {0, 1}]
  BY DEF NoKeys
<1>5. \A r \in arena' : keys'[r] = keys[r]
  BY <1>2, <1>3
<1>6. keys' \in [Ptr -> [Key -> {0, 1}]]
  BY <1>2, <1>3, <1>4
<1>7. TypeOK'
  BY <1>1, <1>2, <1>3, <1>6 DEF TypeOK, Triple
<1>8. EntriesUnique'
  BY <1>2, <1>3, <1>5 DEF EntriesUnique
<1>9. HasKeyExact'
  <2> SUFFICES ASSUME NEW r \in arena', NEW x \in Key
               PROVE  <<r, x, r>> \in extensions' <=> keys'[r][x] > 0
    BY DEF HasKeyExact, has_key
  <2>1. r # p /\ <<r, x, r>>[1] = r /\ <<r, x, r>>[3] = r
    BY <1>2
  <2>2. <<r, x, r>> \in extensions <=> keys[r][x] > 0
    BY <1>2 DEF SetMapInv, EntriesExact, HasKeyExact, has_key
  <2> QED
    BY <1>1, <1>5, <2>1, <2>2
<1>10. DoublyLinked'
  <2> SUFFICES ASSUME NEW r \in Ptr, NEW s \in Ptr, NEW x \in Key, r # s
               PROVE  <<r, x, s>> \in extensions' <=> <<s, x, r>> \in de_extensions'
    BY DEF DoublyLinked
  <2>1. <<r, x, s>> \in extensions <=> <<s, x, r>> \in de_extensions
    BY DEF SetMapInv, EdgesExact, DoublyLinked
  <2>2. <<r, x, s>>[1] = r /\ <<r, x, s>>[3] = s /\ <<s, x, r>>[1] = s /\ <<s, x, r>>[3] = r
    OBVIOUS
  <2> QED
    BY <1>1, <2>1, <2>2
<1>11. NoDanglingEdge'
  BY <1>1, <1>2 DEF SetMapInv, EdgesExact, NoDanglingEdge
<1>12. EdgesRight'
  <2>1. \A e \in extensions' \cup de_extensions' : keys'[e[1]] = keys[e[1]] /\ keys'[e[3]] = keys[e[3]]
    BY <1>5, <1>11 DEF NoDanglingEdge
  <2> QED
    BY <1>1, <2>1 DEF SetMapInv, EdgesExact, EdgesRight
<1>13. RootOK'
  BY <1>2, <1>5 DEF SetMapInv, RootOK
<1> QED
  BY <1>7, <1>8, <1>9, <1>10, <1>11, <1>12, <1>13 DEF SetMapInv, EntriesExact, EdgesExact

\* Every step is one of these, or changes nothing.
LEMMA StepKinds ==
  ASSUME SetMapInv, [Next]_vars
  PROVE  \/ UNCHANGED vars
         \/ \E p \in arena, k \in Key : Looping(p, k)
         \/ \E lo, hi, q \in Ptr, k \in Key : Linking(lo, k, hi, q)
         \/ \E p \in Ptr : Remove(p)
<1>1. ASSUME NEW p \in Ptr, NEW k \in Key, LookupExtension(p, k)
      PROVE  UNCHANGED vars \/ \E lo, hi, q \in Ptr : Linking(lo, k, hi, q)
  BY <1>1, ExtensionLinks
<1>2. ASSUME NEW p \in Ptr, NEW k \in Key, LookupDeExtension(p, k)
      PROVE  /\ UNCHANGED vars \/ Looping(p, k) \/ \E lo, hi, q \in Ptr : Linking(lo, k, hi, q)
             /\ p \in arena
  BY <1>2, DeExtensionLinks DEF LookupDeExtension
<1> QED
  BY <1>1, <1>2 DEF Next

\* At first there is the root alone.
LEMMA SetMapInvInit == Init => SetMapInv
<1> SUFFICES ASSUME Init PROVE SetMapInv
  OBVIOUS
<1>1. /\ arena = {root} /\ keys = [p \in Ptr |-> NoKeys] /\ map = {root}
      /\ extensions = {} /\ de_extensions = {} /\ root \in Ptr
  BY SetMapAssumption DEF Init
<1>2. NoKeys \in [Key -> {0, 1}] /\ \A k \in Key : NoKeys[k] = 0
  BY DEF NoKeys
<1>3. EntriesExact
  BY <1>1, <1>2 DEF EntriesExact, TypeOK, EntriesUnique, HasKeyExact, has_key
<1>4. EdgesExact
  BY <1>1 DEF EdgesExact, DoublyLinked, NoDanglingEdge, EdgesRight
<1>5. RootOK
  BY <1>1 DEF RootOK
<1> QED
  BY <1>3, <1>4, <1>5 DEF SetMapInv

\* Every operation keeps it.
LEMMA SetMapInvStep == SetMapInv /\ [Next]_vars => SetMapInv'
<1> SUFFICES ASSUME SetMapInv, [Next]_vars PROVE SetMapInv'
  OBVIOUS
<1>1. CASE UNCHANGED vars
  BY <1>1 DEF vars, SetMapInv, EntriesExact, EdgesExact, RootOK, TypeOK, EntriesUnique,
    HasKeyExact, has_key, DoublyLinked, NoDanglingEdge, EdgesRight
<1>2. arena \subseteq Ptr
  BY DEF SetMapInv, EntriesExact, TypeOK
<1> QED
  BY <1>1, <1>2, StepKinds, LoopingSound, LinkingSound, RemoveSound

\* It holds throughout.
LEMMA SetMapInvAlways == Spec => []SetMapInv
  BY SetMapInvInit, SetMapInvStep, PTL DEF Spec

\* No edge of the map is wrong, one-way or left over, so a cached lookup returns
\* what the hash map would (SetMap::lookup and remove).
THEOREM EdgesTheorem == Spec => []EdgesExact
<1>1. SetMapInv => EdgesExact
  BY DEF SetMapInv
<1> QED
  BY <1>1, SetMapInvAlways, PTL

\* Arena, hash map, key lists and self loops agree on the sets there are; no list
\* ever holds a key twice, although lookup_extension merges without looking.
THEOREM EntriesTheorem == Spec => []EntriesExact
<1>1. SetMapInv => EntriesExact
  BY DEF SetMapInv
<1> QED
  BY <1>1, SetMapInvAlways, PTL

-----------------------------------------------------------------------------
(* The refinement.                                                         *)

\* Entries with the same keys are the same entry.
LEMMA KeySetUnique ==
  ASSUME SetMapInv, NEW p \in arena, NEW q \in arena, KeySet(p) = KeySet(q)
  PROVE  p = q
<1>1. keys[p] \in [Key -> {0, 1}] /\ keys[q] \in [Key -> {0, 1}]
  BY DEF SetMapInv, EntriesExact, TypeOK
<1>2. \A k \in Key : keys[p][k] > 0 <=> keys[q][k] > 0
  BY DEF KeySet
<1>3. keys[p] = keys[q]
  BY <1>1, <1>2, SameKeys
<1> QED
  BY <1>3 DEF SetMapInv, EntriesExact, EntriesUnique

Sets == {KeySet(p) : p \in arena}
Edges == {<<KeySet(e[1]), e[2]>> : e \in {d \in extensions : d[1] # d[3]}}

\* The abstract edges, read off the extension edges.
EdgesAsRead ==
  \A S, k : <<S, k>> \in Edges <=>
    \E r, s \in Ptr : <<r, k, s>> \in extensions /\ r # s /\ S = KeySet(r)

\* The edges as the refinement mapping reads them.
LEMMA EdgesRead == extensions \in SUBSET Triple => EdgesAsRead
<1> SUFFICES ASSUME extensions \in SUBSET Triple, NEW S, NEW k
             PROVE  <<S, k>> \in Edges <=>
                      \E r, s \in Ptr : <<r, k, s>> \in extensions /\ r # s /\ S = KeySet(r)
  BY DEF EdgesAsRead
<1>1. ASSUME <<S, k>> \in Edges
      PROVE  \E r, s \in Ptr : <<r, k, s>> \in extensions /\ r # s /\ S = KeySet(r)
  <2>1. PICK e \in extensions : e[1] # e[3] /\ <<S, k>> = <<KeySet(e[1]), e[2]>>
    BY <1>1 DEF Edges
  <2>2. PICK r \in Ptr, x \in Key, s \in Ptr : e = <<r, x, s>>
    BY DEF Triple
  <2> QED
    BY <2>1, <2>2
<1>2. ASSUME NEW r \in Ptr, NEW s \in Ptr, <<r, k, s>> \in extensions, r # s, S = KeySet(r)
      PROVE  <<S, k>> \in Edges
  <2>1. <<r, k, s>>[1] = r /\ <<r, k, s>>[2] = k /\ <<r, k, s>>[3] = s
    OBVIOUS
  <2> QED
    BY <1>2, <2>1 DEF Edges
<1> QED
  BY <1>1, <1>2

\* And after a step.
LEMMA EdgesReadNext == (extensions \in SUBSET Triple)' => EdgesAsRead'
  BY EdgesRead, PTL

\* The key sets of neighbours differ by the key.
LEMMA NeighbourSets ==
  ASSUME NEW lo \in Ptr, NEW hi \in Ptr, NEW k \in Key,
         keys \in [Ptr -> [Key -> {0, 1}]], Neighbours(keys[lo], k, keys[hi])
  PROVE  k \notin KeySet(lo) /\ KeySet(hi) = KeySet(lo) \cup {k}
<1>1. keys[lo][k] = 0 /\ \A x \in Key : keys[hi][x] = IF x = k THEN 1 ELSE keys[lo][x]
  BY DEF Neighbours
<1> QED
  BY <1>1 DEF KeySet

\* Caching an edge extends or shrinks a set, whichever end was there.
LEMMA LinkingRefines ==
  ASSUME SetMapInv, SetMapInv',
         NEW lo \in Ptr, NEW hi \in Ptr, NEW k \in Key, NEW q \in Ptr, Linking(lo, k, hi, q)
  PROVE  Graph!Next
<1>1. /\ q = lo \/ q = hi
      /\ lo # hi /\ {lo, hi} \ {q} \subseteq arena
      /\ Neighbours(keys'[lo], k, keys'[hi])
      /\ \A p \in arena : keys'[p] = keys[p]
      /\ arena' = arena \cup {q}
  BY DEF Linking
<1>2. /\ extensions \in SUBSET Triple /\ extensions' \in SUBSET Triple
      /\ keys' \in [Ptr -> [Key -> {0, 1}]] /\ arena \subseteq Ptr
  BY DEF SetMapInv, EntriesExact, TypeOK, Triple
<1>3. \A p \in arena : KeySet(p)' = KeySet(p)
  BY <1>1 DEF KeySet
<1>0. EdgesAsRead /\ EdgesAsRead'
  BY <1>2, EdgesRead, EdgesReadNext
<1>4. k \notin KeySet(lo)' /\ KeySet(hi)' = KeySet(lo)' \cup {k}
  BY <1>1, <1>2 DEF KeySet, Neighbours
<1>5. Sets' = Sets \cup {KeySet(q)'}
  BY <1>1, <1>3 DEF Sets
<1>6. \A r, x, s : r # s => (<<r, x, s>> \in extensions' <=>
         <<r, x, s>> \in extensions \/ (r = lo /\ x = k /\ s = hi))
  BY DEF Linking
<1>7. \A r, s \in Ptr : \A x : <<r, x, s>> \in extensions => KeySet(r)' = KeySet(r)
  <2> SUFFICES ASSUME NEW r \in Ptr, NEW s \in Ptr, NEW x, <<r, x, s>> \in extensions
               PROVE  KeySet(r)' = KeySet(r)
    OBVIOUS
  <2>1. x \in Key
    BY <1>2 DEF Triple
  <2>2. r \in arena
    BY <2>1, EdgeNeighbours
  <2> QED
    BY <1>3, <2>2
<1>8. \A S, x : <<S, x>> \in Edges' <=> <<S, x>> \in Edges \/ (S = KeySet(lo)' /\ x = k)
  <2> TAKE S, x
  <2>1. <<S, x>> \in Edges' <=>
          \E r, s \in Ptr : <<r, x, s>> \in extensions' /\ r # s /\ S = KeySet(r)'
    BY <1>0 DEF EdgesAsRead
  <2>2. <<S, x>> \in Edges <=>
          \E r, s \in Ptr : <<r, x, s>> \in extensions /\ r # s /\ S = KeySet(r)
    BY <1>0 DEF EdgesAsRead
  <2> QED
    BY <1>1, <1>6, <1>7, <2>1, <2>2
<1>9. Edges' = Edges \cup {<<KeySet(lo)', k>>}
  <2>1. \A e \in Edges \cup Edges' : e = <<e[1], e[2]>>
    BY DEF Edges
  <2> QED
    BY <1>8, <2>1
<1>10. CASE q = hi
  <2>1. lo \in arena /\ KeySet(lo)' = KeySet(lo)
    BY <1>1, <1>3, <1>10
  <2>2. KeySet(lo) \in Sets
    BY <2>1 DEF Sets
  <2>3. Graph!Extend(KeySet(lo), k)
    BY <1>4, <1>5, <1>9, <1>10, <2>1, <2>2 DEF Graph!Extend, Sets, Edges
  <2> QED
    BY <2>2, <2>3 DEF Graph!Next, Sets
<1>11. CASE q = lo
  <2>1. hi \in arena /\ KeySet(hi)' = KeySet(hi)
    BY <1>1, <1>3, <1>11
  <2>2. KeySet(hi) \in Sets /\ k \in KeySet(hi) /\ KeySet(lo)' = KeySet(hi) \ {k}
    BY <1>4, <2>1 DEF Sets
  <2>3. Graph!Shrink(KeySet(hi), k)
    BY <1>5, <1>9, <1>11, <2>1, <2>2 DEF Graph!Shrink, Sets, Edges
  <2> QED
    BY <2>2, <2>3 DEF Graph!Next, Sets
<1> QED
  BY <1>1, <1>10, <1>11

\* Removing an entry removes its set, and the edges of the set.
LEMMA RemoveRefines ==
  ASSUME SetMapInv, NEW q \in Ptr, Remove(q)
  PROVE  Graph!Next
<1>1. /\ extensions' = {e \in extensions : e[1] # q /\ e[3] # q}
      /\ q \in arena \ {root} /\ arena' = arena \ {q}
      /\ keys' = [keys EXCEPT ![q] = NoKeys]
  BY RemoveEdges DEF Remove
<1>2. /\ extensions \in SUBSET Triple /\ keys \in [Ptr -> [Key -> {0, 1}]]
      /\ arena \subseteq Ptr /\ root \in arena /\ keys[root] = NoKeys
  BY DEF SetMapInv, EntriesExact, TypeOK, Triple, RootOK
<1>0. EdgesAsRead /\ EdgesAsRead'
  <2>1. extensions' \in SUBSET Triple
    BY <1>1, <1>2
  <2> QED
    BY <1>2, <2>1, EdgesRead, EdgesReadNext
<1> DEFINE old == KeySet(q)
<1>3. \A r \in arena : r # q => KeySet(r)' = KeySet(r) /\ KeySet(r) # old
  BY <1>1, <1>2, KeySetUnique DEF KeySet
<1>4. old # {}
  <2>1. KeySet(root) = {}
    BY <1>2 DEF KeySet, NoKeys
  <2> QED
    BY <1>1, <1>2, <1>3, <2>1
<1>5. Sets' = Sets \ {old}
  BY <1>1, <1>3 DEF Sets
<1>6. \A T, x : <<T, x>> \in Edges' <=> <<T, x>> \in Edges /\ T # old /\ T \cup {x} # old
  <2> TAKE T, x
  <2>2. <<T, x>> \in Edges' <=>
          \E r, s \in Ptr : <<r, x, s>> \in extensions' /\ r # s /\ T = KeySet(r)'
    BY <1>0 DEF EdgesAsRead
  <2>3. <<T, x>> \in Edges <=>
          \E r, s \in Ptr : <<r, x, s>> \in extensions /\ r # s /\ T = KeySet(r)
    BY <1>0 DEF EdgesAsRead
  <2>4. ASSUME NEW r \in Ptr, NEW s \in Ptr, <<r, x, s>> \in extensions, r # s
        PROVE  /\ <<r, x, s>> \in extensions' <=> r # q /\ s # q
               /\ r \in arena /\ s \in arena /\ KeySet(s) = KeySet(r) \cup {x}
    <3>1. x \in Key /\ <<r, x, s>>[1] = r /\ <<r, x, s>>[3] = s
      BY <1>2, <2>4 DEF Triple
    <3>2. r \in arena /\ s \in arena /\ Neighbours(keys[r], x, keys[s])
      BY <2>4, <3>1, EdgeNeighbours
    <3>3. KeySet(s) = KeySet(r) \cup {x}
      BY <1>2, <3>1, <3>2, NeighbourSets
    <3> QED
      BY <1>1, <2>4, <3>1, <3>2, <3>3
  <2>5. ASSUME NEW r \in Ptr, NEW s \in Ptr, <<r, x, s>> \in extensions, r # s
        PROVE  <<r, x, s>> \in extensions' <=> KeySet(r) # old /\ KeySet(r) \cup {x} # old
    BY <1>1, <1>3, <2>4, <2>5
  <2>6. ASSUME NEW r \in Ptr, NEW s \in Ptr, <<r, x, s>> \in extensions', r # s
        PROVE  <<r, x, s>> \in extensions /\ KeySet(r)' = KeySet(r)
    <3>1. <<r, x, s>> \in extensions
      BY <1>1, <2>6
    <3>2. r \in arena /\ r # q
      BY <2>4, <2>6, <3>1
    <3> QED
      BY <1>3, <3>1, <3>2
  <2>7. ASSUME <<T, x>> \in Edges'
        PROVE  <<T, x>> \in Edges /\ T # old /\ T \cup {x} # old
    BY <2>2, <2>3, <2>5, <2>6, <2>7
  <2>8. ASSUME <<T, x>> \in Edges, T # old, T \cup {x} # old
        PROVE  <<T, x>> \in Edges'
    BY <2>2, <2>3, <2>5, <2>6, <2>8
  <2> QED
    BY <2>7, <2>8
<1>7. Edges' = {e \in Edges : e[1] # old /\ e[1] \cup {e[2]} # old}
  <2>1. \A e \in Edges \cup Edges' : e = <<e[1], e[2]>>
    BY DEF Edges
  <2> QED
    BY <1>6, <2>1
<1>8. old \in Sets \ {{}}
  BY <1>1, <1>4 DEF Sets
<1> HIDE DEF old
<1> QED
  BY <1>5, <1>7, <1>8 DEF Graph!Next, Graph!Remove, Sets, Edges

\* A self loop is no abstract edge.
LEMMA NothingNew ==
  ASSUME UNCHANGED <<arena, keys, extensions>>
  PROVE  UNCHANGED Graph!vars
BY DEF Graph!vars, KeySet

\* SetMap implements TagGraph: whatever the arena indices, the caching and the
\* hash map do, what Database sees are sets and pairs of neighbours.
THEOREM GraphTheorem == Spec => ImplementsGraph
<1>1. Init => Graph!Init
  <2> SUFFICES ASSUME Init PROVE Graph!Init
    OBVIOUS
  <2>1. KeySet(root) = {}
    BY SetMapAssumption DEF Init, KeySet, NoKeys
  <2> QED
    BY <2>1 DEF Init, Graph!Init
<1>2. SetMapInv /\ SetMapInv' /\ [Next]_vars => [Graph!Next]_(Graph!vars)
  <2> SUFFICES ASSUME SetMapInv, SetMapInv', [Next]_vars PROVE [Graph!Next]_(Graph!vars)
    OBVIOUS
  <2>1. CASE UNCHANGED vars
    BY <2>1, NothingNew DEF vars
  <2>2. ASSUME NEW p \in arena, NEW k \in Key, Looping(p, k) PROVE UNCHANGED Graph!vars
    BY <2>2, NothingNew DEF Looping
  <2> QED
    BY <2>1, <2>2, StepKinds, LinkingRefines, RemoveRefines
<1> QED
  BY <1>1, <1>2, SetMapInvAlways, PTL DEF Spec, ImplementsGraph, Graph!Spec
=============================================================================
