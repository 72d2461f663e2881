------------------------ MODULE BlockAllocatorProofs ------------------------
(***************************************************************************)
(* One owner per slot, whatever the size of a block, the number of clients *)
(* and the bounds of the arena: the allocator's reservations, its lists of *)
(* blocks, and the arena below it are exact.                               *)
(***************************************************************************)
EXTENDS SlotStorage, FiniteSetTheorems, SequenceTheorems, WellFoundedInduction, TLAPS

BlockRecord == [non_full_index : Nat, occupied_mask : SUBSET AllSlots]
Reservation == [block : Ptr, slot : AllSlots]

ArenaTypes ==
  /\ len \in 0 .. MaxPtr
  /\ gen \in [Ptr -> 0 .. MaxGen]
  /\ value \in [Ptr -> BlockRecord \cup {Vacant}]
  /\ free \in Seq(Ptr)
  /\ issued \in SUBSET (Ptr \X Nat)
  /\ allocs \in Nat

\* The generation of a slot is the last it was given out with.
IssuedOK ==
  /\ IsFiniteSet(issued)
  /\ Cardinality(issued) = allocs
  /\ \A c \in issued : c[2] <= gen[c[1]]
  /\ \A p \in Ptr : p > len => gen[p] = 0
  /\ \A p \in Live : <<p, gen[p]>> \in issued

FreeOK ==
  /\ Live \subseteq 1 .. len
  /\ \A i, j \in DOMAIN free : free[i] = free[j] => i = j
  /\ \A i \in DOMAIN free : free[i] \in 1 .. len /\ free[i] \notin Live
  /\ \A p \in 1 .. len : p \notin Live /\ Usable(p) => \E i \in DOMAIN free : free[i] = p

ArenaInv == ArenaTypes /\ IssuedOK /\ FreeOK

-----------------------------------------------------------------------------
(* Numbers.                                                                *)

LEMMA Least ==
  ASSUME NEW A \in SUBSET Nat, A # {}
  PROVE  \E m \in A : \A a \in A : m <= a
<1> DEFINE R == {xy \in Nat \X Nat : xy[1] < xy[2]}
<1>1. IsWellFoundedOn(R, Nat)
  BY NatLessThanWellFounded DEF OpToRel
<1>2. PICK x \in A : \A y \in A : ~ (<<y, x>> \in R)
  <2> HIDE DEF R
  <2> QED
    BY <1>1, WFMin
<1>3. \A y \in A : y \in Nat /\ x \in Nat /\ ~ (y < x)
  BY <1>2
<1> QED
  BY <1>3

LEMMA Greatest ==
  ASSUME NEW A \in SUBSET Nat, A # {}, NEW n \in Nat, \A a \in A : a <= n
  PROVE  \E m \in A : \A a \in A : a <= m
<1> DEFINE B == {n - a : a \in A}
<1>1. B \subseteq Nat /\ B # {}
  <2>1. \A a \in A : n - a \in Nat
    OBVIOUS
  <2>2. PICK a \in A : TRUE
    OBVIOUS
  <2> QED
    BY <2>1, <2>2, Zenon
<1>2. PICK x \in B : \A y \in B : x <= y
  <2> HIDE DEF B
  <2> QED
    BY <1>1, Least
<1>3. PICK m \in A : x = n - m
  OBVIOUS
<1>4. ASSUME NEW a \in A PROVE a <= m
  <2>1. n - a \in B
    OBVIOUS
  <2>2. x <= n - a
    BY <2>1, <1>2
  <2> QED
    BY <2>2, <1>3
<1> QED
  BY <1>4

\* The slot which alloc takes is free.
LEMMA FirstFreeIsFree ==
  ASSUME NEW mask \in SUBSET AllSlots, mask # AllSlots
  PROVE  FirstFree(mask) \in AllSlots \ mask
<1>0. AllSlots \subseteq Nat
  BY BlockAssumption DEF AllSlots
<1>1. AllSlots \ mask \in SUBSET Nat /\ AllSlots \ mask # {}
  BY <1>0
<1>2. \E s \in AllSlots \ mask : \A r \in AllSlots \ mask : s <= r
  BY <1>1, Least
<1> QED
  BY <1>2 DEF FirstFree

-----------------------------------------------------------------------------
(* The arena.                                                              *)

LEMMA AllocPtrFree ==
  ASSUME ArenaInv, AllocPtr \in Ptr
  PROVE  /\ AllocPtr \notin Live
         /\ gen[AllocPtr] # MaxGen
         /\ Usables # {} => /\ LastUsable \in DOMAIN free
                            /\ \A i \in DOMAIN free : Usable(free[i]) => i <= LastUsable
<1>1. CASE Usables = {}
  BY <1>1, ArenaAssumption DEF ArenaInv, ArenaTypes, FreeOK, IssuedOK, AllocPtr, Ptr
<1>2. CASE Usables # {}
  <2>1. Usables \in SUBSET Nat /\ \A i \in Usables : i <= Len(free)
    BY DEF Usables, ArenaInv, ArenaTypes
  <2>2. \E i \in Usables : \A j \in Usables : j <= i
    <3>1. Len(free) \in Nat
      BY DEF ArenaInv, ArenaTypes
    <3> QED
      BY <1>2, <2>1, <3>1, Greatest
  <2>3. LastUsable \in Usables /\ \A j \in Usables : j <= LastUsable
    BY <2>2 DEF LastUsable
  <2>4. AllocPtr = free[LastUsable]
    BY <1>2 DEF AllocPtr
  <2> QED
    BY <2>3, <2>4 DEF Usables, Usable, ArenaInv, FreeOK
<1> QED
  BY <1>1, <1>2

LEMMA WriteSound ==
  ASSUME ArenaInv, NEW v \in [Ptr -> BlockRecord \cup {Vacant}], ArenaWrite(v),
         \A p \in Ptr : v[p] = Vacant <=> value[p] = Vacant
  PROVE  ArenaInv'
<1>1. Live' = Live
  BY DEF Live, ArenaWrite
<1>2. ArenaTypes'
  BY DEF ArenaInv, ArenaTypes, ArenaWrite
<1>3. IssuedOK'
  BY <1>1 DEF ArenaInv, IssuedOK, ArenaWrite
<1>4. FreeOK'
  BY <1>1 DEF ArenaInv, FreeOK, Usable, ArenaWrite
<1> QED
  BY <1>2, <1>3, <1>4 DEF ArenaInv

LEMMA DeallocSound ==
  ASSUME ArenaInv, NEW v \in [Ptr -> BlockRecord \cup {Vacant}], NEW p \in Live,
         ArenaDealloc(p, v), \A q \in Ptr : v[q] = Vacant <=> value[q] = Vacant
  PROVE  ArenaInv'
<1>0. p \in Ptr
  BY DEF Live
<1>1. Live' = Live \ {p}
  BY <1>0 DEF Live, ArenaDealloc
<1>2. ArenaTypes'
  BY <1>0 DEF ArenaInv, ArenaTypes, ArenaDealloc
<1>3. IssuedOK'
  BY <1>1 DEF ArenaInv, IssuedOK, ArenaDealloc
<1>4. FreeOK'
  <2>1. free \in Seq(Ptr) /\ free' = Append(free, p)
    BY DEF ArenaInv, ArenaTypes, ArenaDealloc
  <2>2. /\ Len(free) \in Nat
        /\ DOMAIN free = 1 .. Len(free)
        /\ DOMAIN free' = 1 .. Len(free) + 1
        /\ \A i \in DOMAIN free : free'[i] = free[i]
        /\ free'[Len(free) + 1] = p
    BY <1>0, <2>1
  <2>3. Live' \subseteq 1 .. len'
    BY <1>1 DEF ArenaInv, FreeOK, ArenaDealloc
  <2>4. p \in 1 .. len /\ \A i \in DOMAIN free : free[i] # p
    BY DEF ArenaInv, FreeOK
  <2>5. \A i, j \in DOMAIN free' : free'[i] = free'[j] => i = j
    BY <2>2, <2>4 DEF ArenaInv, FreeOK
  <2>6. \A i \in DOMAIN free' : free'[i] \in 1 .. len' /\ free'[i] \notin Live'
    BY <2>2, <2>4, <1>1 DEF ArenaInv, FreeOK, ArenaDealloc
  <2>7. \A q \in 1 .. len' : q \notin Live' /\ Usable(q)' => \E i \in DOMAIN free' : free'[i] = q
    <3> SUFFICES ASSUME NEW q \in 1 .. len', q \notin Live', Usable(q)'
                 PROVE  \E i \in DOMAIN free' : free'[i] = q
      OBVIOUS
    <3>1. CASE q = p
      BY <3>1, <2>2
    <3>2. CASE q # p
      <4>1. PICK i \in DOMAIN free : free[i] = q
        BY <3>2, <1>1 DEF ArenaInv, FreeOK, ArenaDealloc, Usable
      <4> QED
        BY <4>1, <2>2
    <3> QED
      BY <3>1, <3>2
  <2> QED
    BY <2>3, <2>5, <2>6, <2>7 DEF FreeOK
<1> QED
  BY <1>2, <1>3, <1>4 DEF ArenaInv

LEMMA AllocSound ==
  ASSUME ArenaInv, NEW v \in BlockRecord, ArenaAlloc(v)
  PROVE  ArenaInv'
<1> DEFINE p == AllocPtr
<1>1. /\ p \in Ptr /\ p \notin Live /\ gen[p] # MaxGen
      /\ Usables # {} => /\ LastUsable \in DOMAIN free
                         /\ \A i \in DOMAIN free : Usable(free[i]) => i <= LastUsable
  BY AllocPtrFree DEF ArenaAlloc
<1>2. /\ gen' = [gen EXCEPT ![p] = gen[p] + 1]
      /\ value' = [value EXCEPT ![p] = v]
      /\ issued' = issued \cup {<<p, gen[p] + 1>>}
      /\ allocs' = allocs + 1
  BY <1>1 DEF ArenaAlloc, ArenaInv, ArenaTypes
<1>3. gen[p] \in Nat /\ gen[p] < MaxGen /\ v # Vacant /\ MaxGen \in Nat
  <2>1. gen[p] \in 0 .. MaxGen
    BY <1>1 DEF ArenaInv, ArenaTypes
  <2> QED
    BY <1>1, <2>1, ArenaAssumption, BlockAssumption DEF BlockRecord
<1>4. /\ Usables = {} => p = len + 1 /\ len' = len + 1 /\ free' = <<>>
      /\ Usables # {} => /\ p = free[LastUsable] /\ len' = len
                         /\ free' = SubSeq(free, 1, LastUsable - 1)
  BY DEF ArenaAlloc, AllocPtr
<1>5. len \in Nat /\ len <= MaxPtr /\ MaxPtr \in Nat /\ Ptr = 1 .. MaxPtr /\ free \in Seq(Ptr)
  BY ArenaAssumption DEF ArenaInv, ArenaTypes, Ptr
<1>6. len' \in 0 .. MaxPtr /\ len <= len' /\ p \in 1 .. len'
  BY <1>1, <1>4, <1>5 DEF ArenaInv, FreeOK
<1>7. Live' = Live \cup {p}
  BY <1>1, <1>2, <1>3 DEF Live, ArenaInv, ArenaTypes
<1>8. /\ free' \in Seq(Ptr)
      /\ \A i \in DOMAIN free' : i \in DOMAIN free /\ free'[i] = free[i]
      /\ Usables # {} => \A i \in DOMAIN free' : i < LastUsable
  <2>1. CASE Usables = {}
    BY <2>1, <1>4
  <2>2. CASE Usables # {}
    <3>1. LastUsable \in 1 .. Len(free) /\ Len(free) \in Nat
      BY <2>2, <1>1, <1>5
    <3>2. free' = SubSeq(free, 1, LastUsable - 1)
      BY <2>2, <1>4
    <3>3. /\ free' \in Seq(Ptr)
          /\ DOMAIN free' = 1 .. LastUsable - 1
          /\ \A i \in 1 .. LastUsable - 1 : free'[i] = free[i]
      BY <3>1, <3>2, <1>5
    <3>4. \A i \in 1 .. LastUsable - 1 : i \in DOMAIN free /\ i < LastUsable
      BY <3>1, <1>5
    <3> QED
      BY <3>3, <3>4
  <2> QED
    BY <2>1, <2>2
<1> HIDE DEF p
<1>9. ArenaTypes'
  <2>1. gen' \in [Ptr -> 0 .. MaxGen]
    BY <1>1, <1>2, <1>3 DEF ArenaInv, ArenaTypes
  <2>2. value' \in [Ptr -> BlockRecord \cup {Vacant}]
    BY <1>1, <1>2 DEF ArenaInv, ArenaTypes
  <2>3. issued' \in SUBSET (Ptr \X Nat) /\ allocs' \in Nat
    BY <1>1, <1>2, <1>3 DEF ArenaInv, ArenaTypes
  <2> QED
    BY <1>6, <1>8, <2>1, <2>2, <2>3 DEF ArenaTypes
<1>10. IssuedOK'
  <2>1. gen \in [Ptr -> 0 .. MaxGen] /\ issued \in SUBSET (Ptr \X Nat) /\ IssuedOK
    BY DEF ArenaInv, ArenaTypes
  <2>2. <<p, gen[p] + 1>> \notin issued
    BY <2>1, <1>1, <1>3 DEF IssuedOK
  <2>3. IsFiniteSet(issued') /\ Cardinality(issued') = allocs'
    BY <1>2, <2>1, <2>2, FS_AddElement DEF IssuedOK
  <2>4. \A c \in issued' : c[2] <= gen'[c[1]]
    BY <2>1, <1>1, <1>2, <1>3 DEF IssuedOK
  <2>5. \A q \in Ptr : q > len' => gen'[q] = 0
    BY <2>1, <1>1, <1>2, <1>5, <1>6 DEF IssuedOK
  <2>6. \A q \in Live' : <<q, gen'[q]>> \in issued'
    <3> SUFFICES ASSUME NEW q \in Live' PROVE <<q, gen'[q]>> \in issued'
      OBVIOUS
    <3>1. CASE q = p
      BY <3>1, <2>1, <1>1, <1>2
    <3>2. CASE q # p
      <4>1. q \in Live /\ gen'[q] = gen[q]
        BY <3>2, <2>1, <1>1, <1>2, <1>7 DEF Live
      <4> QED
        BY <4>1, <2>1, <1>2 DEF IssuedOK
    <3> QED
      BY <3>1, <3>2
  <2> QED
    BY <2>3, <2>4, <2>5, <2>6 DEF IssuedOK
<1>11. FreeOK'
  <2>0. FreeOK
    BY DEF ArenaInv
  <2>1. Live' \subseteq 1 .. len'
    BY <2>0, <1>5, <1>6, <1>7 DEF FreeOK
  <2>2. \A i, j \in DOMAIN free' : free'[i] = free'[j] => i = j
    BY <2>0, <1>8 DEF FreeOK
  <2>3. \A i \in DOMAIN free' : free'[i] # p
    <3>1. CASE Usables = {}
      BY <3>1, <2>0, <1>4, <1>5, <1>8 DEF FreeOK
    <3>2. CASE Usables # {}
      <4>1. LastUsable \in DOMAIN free /\ p = free[LastUsable] /\ LastUsable \in Nat
        BY <3>2, <1>1, <1>4, <1>5
      <4>2. \A i \in DOMAIN free' : i \in DOMAIN free /\ i < LastUsable /\ free'[i] = free[i] /\ i \in Nat
        BY <3>2, <1>8, <1>5
      <4> QED
        BY <4>1, <4>2, <2>0 DEF FreeOK
    <3> QED
      BY <3>1, <3>2
  <2>4. \A i \in DOMAIN free' : free'[i] \in 1 .. len' /\ free'[i] \notin Live'
    <3> SUFFICES ASSUME NEW i \in DOMAIN free'
                 PROVE  free'[i] \in 1 .. len' /\ free'[i] \notin Live'
      OBVIOUS
    <3>1. free'[i] \in 1 .. len /\ free'[i] \notin Live
      BY <2>0, <1>8 DEF FreeOK
    <3> QED
      BY <3>1, <2>3, <1>5, <1>6, <1>7
  <2>5. \A q \in 1 .. len' : q \notin Live' /\ Usable(q)' => \E i \in DOMAIN free' : free'[i] = q
    <3> SUFFICES ASSUME NEW q \in 1 .. len', q \notin Live', Usable(q)'
                 PROVE  \E i \in DOMAIN free' : free'[i] = q
      OBVIOUS
    <3>1. q # p /\ q \notin Live /\ q \in Ptr
      BY <1>7, <1>5, <1>6
    <3>2. Usable(q)
      BY <3>1, <1>1, <1>2 DEF Usable, ArenaInv, ArenaTypes
    <3>3. q \in 1 .. len
      BY <3>1, <1>4, <1>5
    <3>4. PICK i \in DOMAIN free : free[i] = q
      BY <3>1, <3>2, <3>3, <2>0 DEF FreeOK
    <3>5. Usables # {} /\ i <= LastUsable
      BY <3>2, <3>4, <1>1 DEF Usables
    <3>6. i # LastUsable
      BY <3>1, <3>4, <3>5, <1>4
    <3>7. i \in 1 .. LastUsable - 1 /\ LastUsable \in 1 .. Len(free)
      BY <3>5, <3>6, <1>1, <1>5
    <3>8. i \in DOMAIN free'
      BY <3>5, <3>7, <1>4, <1>5
    <3> QED
      BY <3>8, <3>4, <1>8
  <2> QED
    BY <2>1, <2>2, <2>4, <2>5 DEF FreeOK
<1> QED
  BY <1>9, <1>10, <1>11 DEF ArenaInv

-----------------------------------------------------------------------------
(* Allocation.                                                             *)

BlockTypes ==
  /\ hammered \in Ptr \cup {NoBlock}
  /\ non_full \in Seq(Ptr)
  /\ resv \in [Client -> Reservation \cup {NoResv}]

AllocatorInv == ArenaInv /\ BlockTypes /\ ReservationsExact /\ NoBlockLost

LEMMA LiveRecords ==
  ASSUME ArenaTypes, NEW b \in Live
  PROVE  /\ b \in Ptr
         /\ value[b] \in BlockRecord
         /\ value[b].non_full_index \in Nat
         /\ value[b].occupied_mask \in SUBSET AllSlots
  BY DEF ArenaTypes, Live, BlockRecord

\* What the blocks waiting are: there, with room, each at its index.
LEMMA Waiting ==
  ASSUME AllocatorInv, NEW i \in DOMAIN non_full
  PROVE  /\ non_full[i] \in Live
         /\ i \in Nat /\ i > 0
         /\ value[non_full[i]].non_full_index = i
         /\ value[non_full[i]].occupied_mask # AllSlots
         /\ non_full[i] # hammered
<1>1. i \in Nat /\ i > 0
  BY DEF AllocatorInv, BlockTypes
<1>2. non_full[i] \in Live /\ value[non_full[i]].non_full_index = i
  BY DEF AllocatorInv, NoBlockLost
<1> QED
  BY <1>1, <1>2 DEF AllocatorInv, NoBlockLost, HAMMERED_OR_FULL

Old(b) == IF b \in Live THEN value[b].occupied_mask ELSE {}

Grown(b) == Block(HAMMERED_OR_FULL, Old(b) \cup {FirstFree(Old(b))})

Hammering(b) ==
  /\ hammered = b
  /\ ArenaWrite([value EXCEPT ![b] = Grown(b)])
  /\ UNCHANGED non_full

TakingUp(b) ==
  /\ hammered = NoBlock
  /\ non_full # <<>>
  /\ b = non_full[Len(non_full)]
  /\ ArenaWrite([value EXCEPT ![b] = Grown(b)])
  /\ non_full' = SubSeq(non_full, 1, Len(non_full) - 1)

MakingNew(b) ==
  /\ hammered = NoBlock
  /\ non_full = <<>>
  /\ b = AllocPtr
  /\ ArenaAlloc(Grown(b))
  /\ UNCHANGED non_full

LEMMA AllocInParts ==
  ASSUME NEW c \in Client, Alloc(c)
  PROVE  \E b \in Ptr :
           /\ resv[c] = NoResv
           /\ Hammering(b) \/ TakingUp(b) \/ MakingNew(b)
           /\ hammered' = HammeredAfter(b, Grown(b).occupied_mask)
           /\ resv' = [resv EXCEPT ![c] = [block |-> b, slot |-> FirstFree(Old(b))]]
  BY Zenon DEF Alloc, Hammering, TakingUp, MakingNew, Old, Grown

\* The block allocated from has room; the list loses it if it was there.
LEMMA BlockChosen ==
  ASSUME AllocatorInv, NEW b \in Ptr, Hammering(b) \/ TakingUp(b) \/ MakingNew(b)
  PROVE  /\ Old(b) \in SUBSET AllSlots /\ Old(b) # AllSlots
         /\ hammered \in {b, NoBlock}
         /\ non_full' \in Seq(Ptr)
         /\ \A i \in DOMAIN non_full' :
              i \in DOMAIN non_full /\ non_full'[i] = non_full[i] /\ non_full[i] # b
         /\ \A i \in DOMAIN non_full : non_full[i] # b => i \in DOMAIN non_full'
<1>0. /\ ArenaTypes /\ NoBlockLost /\ non_full \in Seq(Ptr) /\ b # NoBlock
      /\ AllSlots # {} /\ NoBlock \notin Ptr
  BY BlockAssumption DEF AllocatorInv, ArenaInv, BlockTypes, AllSlots
<1>1. CASE Hammering(b)
  <2>1. b \in Live
    BY <1>0, <1>1 DEF Hammering, NoBlockLost
  <2>2. Old(b) \in SUBSET AllSlots /\ Old(b) # AllSlots
    BY <2>1, <1>0, <1>1, LiveRecords DEF Hammering, NoBlockLost, Old
  <2>3. \A i \in DOMAIN non_full : non_full[i] # b
    BY <1>1, Waiting DEF Hammering
  <2> QED
    BY <2>2, <2>3, <1>0, <1>1 DEF Hammering
<1>2. CASE TakingUp(b)
  <2> DEFINE n == Len(non_full)
  <2>1. n \in Nat /\ n > 0 /\ DOMAIN non_full = 1 .. n /\ n \in DOMAIN non_full
    BY <1>0, <1>2 DEF TakingUp
  <2>2. b = non_full[n] /\ hammered = NoBlock /\ non_full' = SubSeq(non_full, 1, n - 1)
    BY <1>2 DEF TakingUp
  <2> HIDE DEF n
  <2>3. b \in Live /\ value[b].non_full_index = n /\ value[b].occupied_mask # AllSlots
    BY <2>1, <2>2, Waiting
  <2>4. Old(b) \in SUBSET AllSlots /\ Old(b) # AllSlots
    BY <2>3, <1>0, LiveRecords DEF Old
  <2>5. \A i \in DOMAIN non_full : i # n => non_full[i] # b
    BY <2>3, Waiting
  <2>6. /\ non_full' \in Seq(Ptr)
        /\ DOMAIN non_full' = 1 .. n - 1
        /\ \A i \in 1 .. n - 1 : non_full'[i] = non_full[i]
    <3>1. n = Len(non_full)
      BY DEF n
    <3> QED
      BY <3>1, <1>0, <2>1, <2>2
  <2>7. \A i \in DOMAIN non_full' :
          i \in DOMAIN non_full /\ non_full'[i] = non_full[i] /\ non_full[i] # b
    BY <2>1, <2>5, <2>6
  <2>8. \A i \in DOMAIN non_full : non_full[i] # b => i \in DOMAIN non_full'
    BY <2>1, <2>2, <2>6
  <2> QED
    BY <2>2, <2>4, <2>6, <2>7, <2>8
<1>3. CASE MakingNew(b)
  <2>1. b \notin Live
    BY <1>3, AllocPtrFree DEF MakingNew, AllocatorInv
  <2>2. non_full = <<>> /\ non_full' = <<>> /\ hammered = NoBlock
    BY <1>3 DEF MakingNew
  <2>3. Old(b) = {}
    BY <2>1 DEF Old
  <2> QED
    BY <2>2, <2>3, <1>0
<1> QED
  BY <1>1, <1>2, <1>3

LEMMA BlockGrows ==
  ASSUME AllocatorInv, NEW b \in Ptr, Hammering(b) \/ TakingUp(b) \/ MakingNew(b)
  PROVE  /\ ArenaInv'
         /\ value' = [value EXCEPT ![b] = Grown(b)]
         /\ Live' = Live \cup {b}
         /\ FirstFree(Old(b)) \in AllSlots \ Old(b)
         /\ Grown(b) \in BlockRecord
<1>1. FirstFree(Old(b)) \in AllSlots \ Old(b)
  BY BlockChosen, FirstFreeIsFree
<1>2. Grown(b) \in BlockRecord
  BY <1>1, BlockChosen DEF Grown, BlockRecord, Block, HAMMERED_OR_FULL
<1>3. Grown(b) # Vacant
  BY <1>2, BlockAssumption DEF BlockRecord
<1>4. ArenaInv /\ value \in [Ptr -> BlockRecord \cup {Vacant}]
  BY DEF AllocatorInv, ArenaInv, ArenaTypes
<1>5. CASE Hammering(b) \/ TakingUp(b)
  <2>1. b \in Live
    <3>1. CASE Hammering(b)
      BY <3>1, BlockAssumption DEF Hammering, AllocatorInv, NoBlockLost
    <3>2. CASE TakingUp(b)
      <4>1. Len(non_full) \in DOMAIN non_full
        BY <3>2 DEF TakingUp, AllocatorInv, BlockTypes
      <4> QED
        BY <3>2, <4>1, Waiting DEF TakingUp
    <3> QED
      BY <1>5, <3>1, <3>2
  <2>2. ArenaWrite([value EXCEPT ![b] = Grown(b)])
    BY <1>5 DEF Hammering, TakingUp
  <2> DEFINE v == [value EXCEPT ![b] = Grown(b)]
  <2>3. v \in [Ptr -> BlockRecord \cup {Vacant}]
    BY <1>2, <1>4
  <2>4. \A p \in Ptr : v[p] = Vacant <=> value[p] = Vacant
    BY <1>3, <1>4, <2>1 DEF Live
  <2>5. ArenaWrite(v)
    BY <2>2
  <2>6. ArenaInv'
    <3> HIDE DEF v
    <3> QED
      BY <1>4, <2>3, <2>4, <2>5, WriteSound
  <2>7. value' = v
    BY <2>5 DEF ArenaWrite
  <2>8. Live' = Live
    BY <2>4, <2>7 DEF Live
  <2> QED
    BY <1>1, <1>2, <2>1, <2>6, <2>7, <2>8
<1>6. CASE MakingNew(b)
  <2>1. ArenaAlloc(Grown(b)) /\ b = AllocPtr
    BY <1>6 DEF MakingNew
  <2>2. ArenaInv'
    BY <1>2, <1>4, <2>1, AllocSound
  <2>3. value' = [value EXCEPT ![b] = Grown(b)]
    BY <2>1 DEF ArenaAlloc
  <2>4. Live' = Live \cup {b}
    BY <1>3, <1>4, <2>3 DEF Live
  <2> QED
    BY <1>1, <1>2, <2>2, <2>3, <2>4
<1> QED
  BY <1>5, <1>6

LEMMA AllocPreserves ==
  ASSUME AllocatorInv, NEW c \in Client, Alloc(c)
  PROVE  AllocatorInv'
<1>1. PICK b \in Ptr :
         /\ resv[c] = NoResv
         /\ Hammering(b) \/ TakingUp(b) \/ MakingNew(b)
         /\ hammered' = HammeredAfter(b, Grown(b).occupied_mask)
         /\ resv' = [resv EXCEPT ![c] = [block |-> b, slot |-> FirstFree(Old(b))]]
  BY AllocInParts
<1> DEFINE bit == FirstFree(Old(b))
           mask == Old(b) \cup {bit}
<1>2. /\ Old(b) \in SUBSET AllSlots /\ Old(b) # AllSlots
      /\ hammered \in {b, NoBlock}
      /\ non_full' \in Seq(Ptr)
      /\ \A i \in DOMAIN non_full' :
           i \in DOMAIN non_full /\ non_full'[i] = non_full[i] /\ non_full[i] # b
      /\ \A i \in DOMAIN non_full : non_full[i] # b => i \in DOMAIN non_full'
  BY <1>1, BlockChosen
<1>3. /\ ArenaInv'
      /\ value' = [value EXCEPT ![b] = Grown(b)]
      /\ Live' = Live \cup {b}
      /\ bit \in AllSlots \ Old(b)
      /\ Grown(b) \in BlockRecord
  BY <1>1, BlockGrows
<1>4. /\ value \in [Ptr -> BlockRecord \cup {Vacant}]
      /\ resv \in [Client -> Reservation \cup {NoResv}]
      /\ ArenaTypes /\ ReservationsExact /\ NoBlockLost
      /\ b # NoBlock /\ NoResv \notin Reservation
  BY BlockAssumption DEF AllocatorInv, ArenaInv, ArenaTypes, BlockTypes, Reservation
<1>5. Grown(b).non_full_index = 0 /\ Grown(b).occupied_mask = mask
  BY DEF Grown, Block, HAMMERED_OR_FULL
<1>6. /\ value'[b].non_full_index = 0
      /\ value'[b].occupied_mask = mask
      /\ \A d \in Live : d \in Ptr /\ (d # b => value'[d] = value[d])
  BY <1>3, <1>4, <1>5 DEF Live
<1>7. hammered' = IF mask = AllSlots THEN NoBlock ELSE b
  BY <1>1, <1>5 DEF HammeredAfter
<1> DEFINE taken == [block |-> b, slot |-> bit]
<1>8. resv' = [resv EXCEPT ![c] = taken] /\ resv[c] = NoResv /\ taken \in Reservation
  BY <1>1, <1>3 DEF Reservation
<1>9. taken.block = b /\ taken.slot = bit
  OBVIOUS
<1>10. \A d \in Client : resv[d] # taken
  <2> SUFFICES ASSUME NEW d \in Client, resv[d] = taken PROVE FALSE
    OBVIOUS
  <2>1. b \in Live
    BY <1>4, <1>8, <1>9 DEF ReservationsExact
  <2>2. bit \in Reserved(b)
    BY <1>3 DEF Reserved
  <2> QED
    BY <2>1, <2>2, <1>3, <1>4 DEF ReservationsExact, Old
<1> HIDE DEF bit, mask, taken
<1>11. BlockTypes'
  BY <1>1, <1>2, <1>4, <1>7, <1>8 DEF BlockTypes
<1>12. ReservationsExact'
  <2>1. \A d, e \in Client : resv'[d] = resv'[e] /\ resv'[d] # NoResv => d = e
    BY <1>4, <1>8, <1>10 DEF ReservationsExact
  <2>2. \A d \in Client : resv'[d] # NoResv => resv'[d].block \in Live'
    BY <1>3, <1>4, <1>8, <1>9 DEF ReservationsExact
  <2>3. ASSUME NEW d \in Live' PROVE value'[d].occupied_mask = Reserved(d)'
    <3>1. CASE d # b
      <4>1. d \in Live /\ value'[d] = value[d]
        BY <3>1, <1>3, <1>6
      <4>2. ASSUME NEW s \in AllSlots
            PROVE  (\E e \in Client : resv'[e] = [block |-> d, slot |-> s])
                     <=> \E e \in Client : resv[e] = [block |-> d, slot |-> s]
        <5>1. [block |-> d, slot |-> s].block = d
          OBVIOUS
        <5>2. [block |-> d, slot |-> s] # taken
          BY <3>1, <5>1, <1>9
        <5>3. d \in Ptr
          BY <4>1, <1>6
        <5>4. [block |-> d, slot |-> s] \in Reservation
          BY <5>3 DEF Reservation
        <5>5. [block |-> d, slot |-> s] # NoResv
          BY <5>4, <1>4
        <5> QED
          BY <5>2, <5>5, <1>4, <1>8
      <4>3. Reserved(d)' = Reserved(d)
        BY <4>2 DEF Reserved
      <4> QED
        BY <4>1, <4>3, <1>4 DEF ReservationsExact
    <3>2. CASE d = b
      <4>1. Old(b) = Reserved(b)
        <5>1. CASE b \in Live
          BY <5>1, <1>4 DEF Old, ReservationsExact
        <5>2. CASE b \notin Live
          <6>1. ASSUME NEW s \in AllSlots, NEW e \in Client, resv[e] = [block |-> b, slot |-> s]
                PROVE  FALSE
            <7>1. resv[e].block = b
              BY <6>1
            <7>2. [block |-> b, slot |-> s] \in Reservation
              BY DEF Reservation
            <7> QED
              BY <5>2, <6>1, <7>1, <7>2, <1>4 DEF ReservationsExact
          <6> QED
            BY <5>2, <6>1 DEF Old, Reserved
        <5> QED
          BY <5>1, <5>2
      <4>2. ASSUME NEW s \in AllSlots
            PROVE  (\E e \in Client : resv'[e] = [block |-> b, slot |-> s])
                     <=> s = bit \/ \E e \in Client : resv[e] = [block |-> b, slot |-> s]
        <5>1. [block |-> b, slot |-> s] = taken <=> s = bit
          BY DEF taken
        <5>2. [block |-> b, slot |-> s] \in Reservation
          BY DEF Reservation
        <5>3. [block |-> b, slot |-> s] # NoResv
          BY <5>2, <1>4
        <5> QED
          BY <5>1, <5>3, <1>4, <1>8
      <4>3. Reserved(b)' = Reserved(b) \cup {bit}
        BY <4>2, <1>3 DEF Reserved
      <4> QED
        BY <3>2, <4>1, <4>3, <1>6 DEF mask
    <3> QED
      BY <3>1, <3>2
  <2> QED
    BY <2>1, <2>2, <2>3 DEF ReservationsExact
<1>13. NoBlockLost'
  <2>1. hammered' # NoBlock => hammered' \in Live'
    BY <1>3, <1>7
  <2>2. ASSUME NEW i \in DOMAIN non_full'
        PROVE  non_full'[i] \in Live' /\ value'[non_full'[i]].non_full_index = i
    BY <1>2, <1>3, <1>6, Waiting
  <2>3. ASSUME NEW d \in Live'
        PROVE  LET full == value'[d].occupied_mask = AllSlots
                   index == value'[d].non_full_index
               IN /\ full => d # hammered'
                  /\ full \/ d = hammered' => index = HAMMERED_OR_FULL
                  /\ ~full /\ d # hammered' => index \in DOMAIN non_full' /\ non_full'[index] = d
                  /\ value'[d].occupied_mask = {} => d = hammered'
    <3>1. CASE d = b
      <4>1. mask # {}
        BY DEF mask
      <4> QED
        BY <3>1, <4>1, <1>4, <1>6, <1>7 DEF HAMMERED_OR_FULL
    <3>2. CASE d # b
      <4>1. d \in Live /\ d \in Ptr /\ value'[d] = value[d] /\ d # NoBlock
        BY <3>2, <1>3, <1>6, BlockAssumption
      <4>2. d # hammered /\ d # hammered'
        BY <3>2, <4>1, <1>2, <1>7
      <4> DEFINE r == value[d]
      <4>3. /\ r.occupied_mask = AllSlots => r.non_full_index = HAMMERED_OR_FULL
            /\ r.occupied_mask # AllSlots =>
                 r.non_full_index \in DOMAIN non_full /\ non_full[r.non_full_index] = d
            /\ r.occupied_mask # {}
        BY <4>1, <4>2, <1>4 DEF NoBlockLost
      <4>4. r.occupied_mask # AllSlots =>
              r.non_full_index \in DOMAIN non_full' /\ non_full'[r.non_full_index] = d
        BY <4>3, <3>2, <1>2
      <4> QED
        BY <4>1, <4>2, <4>3, <4>4
    <3> QED
      BY <3>1, <3>2
  <2> QED
    BY <2>1, <2>2, <2>3 DEF NoBlockLost
<1> QED
  BY <1>3, <1>11, <1>12, <1>13 DEF AllocatorInv

-----------------------------------------------------------------------------
(* Deallocation.                                                           *)

\* The list with the block in it, and its index there, before it is looked
\* whether the block is obsolete.
Listed(b) ==
  IF value[b].occupied_mask = AllSlots THEN Append(non_full, b) ELSE non_full

Index(b) ==
  IF value[b].occupied_mask = AllSlots THEN Len(Listed(b)) ELSE value[b].non_full_index

GivingBack(b, mask) ==
  /\ Obsolete(Index(b), mask)
  /\ non_full' = SwapRemove(Listed(b), Index(b))
  /\ ArenaDealloc(b, Perturbed(value, Listed(b), Index(b)))

Keeping(b, mask) ==
  /\ ~Obsolete(Index(b), mask)
  /\ non_full' = Listed(b)
  /\ ArenaWrite([value EXCEPT ![b] = Block(Index(b), mask)])

LEMMA DeallocInParts ==
  ASSUME NEW c \in Client, Dealloc(c)
  PROVE  LET b == resv[c].block
             mask == value[b].occupied_mask \ {resv[c].slot}
         IN /\ resv[c] # NoResv
            /\ GivingBack(b, mask) \/ Keeping(b, mask)
            /\ hammered' = hammered
            /\ resv' = [resv EXCEPT ![c] = NoResv]
  BY Zenon DEF Dealloc, GivingBack, Keeping, Listed, Index

\* The list then has the block once, if its index says so, and the others where
\* they were.
LEMMA ListedSound ==
  ASSUME AllocatorInv, NEW b \in Live, value[b].occupied_mask # {}
  PROVE  /\ Listed(b) \in Seq(Ptr)
         /\ Index(b) \in Nat
         /\ Index(b) # 0 => /\ Index(b) \in DOMAIN Listed(b)
                            /\ Listed(b)[Index(b)] = b
                            /\ b # hammered
         /\ Index(b) = 0 => b = hammered
         /\ \A i \in DOMAIN Listed(b) :
              i # Index(b) => i \in DOMAIN non_full /\ Listed(b)[i] = non_full[i] /\ non_full[i] # b
         /\ \A i \in DOMAIN non_full : i \in DOMAIN Listed(b) /\ Listed(b)[i] = non_full[i]
<1>0. /\ ArenaTypes /\ NoBlockLost /\ non_full \in Seq(Ptr)
      /\ b \in Ptr /\ value[b].non_full_index \in Nat
  BY LiveRecords DEF AllocatorInv, ArenaInv, BlockTypes
<1> DEFINE n == Len(non_full)
<1>1. n \in Nat /\ DOMAIN non_full = 1 .. n
  BY <1>0
<1>2. CASE value[b].occupied_mask = AllSlots
  <2>1. Listed(b) = Append(non_full, b) /\ Index(b) = Len(Listed(b))
    BY <1>2 DEF Listed, Index
  <2>2. /\ Listed(b) \in Seq(Ptr) /\ Index(b) = n + 1
        /\ DOMAIN Listed(b) = 1 .. n + 1
        /\ \A i \in 1 .. n : Listed(b)[i] = non_full[i]
        /\ Listed(b)[n + 1] = b
    BY <1>0, <2>1
  <2> HIDE DEF n
  <2>3. \A i \in DOMAIN non_full : non_full[i] # b
    BY <1>2, Waiting
  <2>4. b # hammered
    BY <1>0, <1>2 DEF NoBlockLost
  <2> QED
    BY <1>1, <2>2, <2>3, <2>4
<1>3. CASE value[b].occupied_mask # AllSlots
  <2>1. Listed(b) = non_full /\ Index(b) = value[b].non_full_index
    BY <1>3 DEF Listed, Index
  <2>2. b = hammered => Index(b) = 0
    BY <1>0, <2>1 DEF NoBlockLost, HAMMERED_OR_FULL
  <2>3. b # hammered => Index(b) \in DOMAIN non_full /\ non_full[Index(b)] = b
    BY <1>0, <1>3, <2>1 DEF NoBlockLost
  <2>4. \A i \in DOMAIN non_full : i > 0 /\ (i # Index(b) => non_full[i] # b)
    BY <2>1, Waiting
  <2> QED
    BY <1>0, <2>1, <2>2, <2>3, <2>4
<1> QED
  BY <1>2, <1>3

\* The records afterwards: the block's is gone or new, the others keep their
\* masks, and are at the index they have if they wait.
LEMMA BlockShrinks ==
  ASSUME AllocatorInv, NEW b \in Live, NEW bit \in value[b].occupied_mask,
         LET mask == value[b].occupied_mask \ {bit} IN GivingBack(b, mask) \/ Keeping(b, mask)
  PROVE  LET mask == value[b].occupied_mask \ {bit}
         IN /\ ArenaInv'
            /\ non_full' \in Seq(Ptr)
            /\ Live' \in {Live, Live \ {b}}
            /\ b \notin Live' => mask = {} /\ b # hammered
            /\ b \in Live' => /\ value'[b].occupied_mask = mask
                              /\ mask = {} => b = hammered
                              /\ b = hammered => value'[b].non_full_index = 0
                              /\ b # hammered => /\ value'[b].non_full_index \in DOMAIN non_full'
                                                 /\ non_full'[value'[b].non_full_index] = b
            /\ \A d \in Live \ {b} :
                 /\ value'[d].occupied_mask = value[d].occupied_mask
                 /\ value[d].non_full_index = 0 => value'[d].non_full_index = 0
                 /\ value[d].non_full_index # 0 /\ d # hammered =>
                      /\ value'[d].non_full_index \in DOMAIN non_full'
                      /\ non_full'[value'[d].non_full_index] = d
            /\ \A i \in DOMAIN non_full' :
                 non_full'[i] \in Live' /\ value'[non_full'[i]].non_full_index = i
<1> DEFINE mask == value[b].occupied_mask \ {bit}
           q == Listed(b)
           k == Index(b)
<1>0. /\ ArenaInv /\ value \in [Ptr -> BlockRecord \cup {Vacant}] /\ NoBlockLost
      /\ b \in Ptr /\ value[b] \in BlockRecord /\ mask \in SUBSET AllSlots
      /\ Vacant \notin BlockRecord
  <2>1. ArenaInv /\ ArenaTypes /\ NoBlockLost
    BY DEF AllocatorInv, ArenaInv
  <2> QED
    BY <2>1, LiveRecords, BlockAssumption DEF ArenaTypes, BlockRecord
<1>1. /\ q \in Seq(Ptr)
      /\ k \in Nat
      /\ k # 0 => k \in DOMAIN q /\ q[k] = b /\ b # hammered
      /\ k = 0 => b = hammered
      /\ \A i \in DOMAIN q :
           i # k => i \in DOMAIN non_full /\ q[i] = non_full[i] /\ non_full[i] # b
      /\ \A i \in DOMAIN non_full : i \in DOMAIN q /\ q[i] = non_full[i]
  <2>1. value[b].occupied_mask # {}
    OBVIOUS
  <2> QED
    BY <2>1, ListedSound
<1>2. \A i \in DOMAIN q : i # k =>
        /\ q[i] \in Live /\ q[i] # b
        /\ value[q[i]].non_full_index = i
  BY <1>1, Waiting
<1>3. \A d \in Live \ {b} :
        /\ d \in Ptr /\ value[d] \in BlockRecord
        /\ value[d].non_full_index # 0 /\ d # hammered =>
             /\ value[d].non_full_index \in DOMAIN q /\ value[d].non_full_index # k
             /\ q[value[d].non_full_index] = d
  <2> SUFFICES ASSUME NEW d \in Live \ {b}
               PROVE  /\ d \in Ptr /\ value[d] \in BlockRecord
                      /\ value[d].non_full_index # 0 /\ d # hammered =>
                           /\ value[d].non_full_index \in DOMAIN q /\ value[d].non_full_index # k
                           /\ q[value[d].non_full_index] = d
    OBVIOUS
  <2>1. d \in Ptr /\ value[d] \in BlockRecord
    BY LiveRecords, <1>0 DEF ArenaInv
  <2>2. ASSUME value[d].non_full_index # 0, d # hammered
        PROVE  value[d].non_full_index \in DOMAIN non_full /\ non_full[value[d].non_full_index] = d
    BY <2>2, <1>0 DEF NoBlockLost, HAMMERED_OR_FULL
  <2>3. ASSUME value[d].non_full_index # 0, d # hammered, value[d].non_full_index = k
        PROVE  FALSE
    <3>1. k # 0
      BY <2>3
    <3>2. q[k] = b /\ q[k] = non_full[k]
      BY <2>2, <2>3, <3>1, <1>1
    <3> QED
      BY <3>2, <2>2, <2>3
  <2> QED
    BY <2>1, <2>2, <2>3, <1>1
<1>4. CASE GivingBack(b, mask)
  <2> DEFINE n == Len(q)
             v == Perturbed(value, q, k)
  <2>1. /\ mask = {} /\ k # 0
        /\ non_full' = SwapRemove(q, k)
        /\ ArenaDealloc(b, v)
    BY <1>4 DEF GivingBack, Obsolete, HAMMERED_OR_FULL
  <2>2. n \in Nat /\ DOMAIN q = 1 .. n /\ k \in 1 .. n /\ q[k] = b /\ b # hammered
    BY <1>1, <2>1
  <2>3. k # n => q[n] \in Live /\ q[n] # b /\ q[n] \in Ptr /\ value[q[n]] \in BlockRecord
    BY <1>2, <1>3, <2>2
  <2>4. /\ v \in [Ptr -> BlockRecord \cup {Vacant}]
        /\ \A p \in Ptr : v[p] = Vacant <=> value[p] = Vacant
        /\ \A p \in Ptr : k = n \/ p # q[n] => v[p] = value[p]
        /\ k # n => v[q[n]] = [value[q[n]] EXCEPT !.non_full_index = k]
    <3>1. CASE k = n
      <4>1. v = value
        BY <3>1, <2>2 DEF Perturbed
      <4> QED
        BY <4>1, <3>1, <1>0
    <3>2. CASE k # n
      <4> DEFINE r == [value[q[n]] EXCEPT !.non_full_index = k]
      <4>1. v = [value EXCEPT ![q[n]] = r]
        BY <3>2, <2>2 DEF Perturbed
      <4>2. r \in BlockRecord
        BY <3>2, <2>3, <1>1 DEF BlockRecord
      <4>3. r # Vacant /\ value[q[n]] # Vacant
        BY <4>2, <3>2, <2>3, <1>0
      <4> HIDE DEF v, r
      <4>4. v \in [Ptr -> BlockRecord \cup {Vacant}]
        BY <4>1, <4>2, <1>0
      <4>5. v[q[n]] = r
        BY <4>1, <3>2, <2>3, <1>0
      <4>6. \A p \in Ptr : p # q[n] => v[p] = value[p]
        BY <4>1, <1>0
      <4>7. \A p \in Ptr : v[p] = Vacant <=> value[p] = Vacant
        BY <4>3, <4>5, <4>6
      <4> QED
        BY <4>4, <4>5, <4>6, <4>7, <3>2 DEF r
    <3> QED
      BY <3>1, <3>2
  <2> HIDE DEF v
  <2>5. ArenaInv'
    BY <1>0, <2>1, <2>4, DeallocSound
  <2>6. value' = [v EXCEPT ![b] = Vacant] /\ Live' = Live \ {b}
    BY <1>0, <2>1, <2>4 DEF ArenaDealloc, Live
  <2>7. \A p \in Ptr : p # b => value'[p] = v[p]
    BY <2>4, <2>6
  <2> HIDE DEF q, k, mask, n
  <2>8. /\ DOMAIN non_full' = 1 .. n - 1
        /\ non_full' \in Seq(Ptr)
        /\ \A i \in 1 .. n - 1 : non_full'[i] = IF i = k THEN q[n] ELSE q[i]
    <3>1. non_full' = [i \in 1 .. n - 1 |-> IF i = k THEN q[n] ELSE q[i]]
      BY <2>1 DEF SwapRemove, n
    <3>2. \A i \in 1 .. n - 1 : (IF i = k THEN q[n] ELSE q[i]) \in Ptr
      BY <1>1, <2>2
    <3>3. n - 1 \in Nat
      BY <2>2
    <3> QED
      BY <3>1, <3>2, <3>3
  <2>9. ASSUME NEW d \in Live \ {b}
        PROVE  /\ value'[d].occupied_mask = value[d].occupied_mask
               /\ value[d].non_full_index = 0 => value'[d].non_full_index = 0
               /\ value[d].non_full_index # 0 /\ d # hammered =>
                    /\ value'[d].non_full_index \in DOMAIN non_full'
                    /\ non_full'[value'[d].non_full_index] = d
    <3>1. CASE k # n /\ d = q[n]
      <4>1. value'[d] = [value[d] EXCEPT !.non_full_index = k]
        BY <3>1, <1>3, <2>3, <2>4, <2>7
      <4>2. /\ value'[d].occupied_mask = value[d].occupied_mask
            /\ value'[d].non_full_index = k
        BY <4>1, <1>3 DEF BlockRecord
      <4>3. value[d].non_full_index = n /\ n # 0
        BY <3>1, <1>2, <2>2
      <4>4. k \in DOMAIN non_full' /\ non_full'[k] = d
        BY <3>1, <2>2, <2>8
      <4> QED
        BY <4>2, <4>3, <4>4
    <3>2. CASE k = n \/ d # q[n]
      <4>1. value'[d] = value[d]
        BY <3>2, <1>3, <2>4, <2>7
      <4>2. ASSUME value[d].non_full_index # 0, d # hammered
            PROVE  /\ value[d].non_full_index \in DOMAIN non_full'
                   /\ non_full'[value[d].non_full_index] = d
        <5> DEFINE i == value[d].non_full_index
        <5>1. i \in 1 .. n /\ i # k /\ q[i] = d
          BY <4>2, <1>3, <2>2
        <5>2. i # n
          BY <3>2, <5>1
        <5>3. i \in 1 .. n - 1
          BY <5>1, <5>2, <2>2
        <5> HIDE DEF i
        <5>4. i \in DOMAIN non_full' /\ non_full'[i] = d
          BY <5>1, <5>3, <2>8
        <5> QED
          BY <5>4 DEF i
      <4> QED
        BY <4>1, <4>2
    <3> QED
      BY <3>1, <3>2
  <2>10. ASSUME NEW i \in DOMAIN non_full'
         PROVE  non_full'[i] \in Live' /\ value'[non_full'[i]].non_full_index = i
    <3>1. i \in 1 .. n - 1 /\ i \in 1 .. n
      BY <2>2, <2>8
    <3>2. CASE i = k
      <4>1. k # n /\ non_full'[i] = q[n]
        BY <3>1, <3>2, <2>2, <2>8
      <4>2. value'[q[n]] = [value[q[n]] EXCEPT !.non_full_index = k]
        BY <4>1, <2>3, <2>4, <2>7
      <4> QED
        BY <4>1, <4>2, <3>2, <2>3, <2>6 DEF BlockRecord
    <3>3. CASE i # k
      <4>1. non_full'[i] = q[i] /\ q[i] \in Live /\ q[i] # b /\ value[q[i]].non_full_index = i
        BY <3>1, <3>3, <1>2, <2>2, <2>8
      <4>2. k # n => q[i] # q[n]
        BY <3>1, <4>1, <1>2, <2>2
      <4>3. q[i] \in Ptr /\ value'[q[i]] = value[q[i]]
        BY <4>1, <4>2, <1>3, <2>4, <2>7
      <4> QED
        BY <4>1, <4>3, <2>6
    <3> QED
      BY <3>2, <3>3
  <2> QED
    BY <2>1, <2>2, <2>5, <2>6, <2>8, <2>9, <2>10 DEF mask
<1>5. CASE Keeping(b, mask)
  <2> DEFINE v == [value EXCEPT ![b] = Block(k, mask)]
  <2>1. /\ mask = {} => k = 0
        /\ non_full' = q
        /\ ArenaWrite(v)
    BY <1>5 DEF Keeping, Obsolete, HAMMERED_OR_FULL
  <2>2. Block(k, mask) \in BlockRecord
    BY <1>0, <1>1 DEF BlockRecord, Block
  <2>3. /\ v \in [Ptr -> BlockRecord \cup {Vacant}]
        /\ \A p \in Ptr : v[p] = Vacant <=> value[p] = Vacant
    <3> DEFINE r == Block(k, mask)
    <3> HIDE DEF r
    <3>1. r \in BlockRecord /\ v = [value EXCEPT ![b] = r]
      BY <2>2 DEF r
    <3> QED
      BY <3>1, <1>0
  <2>4. ArenaInv'
    <3> HIDE DEF v
    <3> QED
      BY <1>0, <2>1, <2>3, WriteSound
  <2>5. value' = v /\ Live' = Live
    <3> HIDE DEF v
    <3> QED
      BY <2>1, <2>3 DEF ArenaWrite, Live
  <2>6. /\ value'[b].occupied_mask = mask
        /\ value'[b].non_full_index = k
        /\ \A d \in Live \ {b} : value'[d] = value[d]
    BY <1>0, <1>3, <2>5 DEF Block
  <2> HIDE DEF q, k, mask, v
  <2>7. /\ mask = {} => b = hammered
        /\ b = hammered => value'[b].non_full_index = 0
        /\ b # hammered => /\ value'[b].non_full_index \in DOMAIN non_full'
                           /\ non_full'[value'[b].non_full_index] = b
    BY <1>1, <2>1, <2>6
  <2>8. \A d \in Live \ {b} :
          /\ value'[d].occupied_mask = value[d].occupied_mask
          /\ value[d].non_full_index = 0 => value'[d].non_full_index = 0
          /\ value[d].non_full_index # 0 /\ d # hammered =>
               /\ value'[d].non_full_index \in DOMAIN non_full'
               /\ non_full'[value'[d].non_full_index] = d
    BY <1>3, <2>1, <2>6
  <2>9. \A i \in DOMAIN non_full' :
          non_full'[i] \in Live' /\ value'[non_full'[i]].non_full_index = i
    <3> SUFFICES ASSUME NEW i \in DOMAIN q
                 PROVE  q[i] \in Live /\ value'[q[i]].non_full_index = i
      BY <2>1, <2>5
    <3>1. CASE i = k
      <4>1. i # 0
        BY <1>1
      <4> QED
        BY <3>1, <4>1, <1>1, <2>6
    <3>2. CASE i # k
      BY <3>2, <1>2, <2>6
    <3> QED
      BY <3>1, <3>2
  <2> QED
    BY <1>1, <2>1, <2>4, <2>5, <2>6, <2>7, <2>8, <2>9 DEF mask
<1> QED
  BY <1>4, <1>5

LEMMA DeallocPreserves ==
  ASSUME AllocatorInv, NEW c \in Client, Dealloc(c)
  PROVE  AllocatorInv'
<1> DEFINE b == resv[c].block
           bit == resv[c].slot
           mask == value[b].occupied_mask \ {bit}
<1>1. /\ resv[c] # NoResv
      /\ GivingBack(b, mask) \/ Keeping(b, mask)
      /\ hammered' = hammered
      /\ resv' = [resv EXCEPT ![c] = NoResv]
  BY DeallocInParts
<1>2. /\ resv \in [Client -> Reservation \cup {NoResv}]
      /\ ArenaTypes /\ ReservationsExact /\ NoBlockLost /\ BlockTypes
      /\ NoResv \notin Reservation
  BY BlockAssumption DEF AllocatorInv, ArenaInv, BlockTypes, Reservation
<1>3. resv[c] \in Reservation /\ b \in Ptr /\ bit \in AllSlots
      /\ resv[c] = [block |-> b, slot |-> bit]
  <2>1. resv[c] \in Reservation
    BY <1>1, <1>2
  <2> QED
    BY <2>1 DEF Reservation
<1>4. b \in Live /\ bit \in value[b].occupied_mask /\ value[b].occupied_mask = Reserved(b)
  BY <1>1, <1>2, <1>3 DEF ReservationsExact, Reserved
<1>5. /\ ArenaInv'
      /\ non_full' \in Seq(Ptr)
      /\ Live' \in {Live, Live \ {b}}
      /\ b \notin Live' => mask = {} /\ b # hammered
      /\ b \in Live' => /\ value'[b].occupied_mask = mask
                        /\ mask = {} => b = hammered
                        /\ b = hammered => value'[b].non_full_index = 0
                        /\ b # hammered => /\ value'[b].non_full_index \in DOMAIN non_full'
                                           /\ non_full'[value'[b].non_full_index] = b
      /\ \A d \in Live \ {b} :
           /\ value'[d].occupied_mask = value[d].occupied_mask
           /\ value[d].non_full_index = 0 => value'[d].non_full_index = 0
           /\ value[d].non_full_index # 0 /\ d # hammered =>
                /\ value'[d].non_full_index \in DOMAIN non_full'
                /\ non_full'[value'[d].non_full_index] = d
      /\ \A i \in DOMAIN non_full' :
           non_full'[i] \in Live' /\ value'[non_full'[i]].non_full_index = i
  <2> HIDE DEF b, bit
  <2> QED
    BY <1>1, <1>4, BlockShrinks
<1>6. bit \notin mask
  OBVIOUS
<1> HIDE DEF b, bit, mask
<1>7. BlockTypes'
  BY <1>1, <1>2, <1>5 DEF BlockTypes
<1>8. ReservationsExact'
  <2>1. \A d, e \in Client : resv'[d] = resv'[e] /\ resv'[d] # NoResv => d = e
    BY <1>1, <1>2 DEF ReservationsExact
  <2>2. ASSUME NEW d \in Client, resv'[d] # NoResv PROVE resv'[d].block \in Live'
    <3>1. d # c /\ resv'[d] = resv[d] /\ resv[d] # resv[c] /\ resv[d].block \in Live
      BY <2>2, <1>1, <1>2 DEF ReservationsExact
    <3>2. CASE resv[d].block = b
      <4>1. resv[d] \in Reservation
        BY <2>2, <3>1, <1>2
      <4>2. resv[d] = [block |-> b, slot |-> resv[d].slot] /\ resv[d].slot \in AllSlots
        BY <3>2, <4>1 DEF Reservation
      <4>3. resv[d].slot # bit
        BY <3>1, <4>2, <1>3
      <4>4. resv[d].slot \in Reserved(b)
        BY <4>2 DEF Reserved
      <4>5. resv[d].slot \in mask
        BY <4>3, <4>4, <1>4 DEF mask
      <4> QED
        BY <3>1, <3>2, <4>5, <1>5
    <3>3. CASE resv[d].block # b
      BY <3>1, <3>3, <1>5
    <3> QED
      BY <3>2, <3>3
  <2>3. ASSUME NEW d \in Live' PROVE value'[d].occupied_mask = Reserved(d)'
    <3>0. d \in Live /\ d \in Ptr
      BY <1>2, <1>4, <1>5, LiveRecords
    <3>1. ASSUME NEW s \in AllSlots
          PROVE  /\ [block |-> d, slot |-> s] # NoResv
                 /\ [block |-> d, slot |-> s] = resv[c] <=> d = b /\ s = bit
      <4>1. [block |-> d, slot |-> s] \in Reservation
        BY <3>0 DEF Reservation
      <4> QED
        BY <4>1, <1>2, <1>3
    <3>2. ASSUME NEW s \in AllSlots
          PROVE  (\E e \in Client : resv'[e] = [block |-> d, slot |-> s])
                   <=> ~ (d = b /\ s = bit)
                       /\ \E e \in Client : resv[e] = [block |-> d, slot |-> s]
      <4> DEFINE x == [block |-> d, slot |-> s]
      <4>1. x # NoResv /\ (x = resv[c] <=> d = b /\ s = bit)
        BY <3>1
      <4> HIDE DEF x
      <4>2. (\E e \in Client : resv'[e] = x) <=> x # resv[c] /\ \E e \in Client : resv[e] = x
        <5>1. ASSUME NEW e \in Client, resv'[e] = x PROVE x # resv[c] /\ resv[e] = x
          BY <5>1, <4>1, <1>1, <1>2 DEF ReservationsExact
        <5>2. ASSUME x # resv[c], NEW e \in Client, resv[e] = x PROVE resv'[e] = x
          BY <5>2, <1>1, <1>2
        <5> QED
          BY <5>1, <5>2
      <4> QED
        BY <4>1, <4>2 DEF x
    <3>3. CASE d = b
      <4>1. Reserved(d)' = Reserved(b) \ {bit}
        BY <3>2, <3>3 DEF Reserved
      <4> QED
        BY <4>1, <3>3, <1>4, <1>5 DEF mask
    <3>4. CASE d # b
      <4>1. Reserved(d)' = Reserved(d)
        BY <3>2, <3>4 DEF Reserved
      <4> QED
        BY <4>1, <3>0, <3>4, <1>2, <1>5 DEF ReservationsExact
    <3> QED
      BY <3>3, <3>4
  <2> QED
    BY <2>1, <2>2, <2>3 DEF ReservationsExact
<1>9. NoBlockLost'
  <2>1. hammered' # NoBlock => hammered' \in Live'
    BY <1>1, <1>2, <1>5 DEF NoBlockLost
  <2>2. ASSUME NEW d \in Live'
        PROVE  LET full == value'[d].occupied_mask = AllSlots
                   index == value'[d].non_full_index
               IN /\ full => d # hammered'
                  /\ full \/ d = hammered' => index = HAMMERED_OR_FULL
                  /\ ~full /\ d # hammered' => index \in DOMAIN non_full' /\ non_full'[index] = d
                  /\ value'[d].occupied_mask = {} => d = hammered'
    <3>1. CASE d = b
      <4>1. value'[b].occupied_mask = mask /\ mask # AllSlots
        BY <3>1, <1>3, <1>5, <1>6
      <4> QED
        BY <4>1, <3>1, <1>1, <1>5 DEF HAMMERED_OR_FULL
    <3>2. CASE d # b
      <4>1. d \in Live \ {b}
        BY <3>2, <1>5
      <4> DEFINE r == value[d]
      <4>2. /\ r.occupied_mask = AllSlots => d # hammered
            /\ r.occupied_mask = AllSlots \/ d = hammered => r.non_full_index = 0
            /\ r.occupied_mask # AllSlots /\ d # hammered => r.non_full_index \in DOMAIN non_full
            /\ r.occupied_mask = {} => d = hammered
        BY <4>1, <1>2 DEF NoBlockLost, HAMMERED_OR_FULL
      <4>3. \A i \in DOMAIN non_full : i # 0
        BY <1>2 DEF BlockTypes
      <4> QED
        BY <4>1, <4>2, <4>3, <1>1, <1>5 DEF HAMMERED_OR_FULL
    <3> QED
      BY <3>1, <3>2
  <2> QED
    BY <2>1, <2>2, <1>5 DEF NoBlockLost
<1> QED
  BY <1>5, <1>7, <1>8, <1>9 DEF AllocatorInv

-----------------------------------------------------------------------------

LEMMA AllocatorInvInit == AllocatorInit => AllocatorInv
<1> SUFFICES ASSUME AllocatorInit PROVE AllocatorInv
  OBVIOUS
<1>1. /\ len = 0 /\ free = <<>> /\ issued = {} /\ allocs = 0
      /\ gen = [p \in Ptr |-> 0] /\ value = [p \in Ptr |-> Vacant]
      /\ hammered = NoBlock /\ non_full = <<>> /\ resv = [c \in Client |-> NoResv]
  BY DEF AllocatorInit, ArenaInit
<1>2. Live = {}
  BY <1>1 DEF Live
<1>3. ArenaTypes
  BY <1>1, ArenaAssumption DEF ArenaTypes
<1>4. IssuedOK
  BY <1>1, <1>2, FS_EmptySet DEF IssuedOK
<1>5. FreeOK
  BY <1>1, <1>2 DEF FreeOK
<1>6. BlockTypes
  BY <1>1 DEF BlockTypes
<1>7. ReservationsExact
  BY <1>1, <1>2 DEF ReservationsExact
<1>8. NoBlockLost
  BY <1>1, <1>2 DEF NoBlockLost
<1> QED
  BY <1>3, <1>4, <1>5, <1>6, <1>7, <1>8 DEF AllocatorInv, ArenaInv

LEMMA AllocatorInvStep == AllocatorInv /\ [AllocatorNext]_allocatorVars => AllocatorInv'
<1> SUFFICES ASSUME AllocatorInv, [AllocatorNext]_allocatorVars PROVE AllocatorInv'
  OBVIOUS
<1>1. CASE AllocatorNext
  BY <1>1, AllocPreserves, DeallocPreserves DEF AllocatorNext
<1>2. CASE UNCHANGED allocatorVars
  BY <1>2 DEF allocatorVars, arenaVars, AllocatorInv, ArenaInv, ArenaTypes, IssuedOK, FreeOK,
    BlockTypes, ReservationsExact, NoBlockLost, Reserved, Live, Usable
<1> QED
  BY <1>1, <1>2

LEMMA AllocatorInvAlways == AllocatorSpec => []AllocatorInv
  BY AllocatorInvInit, AllocatorInvStep, PTL DEF AllocatorSpec

LEMMA ArenaInvExact == ArenaInv => ArenaExact
<1> SUFFICES ASSUME ArenaInv PROVE ArenaExact
  OBVIOUS
<1>1. ASSUME NEW p \in Live PROVE \E c \in issued : c[1] = p /\ is_alive(c)
  <2>1. <<p, gen[p]>> \in issued
    BY DEF ArenaInv, IssuedOK
  <2>2. <<p, gen[p]>>[1] = p /\ is_alive(<<p, gen[p]>>)
    BY DEF is_alive
  <2> QED
    BY <2>1, <2>2
<1>2. {free[i] : i \in DOMAIN free} \subseteq (1 .. len) \ Live
  BY DEF ArenaInv, FreeOK
<1>3. \A p \in (1 .. len) \ Live : Usable(p) => \E i \in DOMAIN free : free[i] = p
  BY DEF ArenaInv, FreeOK
<1>4. Cardinality(issued) = allocs
  BY DEF ArenaInv, IssuedOK
<1>5. \A i, j \in DOMAIN free : free[i] = free[j] => i = j
  BY DEF ArenaInv, FreeOK
<1> QED
  BY <1>1, <1>2, <1>3, <1>4, <1>5 DEF ArenaExact

\* No slot of a block is ever reserved twice, and the masks say which are
\* (BlockAllocator::alloc and dealloc).
THEOREM ReservationsTheorem == AllocatorSpec => []ReservationsExact
<1>1. AllocatorInv => ReservationsExact
  BY DEF AllocatorInv
<1> QED
  BY <1>1, AllocatorInvAlways, PTL

\* Every block with room can be found again, at the index it has recorded, and
\* none but the hammered one is kept empty.
THEOREM NoBlockLostTheorem == AllocatorSpec => []NoBlockLost
<1>1. AllocatorInv => NoBlockLost
  BY DEF AllocatorInv
<1> QED
  BY <1>1, AllocatorInvAlways, PTL

\* The arena of the blocks gives no pointer out twice, uses no slot whose
\* generations are used up, and loses none which can be used.
THEOREM ArenaTheorem == AllocatorSpec => []ArenaExact
<1>1. AllocatorInv => ArenaExact
  BY ArenaInvExact DEF AllocatorInv
<1> QED
  BY <1>1, AllocatorInvAlways, PTL
-----------------------------------------------------------------------------

\* Every storage call reserves at most once and gives back at most once, and
\* touches the allocator in no other way.
LEMMA CallsAllocator ==
  ASSUME Next
  PROVE  AllocatorNext \/ UNCHANGED allocatorVars
<1>1. ASSUME NEW e \in Owner, Insert(e) PROVE AllocatorNext \/ UNCHANGED allocatorVars
  BY <1>1, StorageAssumption DEF Insert, Reserve, AllocatorNext
<1>2. ASSUME NEW e \in Owner, Remove(e) PROVE AllocatorNext \/ UNCHANGED allocatorVars
  BY <1>2, StorageAssumption DEF Remove, Unreserve, AllocatorNext
<1>3. ASSUME NEW e \in Owner, NEW p, Move(e, p) PROVE AllocatorNext \/ UNCHANGED allocatorVars
  <2>1. CASE slot[e] = None
    BY <1>3, <2>1 DEF Move
  <2>2. CASE slot[e] # None /\ p = None
    BY <1>3, <2>2, StorageAssumption DEF Move, Reserve, AllocatorNext
  <2>3. CASE slot[e] # None /\ p # None
    BY <1>3, <2>3, StorageAssumption DEF Move, Unreserve, AllocatorNext
  <2> QED
    BY <2>1, <2>2, <2>3
<1>4. ASSUME NEW c \in Column, Truncate(c) PROVE UNCHANGED allocatorVars
  BY <1>4 DEF Truncate
<1>5. ASSUME Use PROVE UNCHANGED allocatorVars
  BY <1>5 DEF Use
<1> QED
  BY <1>1, <1>2, <1>3, <1>4, <1>5 DEF Next

\* The storage uses the allocator as it is meant to be used: what is proved of
\* the allocator holds whatever calls the database makes (insert_component,
\* remove_component and move_entity_into_empty_never_truncate).
THEOREM StorageAllocatorTheorem ==
  Spec => AllocatorSpec /\ []ReservationsExact /\ []NoBlockLost /\ []ArenaExact
<1>1. Init => AllocatorInit
  BY DEF Init
<1>2. ASSUME [Next]_storageVars PROVE [AllocatorNext]_allocatorVars
  BY <1>2, CallsAllocator DEF storageVars
<1>3. Spec => AllocatorSpec
  BY <1>1, <1>2, PTL DEF Spec, AllocatorSpec
<1> QED
  BY <1>3, ReservationsTheorem, NoBlockLostTheorem, ArenaTheorem, PTL
=============================================================================
