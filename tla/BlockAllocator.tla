--------------------------- MODULE BlockAllocator ---------------------------
(***************************************************************************)
(* BlockAllocator (src/src/util/block.rs): reservations of single slots in *)
(* blocks of BlockSize slots.  One block, the "hammered" one, serves the   *)
(* allocations until it is full; blocks which were full and lost a slot    *)
(* wait in non_full; a block which is empty and waiting there is freed.    *)
(***************************************************************************)
EXTENDS FreeListArena

CONSTANTS
  Client,      \* those who hold a reservation, one each
  BlockSize,   \* 128 in the code
  NoResv, NoBlock

AllSlots == 1 .. BlockSize

ASSUME BlockAssumption ==
  /\ BlockSize \in Nat \ {0}
  /\ NoBlock \notin Ptr
  /\ NoResv \notin [block : Ptr, slot : AllSlots]
  /\ Vacant \notin [non_full_index : Nat, occupied_mask : SUBSET AllSlots]

VARIABLES
  hammered,   \* the block to allocate from, if any
  non_full,   \* the blocks to take up after it
  resv        \* the reservation of each client

allocatorVars == <<arenaVars, hammered, non_full, resv>>

HAMMERED_OR_FULL == 0    \* usize::MAX; positions in non_full start at 1 here

Block(index, mask) == [non_full_index |-> index, occupied_mask |-> mask]

AllocatorInit ==
  /\ ArenaInit
  /\ hammered = NoBlock
  /\ non_full = <<>>
  /\ resv = [c \in Client |-> NoResv]

\* Mutant: the ones are counted, wherever they are.
FirstFreeCounted(mask) == Cardinality(mask) + 1

\* trailing_ones
FirstFree(mask) ==
  CHOOSE s \in AllSlots \ mask : \A r \in AllSlots \ mask : s <= r

HammeredAfter(b, mask) == IF mask = AllSlots THEN NoBlock ELSE b

Alloc(c) ==
  \E b \in Ptr :
    LET old == IF b \in Live THEN value[b].occupied_mask ELSE {}
        slot == FirstFree(old)
        block == Block(HAMMERED_OR_FULL, old \cup {slot})
    IN
    /\ resv[c] = NoResv
    /\ \/ /\ hammered = b
          /\ ArenaWrite([value EXCEPT ![b] = block])
          /\ UNCHANGED non_full
       \/ /\ hammered = NoBlock
          /\ non_full # <<>>
          /\ b = non_full[Len(non_full)]
          /\ ArenaWrite([value EXCEPT ![b] = block])
          /\ non_full' = SubSeq(non_full, 1, Len(non_full) - 1)
       \/ /\ hammered = NoBlock
          /\ non_full = <<>>
          /\ b = AllocPtr
          /\ ArenaAlloc(block)
          /\ UNCHANGED non_full
    /\ hammered' = HammeredAfter(b, block.occupied_mask)
    /\ resv' = [resv EXCEPT ![c] = [block |-> b, slot |-> slot]]

SwapRemove(q, i) ==
  [j \in 1 .. Len(q) - 1 |-> IF j = i THEN q[Len(q)] ELSE q[j]]

\* Mutant: the block moved by swap_remove keeps its old index.
PerturbedNot(v, q, i) == v

\* The block which swap_remove put at i, if one did, learns its new index.
Perturbed(v, q, i) ==
  IF i < Len(q) THEN [v EXCEPT ![q[Len(q)]].non_full_index = i] ELSE v

\* Mutant: the hammered block is given back, too.
EmptyAny(index, mask) == mask = {}

\* An empty block is given back, unless it is the hammered one.
Obsolete(index, mask) == mask = {} /\ index # HAMMERED_OR_FULL

Dealloc(c) ==
  /\ resv[c] # NoResv
  /\ LET b == resv[c].block
         was == value[b]
         full == was.occupied_mask = AllSlots
         mask == was.occupied_mask \ {resv[c].slot}
         listed == IF full THEN Append(non_full, b) ELSE non_full
         index == IF full THEN Len(listed) ELSE was.non_full_index
     IN IF Obsolete(index, mask)
        THEN /\ non_full' = SwapRemove(listed, index)
             /\ ArenaDealloc(b, Perturbed(value, listed, index))
        ELSE /\ non_full' = listed
             /\ ArenaWrite([value EXCEPT ![b] = Block(index, mask)])
  /\ resv' = [resv EXCEPT ![c] = NoResv]
  /\ UNCHANGED hammered

AllocatorNext == \E c \in Client : Alloc(c) \/ Dealloc(c)

AllocatorSpec == AllocatorInit /\ [][AllocatorNext]_allocatorVars

-----------------------------------------------------------------------------

\* The slots of block b which are reserved.
Reserved(b) == {s \in AllSlots : \E c \in Client : resv[c] = [block |-> b, slot |-> s]}

\* No two clients share a slot, and a block's mask has exactly the reserved ones.
ReservationsExact ==
  /\ \A c, d \in Client : resv[c] = resv[d] /\ resv[c] # NoResv => c = d
  /\ \A b \in Live : value[b].occupied_mask = Reserved(b)
  /\ \A c \in Client : resv[c] # NoResv => resv[c].block \in Live

\* Every block with room can be found again: it is the hammered one, or waits in
\* non_full at the index it has recorded.  A full one is neither, and only the
\* hammered one is empty.
NoBlockLost ==
  /\ hammered # NoBlock => hammered \in Live
  /\ \A i \in DOMAIN non_full : non_full[i] \in Live /\ value[non_full[i]].non_full_index = i
  /\ \A b \in Live :
       LET full == value[b].occupied_mask = AllSlots
           index == value[b].non_full_index
       IN /\ full => b # hammered
          /\ full \/ b = hammered => index = HAMMERED_OR_FULL
          /\ ~full /\ b # hammered => index \in DOMAIN non_full /\ non_full[index] = b
          /\ value[b].occupied_mask = {} => b = hammered
=============================================================================
