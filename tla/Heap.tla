-------------------------------- MODULE Heap --------------------------------
(***************************************************************************)
(* Heaps of slots and their indirectors (src/src/core/heap.rs), for the    *)
(* values of one type.  A slot is reached through its indirector, which    *)
(* follows the value from heap to heap; the indirectors of a dropped heap  *)
(* are used again for the next one, and nothing tells their old holders.   *)
(*                                                                         *)
(* A value is known by the entity it was given to.  The contents are those *)
(* of the cells of BorrowCell, of which only one thing matters here: a     *)
(* borrowed value can be neither taken nor replaced.                       *)
(***************************************************************************)
EXTENDS Integers, Sequences, FiniteSets

CONSTANTS
  Owner,      \* the entities
  HeapId,     \* the heaps there can be
  HeapLen,    \* the length of each
  MaxInd,     \* bound: indirectors
  Batch,      \* how many are made at a time, at least (128 in the code)
  MaxBorrowed,  \* bound: guards at a time
  None

ASSUME HeapAssumption ==
  /\ HeapLen \in [HeapId -> Nat]
  /\ MaxInd \in Nat
  /\ Batch \in Nat
  /\ MaxBorrowed \in Nat

Ind == 1 .. MaxInd
Place == HeapId \X Nat

ASSUME NoneAssumption == None \notin Owner \cup Ind \cup Place

VARIABLES
  made,       \* the number of indirectors made, which are leaked
  free_ind,   \* the free ones
  owner,      \* the entity each one is for
  at,         \* the place each one points to; None stands for the empty cell
  heap,       \* the indirectors of the slots of each heap, <<>> if there is no heap
  content,    \* the value in each place of each heap
  borrowed    \* the places whose value is borrowed

heapVars == <<made, free_ind, owner, at, heap, content, borrowed>>

HeapInit ==
  /\ made = 0
  /\ free_ind = <<>>
  /\ owner = [i \in Ind |-> None]
  /\ at = [i \in Ind |-> None]
  /\ heap = [h \in HeapId |-> <<>>]
  /\ content = [h \in HeapId |-> <<>>]
  /\ borrowed = {}

\* What a call makes of the state is a function of a record of it, as the
\* storage's operations make several calls.
Heaps == [made |-> made, free |-> free_ind, owner |-> owner, at |-> at,
          heap |-> heap, content |-> content]

SetHeaps(H) ==
  /\ made' = H.made
  /\ free_ind' = H.free
  /\ owner' = H.owner
  /\ at' = H.at
  /\ heap' = H.heap
  /\ content' = H.content

Exists(H, h) == H.heap[h] # <<>>

Additional(H, n) ==
  IF Len(H.free) >= n THEN 0
  ELSE IF n - Len(H.free) > Batch THEN n - Len(H.free) ELSE Batch

\* Is there room for the bound's sake?
Affordable(H, h) == H.made + Additional(H, HeapLen[h]) <= MaxInd

\* Heap::new: the last indirectors of the free list become the slots, in order.
\* Their owners are left as they are.
NewHeap(H, h) ==
  LET n == HeapLen[h]
      extended == H.free \o [j \in 1 .. Additional(H, n) |-> H.made + j]
      kept == Len(extended) - n
      taken == SubSeq(extended, kept + 1, Len(extended))
  IN [H EXCEPT
        !.made = @ + Additional(H, n),
        !.free = SubSeq(extended, 1, kept),
        !.at = [i \in Ind |-> IF \E s \in DOMAIN taken : taken[s] = i
                              THEN <<h, CHOOSE s \in DOMAIN taken : taken[s] = i>> ELSE @[i]],
        !.heap[h] = taken,
        !.content[h] = [s \in 1 .. n |-> None]]

\* Mutant: the slots keep pointing to the memory of the heap.
DroppedDangling(H, h) ==
  [H EXCEPT !.owner = [i \in Ind |-> IF \E s \in DOMAIN H.heap[h] : H.heap[h][s] = i
                                     THEN None ELSE @[i]],
            !.free = @ \o H.heap[h],
            !.heap[h] = <<>>,
            !.content[h] = <<>>]

\* Heap::drop: every slot is cleared and pointed to the empty cell.
Dropped(H, h) ==
  LET freed == {H.heap[h][s] : s \in DOMAIN H.heap[h]}
  IN [H EXCEPT !.owner = [i \in Ind |-> IF i \in freed THEN None ELSE @[i]],
               !.at = [i \in Ind |-> IF i \in freed THEN None ELSE @[i]],
               !.free = @ \o H.heap[h],
               !.heap[h] = <<>>,
               !.content[h] = <<>>]

\* DirectSlot::set_value_owner_pair, with a value.
SetPair(H, p, e) ==
  [H EXCEPT !.owner[H.heap[p[1]][p[2]]] = e, !.content[p[1]][p[2]] = e]

\* Slot::set_value_owner_pair(None), through the indirector.
ClearPair(H, i) ==
  [H EXCEPT !.owner[i] = None, !.content[H.at[i][1]][H.at[i][2]] = None]

\* Mutant: the slots stay in their heaps, only the values and pointers swap.
SwapSlotsPointers(H, p, q) ==
  LET i == H.heap[p[1]][p[2]]
      j == H.heap[q[1]][q[2]]
  IN [H EXCEPT !.content[p[1]][p[2]] = H.content[q[1]][q[2]],
               !.content[q[1]][q[2]] = H.content[p[1]][p[2]],
               !.at[i] = H.at[j], !.at[j] = H.at[i]]

\* Heap::swap_slots: the values, where the indirectors point, and the slots
\* which hold them.  The owners stay with their indirectors.
SwapSlots(H, p, q) ==
  LET i == H.heap[p[1]][p[2]]
      j == H.heap[q[1]][q[2]]
  IN [H EXCEPT !.content[p[1]][p[2]] = H.content[q[1]][q[2]],
               !.content[q[1]][q[2]] = H.content[p[1]][p[2]],
               !.at[i] = H.at[j], !.at[j] = H.at[i],
               !.heap[p[1]][p[2]] = j, !.heap[q[1]][q[2]] = i]

\* Obj::is_alive
ObjAlive(e, i) == owner[i] = e

\* Obj::get, get_mut: the guard is to the value's place and stays with it.
BorrowObj(e, i) ==
  /\ ObjAlive(e, i)
  /\ Cardinality(borrowed) < MaxBorrowed
  /\ at[i] # None
  /\ content[at[i][1]][at[i][2]] # None
  /\ at[i] \notin borrowed
  /\ borrowed' = borrowed \cup {at[i]}
  /\ UNCHANGED <<made, free_ind, owner, at, heap, content>>

ReleaseObj(p) ==
  /\ p \in borrowed
  /\ borrowed' = borrowed \ {p}
  /\ UNCHANGED <<made, free_ind, owner, at, heap, content>>

-----------------------------------------------------------------------------

\* An indirector and the place it points to belong together both ways; a free
\* one points to the empty cell and is owned by nobody, which is why NewHeap
\* need not reset the owners.
PointersMutual ==
  /\ \A h \in HeapId : \A s \in DOMAIN heap[h] : at[heap[h][s]] = <<h, s>>
  /\ \A i \in Ind : at[i] # None => /\ at[i][2] \in DOMAIN heap[at[i][1]]
                                    /\ heap[at[i][1]][at[i][2]] = i
  /\ \A k \in DOMAIN free_ind : at[free_ind[k]] = None /\ owner[free_ind[k]] = None
  /\ \A k, l \in DOMAIN free_ind : free_ind[k] = free_ind[l] => k = l
  /\ \A i \in 1 .. made : at[i] = None => \E k \in DOMAIN free_ind : free_ind[k] = i
=============================================================================
