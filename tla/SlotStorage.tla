---------------------------- MODULE SlotStorage -----------------------------
(***************************************************************************)
(* The memory of one component type (DbStorageInner<T> of database.rs):    *)
(* composes BlockAllocator, which says where in the anonymous blocks a     *)
(* component goes, with Heap, which holds it, and the handles (Slot, Obj)  *)
(* users keep.  DbStorage says which entity's component must be where;     *)
(* here is how a value gets there, and that the handles follow.            *)
(*                                                                         *)
(* The database tells each entity's position: in a column, at a slot no    *)
(* other entity has, or in an archetype which does not manage the type.  A *)
(* call which panics, as those which would move or replace a borrowed      *)
(* value do, is no action.  Those have changed the mapping before they     *)
(* panic (database.rs:1229, 1397-1410; heap.rs:448-449), so nothing is     *)
(* said of the state after such a panic.                                   *)
(***************************************************************************)
EXTENDS BlockAllocator, Heap

CONSTANTS
  Column,       \* the columns of component heaps, one heap each
  ColumnLen     \* its length

ASSUME StorageAssumption ==
  /\ Client = Owner
  /\ HeapId = Ptr \cup Column
  /\ Ptr \cap Column = {}
  /\ \A h \in HeapId : HeapLen[h] = IF h \in Column THEN ColumnLen ELSE BlockSize

Position == Column \X (1 .. ColumnLen)

VARIABLES
  pos,     \* where the entity is in the database: a position, or None
  slot     \* mappings: the slot of each entity's component, None without one

storageVars == <<allocatorVars, heapVars, pos, slot>>

Init ==
  /\ AllocatorInit
  /\ HeapInit
  /\ pos = [e \in Owner |-> None]
  /\ slot = [e \in Owner |-> None]

\* DbEntityMapping::heap: an anonymous slot while there is a reservation.
HomeOf(e) == IF resv[e] # NoResv THEN <<resv[e].block, resv[e].slot>> ELSE pos[e]

Ensured(H, h) == IF Exists(H, h) THEN H ELSE NewHeap(H, h)

Reserve(e, H) ==
  /\ Alloc(e)
  /\ resv'[e].block \notin Live => Affordable(H, resv'[e].block)

ReservedPlace(e) == <<resv'[e].block, resv'[e].slot>>

\* dealloc, whose block_dtor drops the heap of a block given back.
Unreserve(e, H) ==
  /\ Dealloc(e)
  /\ SetHeaps(IF value'[resv[e].block] = Vacant THEN Dropped(H, resv[e].block) ELSE H)

\* insert_component, for an entity without one.
Insert(e) ==
  /\ slot[e] = None
  /\ IF pos[e] # None
     THEN LET H == Ensured(Heaps, pos[e][1])
          IN /\ Exists(Heaps, pos[e][1]) \/ Affordable(Heaps, pos[e][1])
             /\ SetHeaps(SetPair(H, pos[e], e))
             /\ slot' = [slot EXCEPT ![e] = H.heap[pos[e][1]][pos[e][2]]]
             /\ UNCHANGED allocatorVars
     ELSE /\ Reserve(e, Heaps)
          /\ LET p == ReservedPlace(e)
                 H == Ensured(Heaps, p[1])
             IN /\ SetHeaps(SetPair(H, p, e))
                /\ slot' = [slot EXCEPT ![e] = H.heap[p[1]][p[2]]]
  /\ UNCHANGED <<borrowed, pos>>

\* Mutant: values are moved whether they are borrowed or not.
UnborrowedUnchecked(i) == TRUE

Unborrowed(i) == at[i] \notin borrowed

\* remove_component
Remove(e) ==
  /\ slot[e] # None
  /\ Unborrowed(slot[e])
  /\ LET H == ClearPair(Heaps, slot[e])
     IN IF resv[e] # NoResv THEN Unreserve(e, H)
        ELSE SetHeaps(H) /\ UNCHANGED allocatorVars
  /\ slot' = [slot EXCEPT ![e] = None]
  /\ UNCHANGED <<borrowed, pos>>

\* The flush has moved the entity to p, and its component follows it:
\* move_entity_into_empty_never_truncate.
Move(e, p) ==
  /\ p # pos[e]
  /\ p # None => \A d \in Owner : pos[d] # p
  /\ pos' = [pos EXCEPT ![e] = p]
  /\ IF slot[e] = None THEN UNCHANGED <<allocatorVars, heapVars>>
     ELSE /\ Unborrowed(slot[e])
          /\ IF p # None
             THEN /\ Exists(Heaps, p[1]) \/ Affordable(Heaps, p[1])
                  /\ LET H == SwapSlots(Ensured(Heaps, p[1]), HomeOf(e), p)
                     IN IF resv[e] # NoResv THEN Unreserve(e, H)
                        ELSE SetHeaps(H) /\ UNCHANGED allocatorVars
             ELSE /\ Reserve(e, Heaps)
                  /\ LET q == ReservedPlace(e)
                     IN SetHeaps(SwapSlots(Ensured(Heaps, q[1]), HomeOf(e), q))
          /\ UNCHANGED borrowed
  /\ UNCHANGED slot

\* truncate_archetype_heap_len, of a heap no entity is in.
Truncate(c) ==
  /\ Exists(Heaps, c)
  /\ \A e \in Owner : pos[e] # None => pos[e][1] # c
  /\ SetHeaps(Dropped(Heaps, c))
  /\ UNCHANGED <<allocatorVars, borrowed, pos, slot>>

\* A user borrows through any handle there may be, of whatever age.
Use ==
  /\ \/ \E e \in Owner, i \in Ind : BorrowObj(e, i)
     \/ \E p \in borrowed : ReleaseObj(p)
  /\ UNCHANGED <<allocatorVars, pos, slot>>

Next ==
  \/ \E e \in Owner : Insert(e) \/ Remove(e)
  \/ \E e \in Owner, p \in Position \cup {None} : Move(e, p)
  \/ \E c \in Column : Truncate(c)
  \/ Use

Spec == Init /\ [][Next]_storageVars

-----------------------------------------------------------------------------

\* However a component was moved since the handle was made, the handle reaches
\* that component, at the place the mapping has for it; and the handle of a
\* component which is gone, or whose indirector serves another one by now, is
\* dead.
HandleExact ==
  /\ \A e \in Owner : slot[e] # None =>
       /\ owner[slot[e]] = e
       /\ at[slot[e]] = HomeOf(e)
       /\ content[HomeOf(e)[1]][HomeOf(e)[2]] = e
  /\ \A i \in Ind : owner[i] # None => slot[owner[i]] = i
  /\ \A e \in Owner : slot[e] = None => resv[e] = NoResv
  /\ \A h \in HeapId : \A s \in DOMAIN content[h] :
       content[h][s] # None => at[slot[content[h][s]]] = <<h, s>>

\* A guard holds the address of its value.  Nothing moves the value away, gives
\* the place to another one or frees the heap while the guard is there.
GuardsValid ==
  \A p \in borrowed :
    /\ p[2] \in DOMAIN content[p[1]]
    /\ content[p[1]][p[2]] # None
    /\ at[slot[content[p[1]][p[2]]]] = p
=============================================================================
