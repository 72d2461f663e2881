--------------------------- MODULE QueryIteration ---------------------------
(***************************************************************************)
(* One query of a component over the archetypes with its tag               *)
(* (QueryPart::query in src/src/query.rs).  Heaps are walked block by      *)
(* block: a complete block is borrowed as a whole if possible, the slots   *)
(* of others one at a time.  The body decides when to break.               *)
(*                                                                         *)
(* The query holds a flush guard, so the archetypes keep still.  Every     *)
(* heap has a column of the component: queries without any part are left   *)
(* out.  Indices count from zero, as in the code.                          *)
(***************************************************************************)
EXTENDS Naturals, SequencesExt

CONSTANTS
  Archetype,     \* the archetypes in the intersection of the query's tags
  BlockSize,     \* MultiRefCellIndex::COUNT
  HeapLen,       \* length of a heap, in slots
  MaxHeaps,      \* bound: heaps of an archetype
  Layouts,       \* bound: how many entities the archetypes may have
  Stuckable      \* bound: the places one of which may be stuck from the start

ASSUME QueryAssumption ==
  /\ IsFiniteSet(Archetype)
  /\ BlockSize \in Nat \ {0}
  /\ HeapLen \in Nat \ {0} /\ HeapLen % BlockSize = 0
  /\ MaxHeaps \in Nat
  /\ Layouts \subseteq
       [Archetype -> [heap_count : 1 .. MaxHeaps, last_heap_len : 1 .. HeapLen]]

VARIABLES
  info,       \* ArchetypeQueryInfo of each archetype
  stuck,      \* places whose slot cannot be borrowed: it is empty, or borrowed by another
  todo,       \* the blocks still to be walked
  slots,      \* the places still to be visited in the current one
  path,       \* how it is borrowed: "fast", as a whole, or "slow"
  visited,    \* history: the places the body was called for
  query       \* "idle", "running", or how it ended: "continue", "break", "panic"

queryVars == <<info, stuck, todo, slots, path, visited, query>>

Place == Archetype \X (0 .. MaxHeaps - 1) \X (0 .. HeapLen - 1)

\* Where the entities of the archetypes are.
Occupied(inf) ==
  {p \in Place : \/ p[2] + 1 < inf[p[1]].heap_count
                 \/ p[2] + 1 = inf[p[1]].heap_count /\ p[3] < inf[p[1]].last_heap_len}

QueryInit ==
  /\ info \in Layouts
  /\ stuck \in {{}} \cup {{p} : p \in Stuckable \cap Occupied(info)}
  /\ todo = <<>>
  /\ slots = <<>>
  /\ path = "fast"
  /\ visited = <<>>
  /\ query = "idle"

\* The component's slot is empty where no entity is.
Stuck(p) == p \in stuck \/ p \notin Occupied(info)

IsLastHeap(a, h) == h = info[a].heap_count - 1

\* usize::MAX, which is no multiple of the block size either.
Big == HeapLen + BlockSize - 1

\* Mutant: every heap is taken to be as long as the last.
LenOfLast(a, h) == info[a].last_heap_len

LenOrBig(a, h) == IF IsLastHeap(a, h) THEN info[a].last_heap_len ELSE Big

CompleteBlocks(len) == len \div BlockSize

Places(a, h, block, n) ==
  [i \in 1 .. n |-> <<a, h, block * BlockSize + i - 1>>]

\* The complete blocks which the heap has, and the incomplete one.
BlocksOf(a, h) ==
  LET complete == CompleteBlocks(LenOrBig(a, h))
      leftover == LenOrBig(a, h) - complete * BlockSize
      there == IF complete < HeapLen \div BlockSize THEN complete ELSE HeapLen \div BlockSize
  IN [b \in 1 .. there |-> [whole |-> TRUE, places |-> Places(a, h, b - 1, BlockSize)]]
     \o (IF IsLastHeap(a, h) /\ leftover > 0
         THEN <<[whole |-> FALSE, places |-> Places(a, h, complete, leftover)]>> ELSE <<>>)

Walk(order) ==
  FlattenSeq([i \in DOMAIN order |->
    FlattenSeq([h \in 1 .. info[order[i]].heap_count |-> BlocksOf(order[i], h - 1)])])

QueryBegin ==
  /\ query = "idle"
  /\ query' = "running"
  /\ visited' = <<>>
  /\ \E order \in SetToSeqs(Archetype) : todo' = Walk(order)
  /\ UNCHANGED <<info, stuck, slots, path>>

\* try_borrow_group succeeds on all the slots of the block or on none.
EnterBlock ==
  /\ query = "running" /\ slots = <<>> /\ todo # <<>>
  /\ slots' = Head(todo).places
  /\ path' = IF Head(todo).whole /\ \A i \in DOMAIN slots' : ~Stuck(slots'[i])
             THEN "fast" ELSE "slow"
  /\ todo' = Tail(todo)
  /\ UNCHANGED <<info, stuck, visited, query>>

\* The body is called for p.  On the slow path its answer is ignored.
Visit(p, breaks) ==
  /\ query = "running" /\ slots # <<>>
  /\ p = Head(slots)
  /\ ~Stuck(p)
  /\ visited' = Append(visited, p)
  /\ IF breaks /\ path = "fast"
     THEN query' = "break" /\ slots' = <<>> /\ todo' = <<>>
     ELSE slots' = Tail(slots) /\ UNCHANGED <<query, todo>>
  /\ UNCHANGED <<info, stuck, path>>

\* The borrow of one slot panics.
BorrowPanics ==
  /\ query = "running" /\ slots # <<>>
  /\ Stuck(Head(slots))
  /\ query' = "panic"
  /\ UNCHANGED <<info, stuck, todo, slots, path, visited>>

QueryEnd ==
  /\ query = "running" /\ slots = <<>> /\ todo = <<>>
  /\ query' = "continue"
  /\ UNCHANGED <<info, stuck, todo, slots, path, visited>>

\* Its caller has the answer.
QueryReturned ==
  /\ query \in {"continue", "break"}
  /\ query' = "idle"
  /\ visited' = <<>>
  /\ path' = "fast"
  /\ UNCHANGED <<info, stuck, todo, slots>>

-----------------------------------------------------------------------------

\* A query visits no place twice and none without an entity, and a query which
\* ends without having been stopped has visited every entity, whichever of the
\* two paths each block took and however the last heap is filled.
VisitedExact ==
  /\ IsInjective(visited)
  /\ Range(visited) \subseteq Occupied(info)
  /\ query = "continue" => Range(visited) = Occupied(info)
=============================================================================
