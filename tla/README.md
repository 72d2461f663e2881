# Verification of bort

Bort is an object model for Rust: entities which carry components and tags, queries
over them, borrow-checked cells reached through main-thread tokens, events and
behaviours. This directory holds TLA+ models of it, the TLC configurations which check
them, and proofs checked by TLAPS. Paths are relative to the repository, which is
found under `src/`; `database.rs` is `src/src/database.rs`.

## 1. The system

| component | source | state | operations |
|---|---|---|---|
| Entity database | `database.rs` `DbRoot` | alive entities with a virtual archetype (the tags asked for) and a physical one (where they are stored); archetypes with entity lists; dirty lists; tag containers | spawn, despawn, tag, untag, query guard, flush, tag intersection |
| Component storage | `database.rs` `DbStorage` | per type: where each entity's component is; per archetype a column of heaps parallel to its entity list | insert, remove, destroy, the moves and cuts a flush makes |
| SetMap | `util/set_map.rs` | arena of sets, hash map from keys to entry, cached (de)extension edges | lookup_extension, lookup_de_extension, remove |
| Arenas | `util/arena.rs` | slots with generations, free list | alloc, dealloc, get, upgrade |
| Component lists | `database.rs` `DbComponentList` | SetMap of component types, never removed from | extend, de-extend, run_dtors |
| Queries | `query.rs` | none between calls: plans over archetypes, blocks of components | flush, iterate with fast and slow path |
| Heaps and slots | `core/heap.rs` | heaps of values, slots reached through indirectors, owners | swap, write, destroy |
| Block allocator | `util/block.rs` | blocks with free masks, the list of non-full ones | alloc, dealloc |
| Borrow cells | `core/cell.rs` | one state byte per value or per block | borrow, borrow_mut, release, replace |
| Tokens | `core/token.rs`, `core/token_cell.rs` | per type, who holds it exclusively or shared | acquire, release |
| Events | `event.rs` | lists of events and how far each handler got | fire, drive_query, take, drain |
| Behaviours | `behavior.rs` | behaviours and the order between them | extend, execute |
| Objects, handles | `obj.rs`, `entity.rs` | a slot and its owner | thin wrappers; destroy |

**How they interact.** Everything below the tokens runs on the main thread, in
synchronous calls; only the main thread can give up its access for a while and let
other threads use cells under tokens of their own (`parallelize`).
`Entity::tag`/`untag` only change an entity's *virtual* archetype, through the SetMap,
and queue the entity as dirty. `flush` then moves every dirty entity from its physical
to its virtual archetype, asks each storage managed by either archetype to move the
component, cuts the storages' heaps and removes archetypes nobody uses. A query
flushes, then borrows the query guard, searches the tag containers for the archetypes
having all its tags and walks entity list and columns with the same heap and slot
index, block by block; user code runs inside it and may spawn, retag and destroy. A
component is kept in a column if its entity's archetype manages the type, else in a block
of the anonymous block allocator, and handles reach it through an indirector which
follows it. Events are queued by the code which fires them and
read by event queries, which behaviours run when the program drives their list. User code also runs
in the `Drop` of components, after the entity has left the database and before its
other components are destroyed.

**What is hard.** There is no thread to interleave with in the database, and threads
meet in the token tracker only; the difficulty is in *sequences*. The lists are compacted by swap-remove while three other
tables (entity records, dead records, storage mappings) hold indices into them; the
dirty list is a heuristic; archetype indices are reused and pointers to them carry no
generation; archetypes are removed recursively; indirectors, blocks and generations are used again;
one byte carries five kinds of guards; events are fired while events are being drained; and
callbacks re-enter the database.
`PROJECT.json` lists each hazard at its line.

**What makes each part correct.** Database: indices never go stale, nobody is
forgotten, nothing dangles or leaks, queries see stable lists, and a flush shows exactly
the tags of the moment. Storage: columns and entity lists agree, no component is lost or
doubled. SetMap: a cached edge is as good as a lookup, and none outlives its target.
Intersection: complete, without duplicates, terminating. Arena: a freed index is not
taken for its successor. Block allocator: one owner per slot. Cells: a writer excludes
everyone. Tokens: exclusive and shared never coexist. Events: each handler sees each event
once. Behaviours: the order respects every constraint declared.

## 2. The modules

| module | models | correspondence |
|---|---|---|
| `EntityTags` | the promise, without archetypes | abstract specification: `listed` is what queries see, replaced by `tags` in one step at a flush |
| `Database` | `DbRoot` | an archetype is named by its set of tags; one action per public call, and one per iteration of each loop of `flush_archetypes` (`pc` says which loop) |
| `TagGraph` | the promise of a SetMap | abstract specification: sets and cached neighbour pairs, as `Database` uses them |
| `SetMap` | `SetMap` over its arena | one action per call; edges are triples; freed indices are reused |
| `TagIntersection` | `DbTag`, `enumerate_tag_intersection` | archetypes are arena indices; one action per step of the sort and of the merge |
| `DbStorage` | `DbStorage<T>` of one type, and `Entity::destroy` | EXTENDS `Database`; a flush action of `Database` and the storage calls made in that iteration are one action |
| `ArchetypeRemoval` | the recursion of `rec_remove_stepping_stone_arches` | EXTENDS `Database`; one action per call, per archetype looked at and per return, over a stack of what each call has left of `de_extensions`; compared with the fixpoint `Database` uses |
| `BorrowCell` | `MultiOptRefCell` of `core/cell.rs` and its guards | one action per method and per guard's end; the closure of `try_replace_with` is two actions, as it may use the block in between; the guards are ghosts of what callers hold |
| `TokenSource` | `core/token.rs`, for one component type | one action per call, each under the tracker's mutex |
| `TokenCells` | `core/token_cell.rs` | EXTENDS `BorrowCell` and `TokenSource`: a thread uses the block as far as its token allows; lifetimes are guards |
| `FreeListArena` | `FreeListArena` of `util/arena.rs` | generations, used-up slots, the free list |
| `BlockAllocator` | `util/block.rs` | EXTENDS `FreeListArena`, where the blocks are |
| `Heap` | `core/heap.rs`, liveness and borrows of `obj.rs` | indirectors and slots; calls are operators on a record of the heaps, as storage operations make several |
| `SlotStorage` | `DbStorageInner<T>` of `database.rs` | EXTENDS `BlockAllocator` and `Heap`: one action per storage call |
| `QueryIteration` | `QueryPart::query` of `query.rs` | one action per block borrowed and per call of the body |
| `EventGroup` | `VecEventList`, `EventGroup` of `event.rs` | operators on the value of a group |
| `OrderedBehaviors` | `OrderedBehaviorList` of `behavior.rs` | push, extend and the steps of the sort in `drive` |
| `Dispatch` | `drain_recursive_breakable` of `event.rs`, driven queries of `query.rs` | EXTENDS the three above: a frame is a query which fires events and a recursive drain of them into a list of behaviours |
| `MC*` | | instances for TLC |
| `DatabaseProofs` | | theorems about `Database`, and that it implements `EntityTags` |
| `DbStorageProofs` | | theorems about `DbStorage`; EXTENDS those about `Database` |
| `SetMapProofs` | | theorems about `SetMap`, and that it implements `TagGraph` |
| `TagIntersectionProofs` | | theorems about `TagIntersection` |
| `TokenCellsProofs` | | theorems about the cells, the tokens and their composition |
| `BlockAllocatorProofs` | | theorems about `BlockAllocator` and its arena, and that `SlotStorage` implements it |
| `SlotStorageProofs` | | theorems about the handles, guards and indirectors of `SlotStorage`; EXTENDS the former |
| `DispatchProofs` | | theorems about the ordered lists, the queries and the drains of `Dispatch` |

Abstractions, and why they are sound for what is checked:

* *Archetypes are sets of tags* in `Database`. That the SetMap finds the one entry of a
  set, and that its edges are exactly those `Database` keeps in `ext`, is what the run
  `set_map` checks and `GraphTheorem` proves (`ImplementsGraph`): `SetMap` implements `TagGraph`, and the way
  `Database` changes `archs` and `ext` is that of `TagGraph` (`Extend`, `Shrink`, `Remove`).
* *A flush is cut into iterations.* It is one call of the program and no other call can
  run in between in the database model (`pc # "idle"` refuses them), so the cut only
  shows intermediate states. In `DbStorage` no user code runs during a flush either:
  slots are swapped, not dropped.
* *The pruning loop* of `FlushDead` is one operator (`Pruned`): its result is the list
  up to the last alive entity. *The stepping stones* are removed by a fixpoint
  (`SteppingStones`); `ArchetypeRemoval` models the recursion, and `RemovalTheorem` proves
  that it comes to the same.
* *Heaps*: contents are the owners of the slots; the capacity of the first heap,
  128 in the code, is `HeapMin`. Growth by doubling is kept.
* *Indices count from 1* where the code counts from 0, except in `QueryIteration`, whose
  subject is the arithmetic of indices.
* *A stuck place* in `QueryIteration` is a slot which cannot be borrowed. A place beyond the entities of an
  archetype is stuck always, as its slot is empty (`Stuck`); a few others may be from the start.
* *Components and their memory are apart.* `DbStorage` says which entity's component must
  be where after each step of a flush; `SlotStorage` takes any movement of entities to
  positions nobody else has, which includes those, and says how the memory follows.
  `DbStorage` in turn does not look at blocks, indirectors and handles.
* *An event for a dead entity* ends the drain in a panic if the behaviour's query has tags, and is
  handled if it has none (`Tagless`, `Resolved`), as the code then does not look where the entity is.
* *Cells in `Heap`* are known by one thing: whether their value is borrowed. That a
  borrowed value can be neither taken nor replaced is what `BorrowCell` shows
  (`StateExact`: `take` and `replace` need the byte `NEUTRAL` or `EMPTY`).
* *Component types* do not interact in the token tracker, which is a map from types:
  `TokenSource` has one.
* *What Rust enforces* (lifetimes, `&mut self`, which types are `Send`) is in the guards of
  `TokenCells` and named there. A leaked guard is a ghost of its own, so a reference leaked
  to the end of the program still counts as a reader or a writer.
* *Calls refused* (an `Err`, a `None`, a panic) are no actions. Those of cells and tokens, and most others,
  have written nothing by then; where a cell has (`swap` with a borrowed slot, a closure which panics), the
  panic is an action (`Swap`, `ReplaceEmpty`). The exceptions are the calls which would move or replace a borrowed
  component: `database.rs:1397-1410` replaces `mapping.heap` before `swap_slots` panics,
  and `database.rs:1229` and `heap.rs:448-449` unlink the mapping and the owner before `replace` does. `SlotStorage`
  has no step for these, so its properties say nothing of the state which such a panic leaves.
* *A hash set's order* is open: the order of archetypes in a query, and of the behaviours
  which are ready to run.
* *Retain* in `TagIntersection` removes the one occurrence of an element; that there is
  at most one is asserted by the code (`database.rs:520`) and proved (`Registered`).

## 3. What the runs check

| run | instance | shows |
|---|---|---|
| `database` | 3 entities, 2 tags, first heap of 1 slot, 3 dirty entries, 1 query, debug build | the nine invariants of `Database` in 1.1 million states |
| `database_live` | 2 entities, 3 dirty entries, release build | slots given up keep their old entity and nobody notices (`SlotsMirror` is proved for both builds): the refinement `KeepsPromise` of `EntityTags`; `FlushTerminates` under weak fairness, and `QueryStability` |
| `flush_panics` | 2 entities | the violation of `NoPanic`, see section 6 |
| `archetype_removal` | every graph over 3 tags, up to 2 archetypes in use | recursion and fixpoint agree for every visiting order, and no call meets what an inner one has removed |
| `tag_intersection` | 3 indices, 3 tags, up to 3 tags asked for | the search is exact and ends, repeated tags included; each step uses something up |
| `set_map` | 3 keys, 5 indices | edges right, doubly linked, no dangling end, and the refinement of `TagGraph` |
| `storage` | 2 entities, a managing tag and another, 3 dirty entries | columns aligned, homes exact, no stale column, the move contract holds, also when the entity filling a slot is itself about to move |
| `storage_reentrant` | 2 entities, `Drop` may re-enter | the violation of `MoveContract`, see section 6 |
| `token_cells` | 3 threads, 2 slots, `NEUTRAL` 3, 3 guards and 2 tokens per thread, debug build | the borrow bytes are exact, writers exclude everybody, tokens exclude each other, references without guards stay valid |
| `block_alias` | the same, borrowing from a block held mutably | the violation of `Exclusion`, see section 6 |
| `slot_storage` | 3 entities, 2 blocks of 2 slots, 2 columns of 1, 2 generations, 5 indirectors, 1 guard | handles follow their component and die with it, guards stay valid, nothing is lost or given out twice |
| `dispatch` | 2 archetypes, one with a full heap of 2 blocks and one with a block and a half; 3 behaviours, one of them with a query of no tags, 1 dependency, 3 events, 2 frames, at most one stuck slot | every entity visited once, every event handled once by every behaviour it is for, behaviours in order, the frame ends |

**Bounds, and why they suffice to be interesting.** With `HeapMin = 1` three entities fill
a heap of one slot and half of one of two slots: new heaps, emptied heaps, the
swap-remove within one heap, across heaps, and of the last entity itself all occur.
Two tags give the archetypes {}, {a}, {b}, {a, b}, where {a, b} has two stepping stones;
three tags, with longer chains, are in `archetype_removal` and `set_map`. `MaxDirty` bounds
the dirty list, which may hold an entity several times: with 3 entries one entity can be
queued, retagged back, and queued again along with another. One query suffices as the
guard only counts. In `storage` no query runs (`MaxQueries = 0`): queries only refuse
flushes, and refusing more of them reaches no new state. In `set_map` five indices hold
the root and four other sets, so the arena can be full; a full arena
refuses a lookup in the model where the code would grow it.

With `NEUTRAL = 3` a slot has up to four readers and two writers, which are more than one thread
may hold and fewer than it may leak: both ends of the byte are reached, and so are the
refusals there. Two slots show a block with one slot borrowed, and the carry from one byte into the next.
Three threads are the suspended main thread, which may have left guards behind, and two
workers. In `slot_storage` a full block, a half full one and an empty one exist
together; a heap's indirectors are used again for a heap of another length; the
generations of an arena slot run out after one reuse. In `dispatch` three events are
enough for an event fired by the query, one by its handler and one by that one's handler, so a
drain swaps the groups until it has read each twice; a second frame drains events which were kept.
The stuck place is in a complete block, or in the incomplete one.

**Fairness.** `FairSpec` of `Database` has `WF_vars(FlushStep)` and that of
`TagIntersection` has `WF_vars(SearchStep)`: each is one synchronous call on the only
thread that may use the database, which keeps executing until it returns or panics.
Nothing is assumed about whether anybody ever calls `flush`. `FairSpec` of `Dispatch` has
weak fairness of the steps of a frame which has begun, on the same ground; it does not
make a program begin one, register behaviours or clear its lists. `MaxEvents` bounds the
events fired before a clear, so `FrameEnds` is a statement about behaviours which do not
fire for ever.

Every property is shown to bite: for each, `PROJECT.json` names a plausible bug ("mutant")
in a definition translated from the code under which TLC finds it violated. The
operators commented "Mutant" are used by nothing else. `CHECK_DEADLOCK FALSE` is in
configurations whose program may stop: nobody calls it, its bounds are used up, or it panicked.

## 4. What is proved

For every set of entities, tags, threads, slots and clients, every heap capacity and block size, and any bounds; the
theorems about the database for both builds. Their
assumptions are `DatabaseAssumption` (the placeholder is no entity, the first heap has a
slot), `SetMapAssumption` (the root is one of the pointers), `TagIntersectionAssumption` (indices are naturals, there is one), `ArenaAssumption` (an
arena slot has at least one generation), `BlockAssumption` (a block has a slot; the values for "none" are
none of the values they stand beside), `HeapAssumption`, `NoneAssumption` (lengths and bounds are naturals; `None` is no entity,
indirector or place), `StorageAssumption` (every entity is a client of the
allocator, a heap is a block's or a column's and as long), `BehaviorAssumption` (there are finitely many
dependencies), `QueryAssumption` (the archetypes of an intersection are finitely many, as the code has them in a
vector; a heap is some whole blocks long) and `DispatchAssumption` (behaviours depend on and resolve such; a query without tags wants every archetype; bounds are naturals).

| theorem | module | states |
|---|---|---|
| `SlotsMirrorTheorem` | `DatabaseProofs` | `Spec => []SlotsMirror` |
| `DeadClearedTheorem` | `DatabaseProofs` | `DeadCleared`: `DeadStayPut` and `DeadSwept` |
| `SpareTheorem` | `DatabaseProofs` | `SpareSlotsReset` |
| `TypeCorrect` | `DatabaseProofs` | `TypeOK`; no counter underflows |
| `VirtualCountTheorem` | `DatabaseProofs` | `VirtualCountExact`, with cardinalities |
| `RefsLiveTheorem`, `ContainersTheorem` | `DatabaseProofs` | `RefsLive`, `ContainersExact` |
| `DirtyTheorem` | `DatabaseProofs` | `NoFalseNegatives` |
| `QueryStabilityTheorem` | `DatabaseProofs` | `QueryStability` |
| `NoLeakTheorem` | `DatabaseProofs` | `NoLeakedArchetypes` |
| `PromiseTheorem` | `DatabaseProofs` | `Spec => KeepsPromise`: `Database` implements `EntityTags` |
| `RemovalTheorem`, `NeverStaleTheorem` | `DatabaseProofs` | `RemovalSpec => []RemovalAsCoded` for the `RemovalSpec` of `ArchetypeRemoval`, and `NeverStale` |
| `StorageIsDatabase` | `DbStorageProofs` | `StorageSpec => Spec` for the `Spec` of `Database` |
| `StorageTypeTheorem`, `ColumnsAlignedTheorem`, `HomesExactTheorem` | `DbStorageProofs` | `~Reentrant => (StorageSpec => []StorageTypeOK)`, and `ColumnsAligned`, `HomesExact` |
| `NoStaleColumnTheorem`, `MoveContractTheorem` | `DbStorageProofs` | `NoStaleColumn`, `MoveContract`, likewise |
| `EntriesTheorem`, `EdgesTheorem` | `SetMapProofs` | `Spec => []EntriesExact`, and `EdgesExact` |
| `GraphTheorem` | `SetMapProofs` | `Spec => ImplementsGraph`: `SetMap` implements `TagGraph` |
| `FlagTheorem`, `SearchTheorem`, `AdvancesTheorem` | `TagIntersectionProofs` | `FlagHonest`, `FoundExact`, `SearchAdvances` |
| `StateExactTheorem`, `ExclusionTheorem` | `TokenCellsProofs` | `Disciplined => (CellSpec => []StateExact)`, and `Exclusion` |
| `TokenExclusionTheorem` | `TokenCellsProofs` | `DebugBuild = TRUE => (TokenSpec => []TokenExclusion)` |
| `PartsTheorem` | `TokenCellsProofs` | `Spec => CellSpec /\ TokenSpec`: the composition is a behaviour of each part |
| `ReferencesTheorem` | `TokenCellsProofs` | `Disciplined => (Spec => []ReferencesStable)` |
| `ReservationsTheorem`, `NoBlockLostTheorem` | `BlockAllocatorProofs` | `AllocatorSpec => []ReservationsExact`, and `NoBlockLost` |
| `ArenaTheorem` | `BlockAllocatorProofs` | `AllocatorSpec => []ArenaExact` |
| `StorageAllocatorTheorem` | `BlockAllocatorProofs` | `Spec => AllocatorSpec` for the `Spec` of `SlotStorage`, and with it the three properties |
| `HandleTheorem`, `GuardsTheorem`, `PointersTheorem` | `SlotStorageProofs` | `Spec => []HandleExact` for the `Spec` of `SlotStorage`, and `GuardsValid`, `PointersMutual` |
| `ListTheorem`, `OrderTheorem` | `DispatchProofs` | `Spec => []BehaviorInv` for the `Spec` of `Dispatch`, and with it `BehaviorsOrdered` |
| `QueryTheorem`, `VisitedTheorem` | `DispatchProofs` | `Spec => []QueryInv`, and with it `VisitedExact` |
| `EventTheorem`, `HandledTheorem` | `DispatchProofs` | `Spec => []EventInv`, and with it and `BehaviorInv` `HandledOnce` |

**The slots.** `SlotsMirror` alone is not inductive. `SlotInv` adds (1) `SlotTypes`: lists
are well formed (`ListOK`: all heaps but the last are full, no heap is empty), or a swap-remove
could read past the end; (2) `DeadOK`: a dead record either still points at its entity or
at a place beyond the end of the list, each dead entity has one record, and none is left
in the later loops. The second half is what makes the test at `database.rs:797-802` right:
pruning may have taken the entity out already, and then its slot must lie *after* the
last alive one, not merely be reused; (3) `RootUnlisted`: the root archetype has no list.
The first part of `DatabaseProofs` holds what the list operators do, each stated once: `SetAt`,
`Cut`, `PopBack`, `PushBack`, `Vacated`, `Pruned` keep lists well formed, and say which
slots are in use afterwards and what they hold. The step lemmas
then follow action by action.

**The graph.** `Inv` in `DatabaseProofs` is `SlotInv` with exact counters, live references and
exact containers. They depend on one another: that an archetype removed is not referenced
(`RefsLive`) needs the counter to be exact (an entity virtually there keeps
it above 0) and the mirror (an entity physically there keeps its list nonempty); that the
counter never underflows needs it to be exact. All removals go through `SetGraph` with sets of
unused archetypes (`ObsoleteUnused`), so one lemma covers despawn, retag and the deletion loop.

**Spare slots.** That the slots past the end hold the placeholder (`SpareSlotsReset`) needs only the last
heap of a list to be looked at (`TailReset`), as `ListOK` says every other one is full. A cut resets
the slots it gives up in the heap which becomes the last (`CutTail`); a heap given up whole is dropped.

**No leak.** `CanRemoveArchetype` speaks of the archetypes which extend another, so removing one may
make another removable. `rec_remove_stepping_stone_arches` follows the edges down from the archetype it is asked about;
`NothingLeftBehind` says that this is enough: whatever can be removed afterwards could
be removed before. A flush adds an archetype to `del` when it takes the last entity out of its list, and no other
step takes a reason to stay away without asking (`LeakStep`).

**The recursion.** `RemovalInv` looks at the stack in the middle of a removal. Nothing has gone which should not:
what is gone was unused, and everything behind it went before it (`Justified`), so it is part of the
fixpoint. What has yet to go is on the stack: an archetype which can be removed now, and had something
behind it when the outermost call was made, is still to be looked at by some call (`Due`). When the stack is used up nothing is
due, and then the fixpoint holds no more: of the archetypes of a closed set which are left, one which no other of
them contains would be due (`MaximalMember`). That no call meets what an inner one has removed is a matter of levels:
what the i-th call has to look at is exactly i tags short of the argument of the outermost (`Below`), so an inner
call removes smaller archetypes only.

**The promise.** The abstract flush happens at `FlushBegin`. Until `FlushEnd` the lists are in pieces, and the
mapping shows the tags instead; that they can be shown again at the end is `ListsShowTags`: the dirty list
is used up (`Drained`) and complete (`NoFalseNegatives`), so every entity is physically where it is virtually,
and the mirror says that the lists agree.

**The component storage.** `StorageSpec => Spec` comes first: every step of the storage is one of the database
or leaves it alone, so `Inv` holds of it. `StorageInv` adds three parts. (1) `StorageOK`: cells and homes
mirror each other; the owner of a cell is alive and has its place there, or it is a dead entity whose
destructor is still to run and which waits in the dead queue with this very place (`OwnerOK`). (2) `SizesOK`: every heap
of a list and of a column has twice the size of the one before (`Fits`). This is what
makes the late truncation right: in the middle of a flush a list may give up heaps and regrow them before the
column, which is cut at the end only, has followed; the regrown heap has the size of the old one, so
the column fits it again. A column is longer than its list only in the loops of a flush, and then the
flush has noted it for truncation. (3) `OwnersOK`: which entities have a component at all. The lemmas about
single cells (`DifferAt`, `MovedAs`, `OneFills`) keep the nested updates out of the step proofs.
The hypothesis `~Reentrant` says that no `Drop` of a component uses the database while `destroy` is
underway. It is needed: with it false `MoveContract` is violated (section 6, run `storage_reentrant`).

**The SetMap.** `SetMapInv` is the two properties and that the root stays. Every operation is one of three kinds:
it adds a self loop (`Looping`), it joins two entries whose key lists differ by the key, one of them perhaps
new (`Linking`), or it removes an entry with all its edges. That a freed index leaves no edge is what makes its reuse safe.
The lookup paths of `lookup_extension` and
`lookup_de_extension` differ in order and in what they cache, and the lemmas `ExtensionLinks` and `DeExtensionLinks` bring
both to these kinds. `GraphTheorem` then reads the abstract sets and edges off the
entries (`EdgesAsRead`); as no two entries have the same keys, removing one removes one set.

**The search.** `Inv` in `TagIntersectionProofs` adds `Registered` (a container holds the
archetypes with its tag, once each) and the loop invariants: `ItersInv` (every iterator
is an ascending rest of its container), `ScanInv` and `CompareInv` (whatever is wanted
is reported, is the archetype being compared, or is ahead of every iterator). The last
holds across `Skip` as the element passed over is smaller than all that are to come.
`AdvancesTheorem` is the termination argument: `Left` counts the loops to go, the primary archetypes, the
elements left to the other iterators (`Places`, as a set, so that a step of one of them is a proper subset) and
the tags to sort by or to compare with, and every step makes it less where it first differs. `NoEndlessDescent` shows with
the library's well-founded products that this cannot go on for ever. The loop bounds (`WithinBounds`) keep the last count natural.

**Cells.** `Disciplined` is the hypothesis of these theorems: debug assertions are on,
and nobody borrows from a block which he holds mutably. Both are needed. Without the first,
the closure of `try_replace_with` may fill the slot it is about to fill
(`cell.rs:1083`); without the second, `Exclusion` is violated (section 6). `StateExact` does not
say that the readers and the writers of a slot are never there together, and without that
a byte of `NEUTRAL` could stand for one of each: the invariant `CellInv` is the two properties
together with the types, and that the guard of `try_replace_with` is the only one of its slot
(`ReplacingAlone`). It is proved slot by slot (`SlotSound`). That no carry from one byte reaches
the next slot when a block is borrowed is a lemma: a byte which overflows refuses the block.

**Tokens.** `TokenExclusion` follows from an exact tracker: its counter is the number of
exclusive tokens of its owner, or minus the number of shared tokens of all threads, and there
are none outside of a session. The sum over the threads is the cardinality of the set of tokens,
numbered thread by thread (`TokensOf`). The assumption that debug
assertions are on is needed because `read_token` looks for an owner in a `debug_assert!` only.

**The composition.** A step of `TokenCells` is one of the block or one of the tokens and leaves
the other part alone (`PartsTheorem`), so both invariants carry over. `ReferencesStable` needs
both and a third, `Referenced`: a thread with a reference holds a shared token, so nobody may write
(`TokenExclusion`), and the byte is `NEUTRAL`, which tells that nobody borrows (`StateExact`).

**The allocator.** `AllocatorInv` puts together what the three properties say of the arena, of the
reservations and of the waiting blocks, with the types. The first is strengthened: the generation of a
slot is the last it was given out with (`IssuedOK`), so one more is new, and the free list holds, once each,
the slots which are vacant and have a generation left (`FreeOK`). `Alloc` takes a free slot of
a block with room, since the hammered block is never full and a waiting one is never full; `Dealloc`
of the last slot of a waiting block takes it out of the list by a swap-remove, and the block which fills its
place learns its new index (`Perturbed`): that every other block is still at its own index is the
heart of the proof (`BlockShrinks`). Clients are matched with slots by the equality of
reservations, so nothing is counted. A storage call reserves or gives back at most once
(`CallsAllocator`), so all of it holds in `SlotStorage` too.

**Handles and heaps.** None of `HandleExact`, `GuardsValid` and `PointersMutual` is inductive: a handle stays exact
only if the indirectors are, and a borrowed value stays only if the slot is not reserved a second time.
`StorageInv` in `SlotStorageProofs` is
`AllocatorInv` and four parts. (1) `Sound`: pointers and slots belong together (`Mutual`),
nobody owns an indirector which is free or not made yet (`Disowned`), and handles, homes and contents agree
(`Exact`). (2) `Sized`: a heap is there whole or not at all, and that of a block exactly while the block is live,
which is why `alloc` finds a heap in a block it takes up again and why dropping the
heap of a block given back is right. (3) `PlacesOK`: no two entities have the same position, and a
component is in a reserved slot exactly if its entity has no position. (4) What is borrowed is filled.
The heap operations are functions of a record, and each has a lemma about any sound record
(`SetPairOK`, `ClearPairOK`, `SwapSlotsOK`, `DroppedOK`, `NewHeapOK`); a storage call is then two or three of these
in a row with a call of the allocator. The allocator's part is needed twice: a slot just reserved
is nobody's home, as no two reservations are equal (`ReservedFree`), and a block given back
is nobody's home either, as every reservation is of a live block (`UnreserveOK`).

**The ordered lists.** `BehaviorInv` says what the counters of a sort under way mean. With `Rest` the behaviours
not in the order yet, a behaviour's counter is the number of the dependencies it waits for which some behaviour of
`Rest` resolves (`Awaited`), a dependency's is the number of those in `Rest` resolving it, and the ready ones are those
of `Rest` who wait for nothing. The code starts from `dep_count` less the dependencies nobody resolves, and takes
one off when the last resolver of a dependency is done: `BeginOK` and `Propagated` show that these are the
same numbers. No counter goes below zero, as whoever is ready still counts as a resolver (`NoUnderflow`).
The order built so far is closed under what it depends on (`Prefix`). In the end nobody is ready. If nobody is left
the order is complete, by counting (`AllInOrder`). If somebody is left everybody left waits for another of them, and
any order at all would have a first of them, who waits for a later one: there is none, so the panic is right
(`NoneLeftOver`). Both need `dependents_on` to be exact (`Counted`), which every push keeps and `extend` does not.

**The walk.** `QueryInv` says that the places visited, those of the block being walked and those of the blocks
still to come are each place occupied at the start once (`Walking`, `Covers`): visiting takes from the second to the first, entering a
block from the third to the second, and at the end only the first is left. Its hard part is the start,
`WalkCovers`: that the blocks which `BlocksOf` cuts a heap into are its occupied slots
(`HeapCovered`), with the last, partial block of the last heap, by division with rest
(`Division`, `QuotientUnique`), and that heaps and then archetypes put one after the other are all of them
(`FlattenCovers`). What a flattened sequence holds is a fact about a fold; it is proved with the
prefixes of the fold and a least counterexample (`Earliest`), for the induction rules are out of reach of the provers.

**The drain.** `HandledOnce` counts calls of bodies and says nothing of lists, positions or versions, and none of it is
inductive. `EventInv` adds three things. (1) Every event fired is in the list of its type of one of the two groups,
once (`FiledOnce`). (2) The books (`Ledger`): a behaviour has handled an event only if it has taken it,
that is, if the event is before its position in that list, and what it has taken and was to handle it has handled, unless
it is in the batch it is just going through, or a drain was broken off. What a batch adds (`LedgerTakes`) is what was behind
the position, so it was never handled: the position is what keeps the rounds, drains and
frames until a clear from handling twice. (3) The rounds (`Rounds`, `Noticed`): in a call, the behaviours run so far have taken
all of the side which is read, as bodies fire only into the other; after the first call, the other side has either
a version larger than the one noted, or nothing which was not taken. So when neither version has grown there is
nothing left on either side. That the versions are noted after the first call, before the second, is what
this rests on. `BehaviorInv` is needed at the end: the order has every behaviour of the list in it.

All invariants were model-checked before they were proved.

**Only model-checked**: liveness (`FlushTerminates`, `SearchTerminates`, `FrameEnds`; out of reach of the
prover). For `SearchTerminates` the descent is proved (above); that fairness makes the steps happen, and that
one of them can until the search is done (`ENABLED`), is what TLC adds.

## 5. Reading a flush in the model

`FlushBegin` (refused while a query runs) -> `FlushDead`* -> `FlushDeadDone` -> (`FlushSkip` |
`FlushMove`)* -> `FlushTruncate` -> `FlushDelete`* -> `FlushEnd`. `may_need_truncation` and
`may_need_arch_deletion` are the variables `trunc` and `del`. `FlushDelete(S)` takes any
element of `del`, as the code iterates over a hash set.

## 6. Findings

1. **The deletion loop looks up archetypes it has already removed** (`database.rs:1039`, run
   `flush_panics`). When two archetypes are emptied by one flush and one is the stepping
   stone of the other, removing the larger one removes the smaller one recursively; if
   the hash set yields the smaller one later, `can_remove_archetype` calls `get_aba`
   on a freed index and panics "slot is empty". The trace needs two entities: one tagged
   a, one tagged a then b; flush; destroy both; flush.
2. **A flush from a component's `Drop` breaks the move contract** (`database.rs:1383`, run
   `storage_reentrant`). `destroy` takes the entity out of the database and then runs the
   destructors one by one. A `Drop` which flushes while another component of the entity
   is still in its slot makes the swap-replace move the filler's component onto an owned slot.
   The run `storage` shows that without re-entrance the contract holds.
3. **A block borrowed mutably looks like a block which is read** (`cell.rs:1179`, run
   `block_alias`). `try_borrow_all_mut` writes `NEUTRAL + 1` into every byte, and
   a `borrow` of one of the slots is then granted, next to the `MultiOptRefMut`. Queries over mutable
   components borrow complete blocks this way (`query.rs:1042-1050`), so a body which gets the
   component of another entity in its block, or of the same, has a shared reference
   to what another reference may write. The run `token_cells` shows that without
   this the cells keep their promise.

After the panics of 1 and 2 the models stop (`Panicked`, `Stopped`): what a caller which
catches the unwinding would find is not modelled.

The following two were met with other values of the constants, or on reading; they have no run of their own.

* **Without debug assertions.** Two checks are assertions of debug builds only. With `DebugAssertions = FALSE` and
  `DebugBuild = FALSE` in `MCTokenCells.cfg`, TLC finds `StateExact`, checked alone, violated in 7 states: the closure of
  `try_replace_with` on an empty slot fills and borrows it, and the value it returns is then written over the first, with
  `NEUTRAL` in the byte although a guard is there (`cell.rs:1083`; the comment at `cell.rs:34` says that
  `NEUTRAL` is "present and unborrowed"). `TokenExclusion`, alone, is
  violated in 5: `read_token` hands out a shared token while another of the type is exclusive (`token.rs:494`;
  `token.rs:20` says exclusive access "means that only one thread has access"). So the runs and theorems
  about cells and tokens are about debug builds.
* **`MultiOptRefCell::get_mut`** (`cell.rs:807-819`, public through `NMultiOptRefCell::get_mut`) takes the next place
  from an iterator over the values for a full slot, but none for an empty one. On a block whose slot 0 is
  empty and slot 1 full it returns slot 0's place, which was never written, as the value of slot 1.
  `into_inner` just above it indexes the values and is right (action `IntoInner`).

## 7. Not modelled

* The macro layer of `query.rs`: compile-time code which expands to what is modelled. Queries
  without any part: their heaps are the unit type's, which pretend to be
  `usize::MAX` long. Drivers other than event lists: the repository has none.
* `CountingEvent`, `NopEvent`, `SimpleBehaviorList`, `InitializerBehaviorList`: nothing in the repository
  uses the first two and the last; a simple list is a vector run in order.
* `LeakyArena`, which only appends; `debug.rs`, `util/misc.rs`, `util/hash_map.rs` (read-only counters, names,
  type aliases); `core/random_iter.rs` and `util/iter.rs` by themselves (stateless adapters:
  `Walk` in `QueryIteration` is what the first do, set union what the second do); benches and examples.
* In `BorrowCell`, the wording of errors, the pointers `map` projects, and `get_mut`, which
  changes nothing (section 6).
* In `Heap`, `take`, `set_value` and `set_owner` called by whoever holds a `Slot`, and `clear_slots` other
  than by a heap's drop: nothing in the repository makes such calls, and the storage's mappings know nothing of them.
* In `Dispatch`, flushes between or within frames: a flush cannot run during a query
  (`QueryStability`), and between frames it would rename places.
* What a caller finds who catches a panic in the middle of a flush, of a drain, or of a call which would
  move or replace a borrowed component.
* `extend` of an ordered behaviour list is modelled as coded and then excepted from
  `BehaviorsOrdered` and from the completeness in `HandledOnce`: it takes over neither
  dependents nor resolvers, and says nowhere what it promises.

