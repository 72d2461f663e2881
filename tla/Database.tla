------------------------------ MODULE Database ------------------------------
(***************************************************************************)
(* DbRoot (src/src/database.rs): alive entities, their tags, the           *)
(* archetypes grouping them, and the flush which moves entities between    *)
(* archetype lists.  Component storage is added by DbStorage.              *)
(*                                                                         *)
(* An archetype is named by its set of tags; the root archetype is the     *)
(* empty set.  Module SetMap models the arena, the hash map and the        *)
(* cached (de)extension edges which implement this naming.  Heap and slot  *)
(* indices count from 1 here and from 0 in the code.                       *)
(*                                                                         *)
(* A flush is one synchronous call, cut into one action per iteration of   *)
(* its loops; "pc" keeps every other operation out while it runs.          *)
(***************************************************************************)
EXTENDS Integers, Sequences, FiniteSets

CONSTANTS
  Entity,           \* the ids the uid generator may hand out
  Tag,
  PLACEHOLDER,      \* InertEntity::PLACEHOLDER, the content of an unused slot
  HeapMin,          \* capacity of an archetype's first entity heap (128 in the code)
  DebugAssertions,  \* cfg(debug_assertions)
  MaxDirty,         \* bound: length of the dirty list at which (un)tagging stops
  MaxQueries        \* bound: queries running at the same time

ASSUME DatabaseAssumption ==
  /\ PLACEHOLDER \notin Entity
  /\ HeapMin \in Nat \ {0}
  /\ DebugAssertions \in BOOLEAN
  /\ MaxDirty \in Nat
  /\ MaxQueries \in Nat

Root == {}
Arch == SUBSET Tag

VARIABLES
  spawned,     \* ids handed out so far (uid_gen never repeats one)
  alive,       \* the keys of alive_entities
  info,        \* alive_entities: the DbEntity of each alive entity
  archs,       \* the archetypes present in arch_map
  ext,         \* <<S, t>>: S caches an extension edge by t, and S \cup {t} the way back
  vcount,      \* DbArchetype::virtual_count
  list,        \* DbArchetype::entity_heaps and last_heap_len
  containers,  \* tag_map: the archetypes registered for each tag
  dirty,       \* probably_alive_dirty_entities
  dead,        \* dead_dirty_entities
  queries,     \* outstanding borrows of query_guard
  pc,          \* which loop of flush_archetypes is running
  trunc,       \* may_need_truncation
  del          \* may_need_arch_deletion

entityVars == <<spawned, alive>>
graphVars == <<archs, ext, containers>>
flushVars == <<pc, trunc, del>>
vars == <<spawned, alive, info, archs, ext, vcount, list, containers,
          dirty, dead, queries, pc, trunc, del>>

Index == Nat \ {0}
DbEntity == [virt : Arch, phys : Arch, heap : Index, slot : Index]
DbDirtyDeadEntity == [entity : Entity, arch : Arch, heap : Index, slot : Index]
Content == Entity \cup {PLACEHOLDER}
EntityList == [heaps : Seq(Seq(Content)), last : Nat]

NewEntity == [virt |-> Root, phys |-> Root, heap |-> 1, slot |-> 1]
EmptyList == [heaps |-> <<>>, last |-> 0]

Items(s) == {s[i] : i \in DOMAIN s}
Last(s) == s[Len(s)]
Front(s) == SubSeq(s, 1, Len(s) - 1)

Init ==
  /\ spawned = {}
  /\ alive = {}
  /\ info = [e \in Entity |-> NewEntity]
  /\ archs = {Root}
  /\ ext = {}
  /\ vcount = [S \in Arch |-> 0]
  /\ list = [S \in Arch |-> EmptyList]
  /\ containers = [t \in Tag |-> {}]
  /\ dirty = <<>>
  /\ dead = <<>>
  /\ queries = 0
  /\ pc = "idle"
  /\ trunc = {}
  /\ del = {}

-----------------------------------------------------------------------------
(* The archetype graph.                                                    *)

\* The archetypes S's cached extension edges lead to, itself left out.
Extensions(ex, S) == {S \cup {edge[2]} : edge \in {d \in ex : d[1] = S}}

\* Mutant: an archetype entities only have left virtually is given up.
UnusedVirtually(vc, ls, S) == S # Root /\ vc[S] = 0

\* Neither an entity in its list nor one meant to be in it after a flush.
Unused(vc, ls, S) == S # Root /\ ls[S].heaps = <<>> /\ vc[S] = 0

CanRemoveArchetype(ex, vc, ls, S) == Unused(vc, ls, S) /\ Extensions(ex, S) = {}

\* Mutant: the removal does not recurse.
SteppingStonesOne(ar, ex, vc, ls, S) == ar \cap {S}

\* rec_remove_stepping_stone_arches: S goes, then every unused archetype which
\* was only kept as a stepping stone to archetypes that go.  Module
\* ArchetypeRemoval models the recursion which computes this fixpoint.
SteppingStones(ar, ex, vc, ls, S) ==
  UNION {X \in SUBSET ar :
           \A T \in X : /\ Unused(vc, ls, T)
                        /\ Extensions(ex, T) \subseteq X
                        /\ T = S \/ Extensions(ex, T) # {}}

\* The archetypes to remove once S may have lost its last user.
Obsolete(ar, ex, vc, ls, S) ==
  IF CanRemoveArchetype(ex, vc, ls, S) THEN SteppingStones(ar, ex, vc, ls, S) ELSE {}

\* Mutant: removed archetypes stay in the containers of their tags.
SetGraphKeepsContainers(ar, ex, gone) ==
  /\ archs' = ar \ gone
  /\ ext' = {edge \in ex : edge[1] \notin gone /\ edge[1] \cup {edge[2]} \notin gone}
  /\ containers' = [t \in Tag |-> containers[t] \cup {S \in ar \ archs : t \in S}]

\* The graph becomes <<ar, ex>> without the archetypes in "gone".
SetGraph(ar, ex, gone) ==
  /\ archs' = ar \ gone
  /\ ext' = {edge \in ex : edge[1] \notin gone /\ edge[1] \cup {edge[2]} \notin gone}
  /\ containers' = [t \in Tag |->
       (containers[t] \cup {S \in ar \ archs : t \in S}) \ gone]

\* Mutants: the counter is never raised; never lowered.
AddVirtualOnlyDown(vc, S, n) == IF S = Root \/ n > 0 THEN vc ELSE [vc EXCEPT ![S] = @ + n]
AddVirtualOnlyUp(vc, S, n) == IF S = Root \/ n < 0 THEN vc ELSE [vc EXCEPT ![S] = @ + n]

\* The counter of the root archetype is never touched.
AddVirtual(vc, S, n) == IF S = Root THEN vc ELSE [vc EXCEPT ![S] = @ + n]

-----------------------------------------------------------------------------
(* Entities and tags.                                                      *)

SpawnEntity(e) ==
  /\ pc = "idle"
  /\ e \notin spawned
  /\ spawned' = spawned \cup {e}
  /\ alive' = alive \cup {e}
  /\ info' = [info EXCEPT ![e] = NewEntity]
  /\ UNCHANGED <<graphVars, vcount, list, dirty, dead, queries, flushVars>>

\* Mutant: the archetype recorded is the virtual one.
BuryAsVirtual(e, d) ==
  Append(dead, [entity |-> e, arch |-> d.virt, heap |-> d.heap, slot |-> d.slot])

\* The record of an entity which was alive as d.
BuryAs(e, d) ==
  Append(dead, [entity |-> e, arch |-> d.phys, heap |-> d.heap, slot |-> d.slot])

\* Mutant: only entities which still have a tag are queued for cleanup.
BuriedIfTagged(e) == IF info[e].virt = Root THEN dead ELSE BuryAs(e, info[e])

\* An entity with a slot is queued for cleanup, with the place it has now.
Buried(e) == IF info[e].phys = Root THEN dead ELSE BuryAs(e, info[e])

DespawnEntity(e) ==
  LET was == info[e]
      vc == AddVirtual(vcount, was.virt, -1)
  IN
  /\ pc = "idle"
  /\ e \in alive
  /\ alive' = alive \ {e}
  /\ info' = [info EXCEPT ![e] = NewEntity]
  /\ dead' = Buried(e)
  /\ vcount' = vc
  /\ SetGraph(archs, ext, Obsolete(archs, ext, vc, list, was.virt))
  /\ UNCHANGED <<spawned, list, dirty, queries, flushVars>>

\* Mutant: an entity which was dirty already is queued, a clean one is not.
BecameDirtyAgain(was, new) == was.phys # was.virt /\ was.phys # new

BecameDirty(was, new) == was.phys = was.virt /\ was.phys # new

\* tag_common once the new virtual archetype has been looked up; <<ar, ex>> is
\* the graph after the lookup.
SetVirtual(e, new, ar, ex) ==
  LET old == info[e].virt
      vc == AddVirtual(AddVirtual(vcount, old, -1), new, 1)
      becameDirty == BecameDirty(info[e], new)
  IN
  /\ becameDirty => Len(dirty) < MaxDirty
  /\ info' = [info EXCEPT ![e] = [@ EXCEPT !.virt = new]]
  /\ vcount' = vc
  /\ dirty' = IF becameDirty THEN Append(dirty, e) ELSE dirty
  /\ SetGraph(ar, ex, Obsolete(ar, ex, vc, list, old))
  /\ UNCHANGED <<spawned, alive, list, dead, queries, flushVars>>

TagEntity(e, t) ==
  LET old == info[e].virt
      new == old \cup {t}
  IN
  /\ pc = "idle"
  /\ e \in alive
  /\ IF t \in old THEN SetVirtual(e, old, archs, ext)
     ELSE SetVirtual(e, new, archs \cup {new}, ext \cup {<<old, t>>})

UntagEntity(e, t) ==
  LET old == info[e].virt
      new == old \ {t}
  IN
  /\ pc = "idle"
  /\ e \in alive
  /\ IF t \notin old THEN SetVirtual(e, old, archs, ext)
     ELSE SetVirtual(e, new, archs \cup {new}, ext \cup {<<new, t>>})

-----------------------------------------------------------------------------
(* Queries hold a shared borrow of query_guard from start to end.          *)

BeginQuery ==
  /\ pc = "idle"
  /\ queries < MaxQueries
  /\ queries' = queries + 1
  /\ UNCHANGED <<entityVars, info, graphVars, vcount, list, dirty, dead, flushVars>>

EndQuery ==
  /\ pc = "idle"
  /\ queries > 0
  /\ queries' = queries - 1
  /\ UNCHANGED <<entityVars, info, graphVars, vcount, list, dirty, dead, flushVars>>

-----------------------------------------------------------------------------
(* The entity list of an archetype: heaps of growing size, every one full  *)
(* but the last, which holds "last" entities.                              *)

HeapLen(l, h) == IF h = Len(l.heaps) THEN l.last ELSE Len(l.heaps[h])

Used(l) == UNION {{h} \X (1 .. HeapLen(l, h)) : h \in DOMAIN l.heaps}

At(l, p) == l.heaps[p[1]][p[2]]

SetAt(l, h, s, e) == [heaps |-> [l.heaps EXCEPT ![h][s] = e], last |-> l.last]

\* Mutant: the slots given up keep their entity.
CutUnreset(l, h, n) == [heaps |-> SubSeq(l.heaps, 1, h), last |-> n]

\* The list cut down to its first h heaps, the last of which holds n entities.
\* Debug builds reset the slots given up.
Cut(l, h, n) ==
  LET kept == SubSeq(l.heaps, 1, h)
      reset == [s \in DOMAIN l.heaps[h] |->
                  IF s > n THEN PLACEHOLDER ELSE l.heaps[h][s]]
  IN [heaps |-> IF DebugAssertions THEN [kept EXCEPT ![h] = reset] ELSE kept,
      last |-> n]

\* One entity less at the back; an emptied heap is popped.
PopBack(l) ==
  LET front == Front(l.heaps)
  IN IF l.last > 1 THEN Cut(l, Len(l.heaps), l.last - 1)
     ELSE [heaps |-> front, last |-> IF front = <<>> THEN 0 ELSE Len(Last(front))]

PushBack(l, e) ==
  LET lastCap == IF l.heaps = <<>> THEN 0 ELSE Len(Last(l.heaps))
      newCap == IF 2 * lastCap > HeapMin THEN 2 * lastCap ELSE HeapMin
      newHeap == [s \in 1 .. newCap |-> IF s = 1 THEN e ELSE PLACEHOLDER]
  IN IF l.last = lastCap
       THEN [heaps |-> Append(l.heaps, newHeap), last |-> 1]
       ELSE [heaps |-> SetAt(l, Len(l.heaps), l.last + 1, e).heaps, last |-> l.last + 1]

Before(p, q) == p[1] < q[1] \/ (p[1] = q[1] /\ p[2] <= q[2])

\* Mutant: the back of the list may be a dead entity.
PrunedNot(l) == l

\* The info of an entity whose slot is now <<h, s>>.
Placed(was, h, s) == [was EXCEPT !.heap = h, !.slot = s]

\* Pops dead entities off the back until an alive one is last.
Pruned(l) ==
  LET survivors == {p \in Used(l) : At(l, p) \in alive}
      back == CHOOSE p \in survivors : \A q \in survivors : Before(q, p)
  IN IF survivors = {} THEN EmptyList ELSE Cut(l, back[1], back[2])

\* After archetype S's list became l: which heap lists to shorten, and whether
\* the archetype lost its last entity.
NoteShrunk(S, l) ==
  /\ trunc' = IF Len(l.heaps) < Len(list[S].heaps) THEN trunc \cup {S} ELSE trunc
  /\ del' = IF l.heaps = <<>> /\ list[S].heaps # <<>> THEN del \cup {S} ELSE del

-----------------------------------------------------------------------------
(* flush_archetypes.                                                       *)

\* Mutant: running queries are ignored.
FlushBeginAnytime ==
  /\ pc = "idle"
  /\ pc' = "dead"
  /\ UNCHANGED <<entityVars, info, graphVars, vcount, list, dirty, dead, queries,
                 trunc, del>>

\* Refused with ConcurrentFlushError, no state touched, while a query runs.
FlushBegin ==
  /\ pc = "idle"
  /\ queries = 0
  /\ pc' = "dead"
  /\ UNCHANGED <<entityVars, info, graphVars, vcount, list, dirty, dead, queries,
                 trunc, del>>

\* One dead entity: prune the back of its archetype's list, and unless that
\* already took the entity out, move the last (alive) entity into its slot.
FlushDead ==
  /\ pc = "dead"
  /\ dead # <<>>
  /\ dead' = Tail(dead)
  /\ LET d == Head(dead)
         S == d.arch
         l == Pruned(list[S])
         filler == At(l, <<Len(l.heaps), l.last>>)
         gone == \/ d.heap = Len(l.heaps) /\ d.slot > l.last
                 \/ d.heap > Len(l.heaps)
         filled == PopBack(SetAt(l, d.heap, d.slot, filler))
     IN IF gone
          THEN /\ list' = [list EXCEPT ![S] = l]
               /\ NoteShrunk(S, l)
               /\ UNCHANGED info
          ELSE /\ list' = [list EXCEPT ![S] = filled]
               /\ NoteShrunk(S, filled)
               /\ info' = [info EXCEPT ![filler] = Placed(@, d.heap, d.slot)]
  /\ UNCHANGED <<entityVars, graphVars, vcount, dirty, queries, pc>>

FlushDeadDone ==
  /\ pc = "dead"
  /\ dead = <<>>
  /\ pc' = "alive"
  /\ UNCHANGED <<entityVars, info, graphVars, vcount, list, dirty, dead, queries,
                 trunc, del>>

\* Mutant: the queue is not drained.
FlushSkipKeeps == pc = "alive" /\ dirty # <<>> /\ UNCHANGED vars

\* A queued entity which died, or is where it should be, needs no move.
FlushSkip ==
  /\ pc = "alive"
  /\ dirty # <<>>
  /\ LET e == Head(dirty) IN e \notin alive \/ info[e].phys = info[e].virt
  /\ dirty' = Tail(dirty)
  /\ UNCHANGED <<entityVars, info, graphVars, vcount, list, dead, queries, flushVars>>

\* Entity e's info once it has been pushed to its virtual archetype.  The root
\* keeps no list, and an entity moved there keeps its old indices.
Arrived(e) ==
  LET was == info[e]
      dst == PushBack(list[was.virt], e)
  IN IF was.virt = Root THEN [was EXCEPT !.phys = Root]
     ELSE Placed([was EXCEPT !.phys = was.virt], Len(dst.heaps), dst.last)

\* Mutant: the last entity leaves instead.
VacatedBack(l, h, s) == PopBack(l)

\* The list entity e leaves: unless it was last, the last entity takes its slot.
Vacated(l, h, s) == PopBack(SetAt(l, h, s, At(l, <<Len(l.heaps), l.last>>)))

FlushMove ==
  /\ pc = "alive"
  /\ dirty # <<>>
  /\ dirty' = Tail(dirty)
  /\ LET e == Head(dirty)
         src == info[e].phys
         dst == info[e].virt
         h == info[e].heap
         s == info[e].slot
         filler == At(list[src], <<Len(list[src].heaps), list[src].last>>)
         left == Vacated(list[src], h, s)
         entered == IF dst = Root THEN list
                    ELSE [list EXCEPT ![dst] = PushBack(@, e)]
         moved == [info EXCEPT ![e] = Arrived(e)]
     IN /\ e \in alive
        /\ src # dst
        /\ IF src = Root
             THEN /\ list' = entered
                  /\ info' = moved
                  /\ UNCHANGED <<trunc, del>>
             ELSE /\ list' = [entered EXCEPT ![src] = left]
                  /\ info' = IF filler = e THEN moved
                             ELSE [moved EXCEPT ![filler] = Placed(@, h, s)]
                  /\ NoteShrunk(src, left)
  /\ UNCHANGED <<entityVars, graphVars, vcount, dead, queries, pc>>

\* The storages are cut to the length of the entity lists here; see DbStorage.
FlushTruncate ==
  /\ pc = "alive"
  /\ dirty = <<>>
  /\ pc' = "delete"
  /\ trunc' = {}
  /\ UNCHANGED <<entityVars, info, graphVars, vcount, list, dirty, dead, queries, del>>

\* may_need_arch_deletion is a hash set: its iteration order is arbitrary here.
\* An archetype already removed as a stepping stone of another is looked up all
\* the same, and the arena panics on its empty slot.
FlushDelete(S) ==
  /\ pc = "delete"
  /\ S \in del
  /\ del' = del \ {S}
  /\ IF S \in archs
       THEN /\ SetGraph(archs, ext, Obsolete(archs, ext, vcount, list, S))
            /\ pc' = pc
       ELSE /\ pc' = "panicked"
            /\ UNCHANGED graphVars
  /\ UNCHANGED <<entityVars, info, vcount, list, dirty, dead, queries, trunc>>

FlushEnd ==
  /\ pc = "delete"
  /\ del = {}
  /\ pc' = "idle"
  /\ UNCHANGED <<entityVars, info, graphVars, vcount, list, dirty, dead, queries,
                 trunc, del>>

\* The program unwinds out of the flush.
Panicked == pc = "panicked" /\ UNCHANGED vars

FlushStep ==
  \/ FlushDead
  \/ FlushDeadDone
  \/ FlushSkip
  \/ FlushMove
  \/ FlushTruncate
  \/ \E S \in del : FlushDelete(S)
  \/ FlushEnd

Next ==
  \/ \E e \in Entity : SpawnEntity(e)
  \/ \E e \in Entity : DespawnEntity(e)
  \/ \E e \in Entity, t \in Tag : TagEntity(e, t)
  \/ \E e \in Entity, t \in Tag : UntagEntity(e, t)
  \/ BeginQuery
  \/ EndQuery
  \/ FlushBegin
  \/ FlushStep
  \/ Panicked

Spec == Init /\ [][Next]_vars

\* A flush is a synchronous call: once started, it keeps executing.
FairSpec == Spec /\ WF_vars(FlushStep)

-----------------------------------------------------------------------------
(* Properties.                                                             *)

\* Every variable has its type.  virtual_count in particular never goes below
\* zero: it is a u64, decremented without a check on every retag and despawn.
TypeOK ==
  /\ spawned \subseteq Entity
  /\ alive \subseteq spawned
  /\ info \in [Entity -> DbEntity]
  /\ archs \subseteq Arch
  /\ ext \subseteq Arch \X Tag
  /\ vcount \in [Arch -> Nat]
  /\ list \in [Arch -> EntityList]
  /\ containers \in [Tag -> SUBSET Arch]
  /\ dirty \in Seq(Entity)
  /\ dead \in Seq(DbDirtyDeadEntity)
  /\ queries \in Nat
  /\ pc \in {"idle", "dead", "alive", "delete", "panicked"}
  /\ trunc \subseteq Arch
  /\ del \subseteq Arch

\* virtual_count is exact: it counts the alive entities whose virtual archetype
\* this is, whatever the (un)tagging, despawning and flushing in between.  The
\* removal of archetypes relies on it (can_remove_archetype).
VirtualCountExact ==
  \A S \in Arch \ {Root} : vcount[S] = Cardinality({e \in alive : info[e].virt = S})

\* No reference to an archetype dangles: neither an alive entity nor a dead one
\* waiting for its cleanup, nor an entity list, nor an edge of the graph names
\* an archetype already given back to the arena (whose index may be reused).
RefsLive ==
  /\ \A e \in alive : info[e].virt \in archs /\ info[e].phys \in archs
  /\ \A d \in Items(dead) : d.arch \in archs
  /\ \A S \in Arch \ archs : list[S].heaps = <<>>
  /\ \A edge \in ext : edge[1] \in archs /\ edge[1] \cup {edge[2]} \in archs

\* The location an entity records and the content of the lists mirror each
\* other through every swap-remove: an alive entity is in the slot it records,
\* and a slot in use belongs to the one alive entity recording it or to a dead
\* one still waiting for its cleanup.
SlotsMirror ==
  /\ \A e \in alive :
       LET p == <<info[e].heap, info[e].slot>>
           l == list[info[e].phys]
       IN info[e].phys # Root => p \in Used(l) /\ At(l, p) = e
  /\ \A S \in Arch : \A p \in Used(list[S]) :
       LET e == At(list[S], p)
       IN IF e \in alive
            THEN info[e].phys = S /\ <<info[e].heap, info[e].slot>> = p
            ELSE [entity |-> e, arch |-> S, heap |-> p[1], slot |-> p[2]] \in Items(dead)

\* A dead entity never moves and nothing takes its place until its own cleanup
\* (database.rs:797-799 and the assertion at 812).
DeadStayPut ==
  \A d \in Items(dead) :
    <<d.heap, d.slot>> \in Used(list[d.arch])
      => At(list[d.arch], <<d.heap, d.slot>>) = d.entity

\* Once the dead entities are processed, every list holds alive entities only:
\* the loop over the alive ones unwraps on that (database.rs:970-974).
DeadSwept ==
  pc \in {"alive", "delete"} =>
    \A S \in Arch : \A p \in Used(list[S]) : At(list[S], p) \in alive

\* A dead entity is where its record says until its own cleanup, and no cleanup is
\* left out.
DeadCleared == DeadStayPut /\ DeadSwept

\* In debug builds a slot not in use holds the placeholder, as the assertion
\* made before a slot is taken expects (database.rs:893-898).
SpareSlotsReset ==
  DebugAssertions =>
    \A S \in Arch : \A h \in DOMAIN list[S].heaps : \A s \in DOMAIN list[S].heaps[h] :
      <<h, s>> \notin Used(list[S]) => list[S].heaps[h][s] = PLACEHOLDER

\* No entity is forgotten: as long as it is not where its tags say, it is in
\* the list the next flush goes through.  (The list may hold more than that.)
NoFalseNegatives ==
  \A e \in alive : info[e].phys # info[e].virt => e \in Items(dirty)

\* No archetype is leaked: one with no entity, physical or virtual, and no
\* larger archetype behind it is gone, or will be at the end of this flush.
NoLeakedArchetypes ==
  \A S \in archs : CanRemoveArchetype(ext, vcount, list, S) => S \in del

\* tag_map lists for each tag exactly the archetypes with that tag: queries
\* find their archetypes there and nowhere else.
ContainersExact ==
  \A t \in Tag : containers[t] = {S \in archs : t \in S}

\* What a query iterates over does not change under it: while one is running,
\* no call touches the entity lists or removes an archetype which has one.
QueryStability ==
  [][queries > 0 => /\ list' = list
                    /\ \A S \in archs : list[S].heaps # <<>> => S \in archs']_vars

\* A flush which starts ends, by returning or by panicking.
FlushTerminates == pc = "dead" ~> pc \in {"idle", "panicked"}

\* The flush never reaches its panic: "Destroy archetypes which no longer
\* exist" (database.rs:1035) finds every archetype it looks up.
NoPanic == pc # "panicked"

\* Where the lists say an entity is: the tags of the archetype listing it.
Listed(e) == UNION {S \in Arch : \E p \in Used(list[S]) : At(list[S], p) = e}

VirtualTags == [e \in Entity |-> IF e \in alive THEN info[e].virt ELSE {}]

\* The promise of EntityTags is kept: a whole flush is one abstract step, taken
\* when it begins, and at its end the lists show exactly the tags of that moment.
Promise == INSTANCE EntityTags WITH
  tags <- VirtualTags,
  listed <- IF pc = "idle" THEN [e \in Entity |-> Listed(e)] ELSE VirtualTags

KeepsPromise == Promise!Spec
=============================================================================
