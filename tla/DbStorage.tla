----------------------------- MODULE DbStorage ------------------------------
(***************************************************************************)
(* The storage of one component type T (DbStorageInner<T> of database.rs)  *)
(* on top of Database.  A component of an entity in an archetype managing  *)
(* T lives in a column parallel to the archetype's entity list, at the     *)
(* same heap and slot, so that a query can walk both in step; every other  *)
(* component lives in an anonymous block.  A flush moves the data along    *)
(* with the entities, inside the iteration which moves the entity.         *)
(*                                                                         *)
(* Destroying an entity takes it out of the alive map first and destroys   *)
(* its components afterwards.  "dtors" holds the entities whose component  *)
(* of type T is still to be destroyed.  A user's Drop of another component *)
(* may call back into the database in between ("Reentrant").               *)
(***************************************************************************)
EXTENDS Database

CONSTANTS
  ManagingTag,   \* the tags whose managed type is T
  Reentrant      \* whether components' Drop implementations use the database

ASSUME DbStorageAssumption ==
  /\ ManagingTag \subseteq Tag
  /\ Reentrant \in BOOLEAN

VARIABLES
  home,       \* mappings: where the component of each entity is, if it has one
  column,     \* heaps: for each archetype, the owners of the slots of its heaps
  comp_list,  \* the alive entities whose component list includes T
  dtors,      \* the dead entities whose component is still to be destroyed
  failed      \* an assertion of the storage code did not hold

storageVars == <<home, column, comp_list, dtors, failed>>
allVars == <<vars, storageVars>>

NoHome == [kind |-> "none", heap |-> 0, slot |-> 0]
Anonymous == [kind |-> "anonymous", heap |-> 0, slot |-> 0]
External(h, s) == [kind |-> "external", heap |-> h, slot |-> s]

StorageInit ==
  /\ Init
  /\ home = [e \in Entity |-> NoHome]
  /\ column = [S \in Arch |-> <<>>]
  /\ comp_list = {}
  /\ dtors = {}
  /\ failed = FALSE

Manages(S) == S \cap ManagingTag # {}

\* Mutant: every new heap has the size of the first.
GrownEvenly(col, l, n) ==
  [i \in 1 .. (IF Len(col) < n THEN n ELSE Len(col)) |->
     IF i \in DOMAIN col THEN col[i] ELSE [s \in 1 .. HeapMin |-> PLACEHOLDER]]

\* The heaps "col" extended to n, each as long as the entity heap beside it.
Grown(col, l, n) ==
  [i \in 1 .. (IF Len(col) < n THEN n ELSE Len(col)) |->
     IF i \in DOMAIN col THEN col[i] ELSE [s \in DOMAIN l.heaps[i] |-> PLACEHOLDER]]

\* Whether components of entities in S go to S's column: it has one, or is
\* about to get one.
HasColumn(S) == column[S] # <<>> \/ Manages(S)

\* No call reaches the database between a despawn and the destructors, but from
\* the destructors; and none once an assertion unwound through it.
Callable ==
  /\ dtors # {} => Reentrant
  /\ ~failed

-----------------------------------------------------------------------------
(* Components.                                                             *)

\* A component inserted over another one only replaces the value.
InsertComponent(e) ==
  LET at == info[e]
      S == at.phys
  IN
  /\ Callable
  /\ pc = "idle"
  /\ e \in alive
  /\ home[e] = NoHome
  /\ comp_list' = comp_list \cup {e}
  /\ IF HasColumn(S)
       THEN /\ home' = [home EXCEPT ![e] = External(at.heap, at.slot)]
            /\ LET grown == [column EXCEPT ![S] = Grown(@, list[S], at.heap)]
               IN column' = [grown EXCEPT ![S][at.heap][at.slot] = e]
       ELSE /\ home' = [home EXCEPT ![e] = Anonymous]
            /\ UNCHANGED column
  /\ UNCHANGED <<vars, dtors, failed>>

\* Mutant: a dead entity's component only leaves the mappings.
EmptiedIfAlive(e) ==
  [S \in Arch |-> [h \in DOMAIN column[S] |-> [s \in DOMAIN column[S][h] |->
     IF column[S][h][s] = e /\ e \in alive THEN PLACEHOLDER ELSE column[S][h][s]]]]

\* The slot of the component of e, wherever swaps have taken it, is emptied.
Emptied(e) ==
  [S \in Arch |-> [h \in DOMAIN column[S] |-> [s \in DOMAIN column[S][h] |->
     IF column[S][h][s] = e THEN PLACEHOLDER ELSE column[S][h][s]]]]

RemoveComponent(e) ==
  /\ Callable
  /\ pc = "idle"
  /\ e \in alive
  /\ home[e] # NoHome
  /\ home' = [home EXCEPT ![e] = NoHome]
  /\ column' = Emptied(e)
  /\ comp_list' = comp_list \ {e}
  /\ UNCHANGED <<vars, dtors, failed>>

\* One of run_dtors' destructors: remove_component on an entity already dead.
RunDtor(e) ==
  /\ pc = "idle"
  /\ ~failed
  /\ e \in dtors
  /\ dtors' = dtors \ {e}
  /\ home' = [home EXCEPT ![e] = NoHome]
  /\ column' = Emptied(e)
  /\ UNCHANGED <<vars, comp_list, failed>>

\* destroy(): the component list taken from the entity says what to destroy.
Destroy(e) ==
  /\ Callable
  /\ DespawnEntity(e)
  /\ dtors' = IF e \in comp_list THEN dtors \cup {e} ELSE dtors
  /\ comp_list' = comp_list \ {e}
  /\ UNCHANGED <<home, column, failed>>

-----------------------------------------------------------------------------
(* Flushing.                                                               *)

Storage == [home |-> home, column |-> column, failed |-> failed]

\* Mutant: the data stays in its old slot too.
MovedCopying(st, e, src, dst, h, s, l) ==
  LET was == st.home[e]
  IN IF was.kind = "none" \/ ~HasColumn(dst) THEN st
     ELSE [st EXCEPT !.home[e] = External(h, s),
                     !.column = [[@ EXCEPT ![dst] = Grown(@, l, h)]
                                    EXCEPT ![dst][h][s] = e]]

\* move_entity_into_empty_never_truncate: entity e, now at <<h, s>> of archetype
\* dst whose entity list is l, brings its component along from archetype src.
\* Slots are swapped, so whatever was in the new slot ends up in the old one; an
\* anonymous slot is given back after that.
Moved(st, e, src, dst, h, s, l) ==
  LET was == st.home[e]
      grown == [st.column EXCEPT ![dst] = Grown(@, l, h)]
      there == grown[dst][h][s]
      hasColumn == st.column[dst] # <<>> \/ Manages(dst)
  IN CASE was.kind = "none" -> st
       [] was.kind = "anonymous" /\ ~hasColumn -> st
       [] was.kind = "external" /\ ~hasColumn ->
            [st EXCEPT !.home[e] = Anonymous,
                       !.column[src][was.heap][was.slot] = PLACEHOLDER]
       [] was.kind = "anonymous" /\ hasColumn ->
            [home |-> [st.home EXCEPT ![e] = External(h, s)],
             column |-> [grown EXCEPT ![dst][h][s] = e],
             failed |-> st.failed \/ (DebugAssertions /\ there # PLACEHOLDER)]
       [] OTHER ->
            [home |-> [st.home EXCEPT ![e] = External(h, s)],
             column |-> [grown EXCEPT ![dst][h][s] = e,
                                      ![src][was.heap][was.slot] = there],
             failed |-> st.failed \/ (DebugAssertions /\
                          (there # PLACEHOLDER \/ grown[src][was.heap][was.slot] # e))]

SetStorage(st) ==
  /\ home' = st.home
  /\ column' = st.column
  /\ failed' = st.failed
  /\ UNCHANGED <<comp_list, dtors>>

\* The entity whose recorded location the last iteration changed, if any, moves
\* within its archetype.
Relocated(S) ==
  {e \in alive : info[e].phys = S /\ info'[e].phys = S
                 /\ <<info[e].heap, info[e].slot>> # <<info'[e].heap, info'[e].slot>>}

\* Mutant: the filler of a swap-remove leaves its component behind.
FilledNot(st, S) == st

\* The filler of a swap-remove in S, if there is one, brings its component.
Filled(st, S) ==
  IF Relocated(S) = {} \/ ~Manages(S) THEN st
  ELSE LET f == CHOOSE f \in Relocated(S) : TRUE
       IN Moved(st, f, S, S, info'[f].heap, info'[f].slot, list[S])

FlushDeadStorage ==
  /\ ~failed
  /\ FlushDead
  /\ SetStorage(Filled(Storage, Head(dead).arch))

FlushMoveStorage ==
  /\ ~failed
  /\ FlushMove
  /\ LET e == Head(dirty)
         src == info[e].phys
         dst == info[e].virt
         arrived == IF Manages(src) \/ Manages(dst)
                      THEN Moved(Storage, e, src, dst, info'[e].heap, info'[e].slot, list'[dst])
                      ELSE Storage
     IN SetStorage(IF src = Root THEN arrived ELSE Filled(arrived, src))

\* Mutant: emptied archetypes keep their column.
TruncatedNonEmpty(S) ==
  IF Manages(S) /\ list[S].heaps # <<>> /\ Len(column[S]) > Len(list[S].heaps)
    THEN SubSeq(column[S], 1, Len(list[S].heaps)) ELSE column[S]

\* truncate_archetype_heap_len, called for the types the archetype manages.
Truncated(S) ==
  IF Manages(S) /\ Len(column[S]) > Len(list[S].heaps)
    THEN SubSeq(column[S], 1, Len(list[S].heaps)) ELSE column[S]

FlushTruncateStorage ==
  /\ ~failed
  /\ FlushTruncate
  /\ column' = [S \in Arch |-> IF S \in trunc THEN Truncated(S) ELSE column[S]]
  /\ UNCHANGED <<home, comp_list, dtors, failed>>

\* The actions of Database which leave the storage alone.
DatabaseOnly ==
  /\ UNCHANGED storageVars
  /\ ~failed
  /\ \/ /\ Callable
        /\ \/ \E e \in Entity : SpawnEntity(e)
           \/ \E e \in Entity, t \in Tag : TagEntity(e, t)
           \/ \E e \in Entity, t \in Tag : UntagEntity(e, t)
           \/ BeginQuery
           \/ EndQuery
           \/ FlushBegin
     \/ FlushDeadDone
     \/ FlushSkip
     \/ \E S \in del : FlushDelete(S)
     \/ FlushEnd

\* The program unwinds out of the flush.
Stopped == (failed \/ pc = "panicked") /\ UNCHANGED allVars

StorageNext ==
  \/ \E e \in Entity : InsertComponent(e)
  \/ \E e \in Entity : RemoveComponent(e)
  \/ \E e \in Entity : RunDtor(e)
  \/ \E e \in Entity : Destroy(e)
  \/ FlushDeadStorage
  \/ FlushMoveStorage
  \/ FlushTruncateStorage
  \/ DatabaseOnly
  \/ Stopped

StorageSpec == StorageInit /\ [][StorageNext]_allVars

-----------------------------------------------------------------------------
(* Properties.                                                             *)

\* Every variable has its type, and the heaps of a column are as long as the
\* entity heaps beside them: a query indexes both with the same slot.
StorageTypeOK ==
  /\ home \in [Entity -> [kind : {"none", "anonymous", "external"}, heap : Nat, slot : Nat]]
  /\ column \in [Arch -> Seq(Seq(Entity \cup {PLACEHOLDER}))]
  /\ comp_list \subseteq Entity
  /\ dtors \subseteq Entity
  /\ failed \in BOOLEAN
  /\ \A S \in Arch : \A h \in DOMAIN column[S] \cap DOMAIN list[S].heaps :
       Len(column[S][h]) = Len(list[S].heaps[h])

\* The owner recorded at a slot of S's column, if the slot exists.
Owners(S, h, s) ==
  IF h \in DOMAIN column[S] /\ s \in DOMAIN column[S][h] THEN {column[S][h][s]} ELSE {}

\* A query over an archetype walks its entities and its column of components in
\* step: at the slot of an entity is that entity's component, whenever it has
\* one, and never another's.
ColumnsAligned ==
  \A S \in Arch : Manages(S) => \A p \in Used(list[S]) :
    LET e == At(list[S], p) IN
    /\ Owners(S, p[1], p[2]) \subseteq {e, PLACEHOLDER}
    /\ e \in alive /\ home[e] # NoHome => Owners(S, p[1], p[2]) = {e}

\* A component is where the mapping says, exactly there, and in a column only
\* while its entity is in a managing archetype: neither the swaps nor the
\* truncation of heaps lose, duplicate or strand one.
HomesExact ==
  /\ \A e \in alive :
       /\ home[e] # NoHome <=> e \in comp_list
       /\ home[e].kind = "external" <=> home[e] # NoHome /\ Manages(info[e].phys)
       /\ home[e].kind = "external" =>
            Owners(info[e].phys, home[e].heap, home[e].slot) = {e}
  /\ \A e \in Entity : home[e] # NoHome => e \in alive \cup dtors
  /\ \A S \in Arch : \A h \in DOMAIN column[S] : \A s \in DOMAIN column[S][h] :
       LET e == column[S][h][s] IN
       e # PLACEHOLDER => home[e] = External(h, s) /\ (e \in alive => info[e].phys = S)

\* No column outlives the entity heaps beside it once the flush is over.  The
\* columns are keyed by arena index: a left-over one would be taken for that of
\* the next archetype given the index.
NoStaleColumn ==
  pc \in {"idle", "delete"} =>
    \A S \in Arch : Len(column[S]) <= Len(list[S].heaps)

\* "Ensure that the target slot is indeed ownerless as per contract"
\* (database.rs:1375-1390), and the assertion on the slot moved from.
MoveContract == ~failed
=============================================================================
