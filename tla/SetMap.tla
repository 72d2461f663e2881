------------------------------- MODULE SetMap -------------------------------
(***************************************************************************)
(* SetMap (src/src/util/set_map.rs) over a FreeListArena: sets of keys     *)
(* found from one another through cached edges, by way of a hash map when  *)
(* no edge is cached yet.  An arena index is reused as soon as it is free; *)
(* the Aba pointers stored in the edges carry no generation, so an edge    *)
(* which outlived its target would lead to whatever set came next.         *)
(*                                                                         *)
(* The two edge maps of an entry are sets of triples here: <<p, k, q>> in  *)
(* "extensions" says that entry p maps key k to q.                         *)
(***************************************************************************)
EXTENDS Naturals, FiniteSets

CONSTANTS
  Key,
  Ptr,      \* the arena indices; their number bounds the sets alive at once
  root

ASSUME SetMapAssumption == root \in Ptr

VARIABLES
  arena,          \* the occupied indices
  keys,           \* SetMapEntry::keys: how often each key occurs in the list
  extensions,
  de_extensions,
  map             \* the entries of the hash map

vars == <<arena, keys, extensions, de_extensions, map>>

NoKeys == [k \in Key |-> 0]

Init ==
  /\ arena = {root}
  /\ keys = [p \in Ptr |-> NoKeys]
  /\ extensions = {}
  /\ de_extensions = {}
  /\ map = {root}

-----------------------------------------------------------------------------

\* Insertion in the edge map of p: an edge by the same key is replaced.
Insert(edges, p, k, q) ==
  {edge \in edges : <<edge[1], edge[2]>> # <<p, k>>} \cup {<<p, k, q>>}

\* The edges of entry p.
From(edges, p) == {edge \in edges : edge[1] = p}

\* iter_ctor of lookup_extension merges one more k into the list, a k already
\* there or not; that of lookup_de_extension filters all of them out.
Merged(ks, k) == [ks EXCEPT ![k] = @ + 1]
Filtered(ks, k) == [ks EXCEPT ![k] = 0]

\* Mutant: a no-op lookup is cached in both senses.
LinkBothWays(positive, negative, p, k, q) ==
  <<Insert(positive, p, k, q), Insert(negative, q, k, p)>>

\* Mutant: the way back is not cached.
LinkPositive(positive, negative, p, k, q) == <<Insert(positive, p, k, q), negative>>

\* The two maps once the edge from p to q is cached: in the positive sense, and
\* in the negative sense unless it is a self loop.
Link(positive, negative, p, k, q) ==
  <<Insert(positive, p, k, q),
    IF p = q THEN negative ELSE Insert(negative, q, k, p)>>

\* Mutant: a new entry has no self loops.
SelfLoopsNone(q, ks) == {}

\* The edges entry q is given, if it is new, for the keys it has.
SelfLoops(q, ks) ==
  IF q \in map THEN {} ELSE {<<q, k, q>> : k \in {k \in Key : ks[k] > 0}}

Cached(positive, p, k) == {edge \in positive : edge[1] = p /\ edge[2] = k}

\* Mutant: a set which exists is created again.
TargetsNew(ks) == Ptr \ arena

\* The entry of the hash map with exactly these keys, or else any free index.
Targets(ks) ==
  LET known == {q \in map : keys[q] = ks}
  IN IF known # {} THEN known ELSE Ptr \ arena

\* The entry is in the arena and in the hash map, found there or created.
Present(q, ks) ==
  /\ arena' = arena \cup {q}
  /\ keys' = [keys EXCEPT ![q] = ks]
  /\ map' = map \cup {q}

LookupExtension(p, k) ==
  /\ p \in arena
  /\ IF Cached(extensions, p, k) # {} THEN UNCHANGED vars
     ELSE LET ks == Merged(keys[p], k) IN
          \E q \in Targets(ks) :
            LET linked == Link(extensions, de_extensions, p, k, q) IN
            /\ Present(q, ks)
            /\ extensions' = linked[1] \cup SelfLoops(q, ks)
            /\ de_extensions' = linked[2]

LookupDeExtension(p, k) ==
  /\ p \in arena
  /\ IF Cached(de_extensions, p, k) # {} THEN UNCHANGED vars
     ELSE LET ks == Filtered(keys[p], k) IN
          \E q \in Targets(ks) :
            LET linked == Link(de_extensions, extensions, p, k, q) IN
            /\ Present(q, ks)
            /\ de_extensions' = linked[1]
            /\ extensions' = linked[2] \cup SelfLoops(q, ks)

\* Mutant: only the entry's own edges go.
WithoutOwn(edges, back, p) == edges \ From(edges, p)

\* "edges" once entry p is gone, with the back-references which p's edges in
\* the other sense ("back") point out.
Without(edges, back, p) ==
  {edge \in edges : /\ edge[1] # p
                    /\ <<p, edge[2], edge[1]>> \notin back}

Remove(p) ==
  /\ p \in arena \ {root}
  /\ arena' = arena \ {p}
  /\ keys' = [keys EXCEPT ![p] = NoKeys]
  /\ extensions' = Without(extensions, de_extensions, p)
  /\ de_extensions' = Without(de_extensions, extensions, p)
  /\ map' = map \ {p}

Next ==
  \/ \E p \in Ptr, k \in Key : LookupExtension(p, k)
  \/ \E p \in Ptr, k \in Key : LookupDeExtension(p, k)
  \/ \E p \in Ptr : Remove(p)

Spec == Init /\ [][Next]_vars

-----------------------------------------------------------------------------
(* Properties.                                                             *)

\* Every variable has its type, and no entry's list holds a key twice, although
\* lookup_extension merges the new key in without looking for it.
TypeOK ==
  /\ arena \subseteq Ptr
  /\ keys \in [Ptr -> [Key -> {0, 1}]]
  /\ extensions \subseteq Ptr \X Key \X Ptr
  /\ de_extensions \subseteq Ptr \X Key \X Ptr
  /\ map \subseteq Ptr

\* "Every (de)extension link (besides self referential ones) is doubly linked"
\* (set_map.rs:259-261): remove() finds every edge leading to the removed entry
\* by following the edges leaving it.
DoublyLinked ==
  \A p, q \in Ptr : \A k \in Key :
    p # q => (<<p, k, q>> \in extensions <=> <<q, k, p>> \in de_extensions)

\* No edge leaves or reaches a freed index, which the next set will reuse.
NoDanglingEdge ==
  \A edge \in extensions \cup de_extensions : edge[1] \in arena /\ edge[3] \in arena

\* An edge leads where its key says: a cached lookup returns the same set as
\* the hash map would.
EdgesRight ==
  /\ \A e \in extensions :
       \A k \in Key : keys[e[3]][k] > 0 <=> keys[e[1]][k] > 0 \/ k = e[2]
  /\ \A e \in de_extensions :
       \A k \in Key : keys[e[3]][k] > 0 <=> keys[e[1]][k] > 0 /\ k # e[2]

\* Every set has one entry, whichever way it was reached, and the hash map knows
\* exactly the occupied entries.
EntriesUnique ==
  /\ map = arena
  /\ \A p, q \in arena : keys[p] = keys[q] => p = q

\* has_key asks the edges, not the keys: an entry has key k when extending it
\* by k is known to be a no-op.
has_key(p, k) == <<p, k, p>> \in extensions

\* "If extending ourself gives us a self_ptr, we know our set contains this
\* element" (set_map.rs:362-364), and the converse, which lookup_extension needs
\* to never merge a key into a list that has it.
HasKeyExact ==
  \A p \in arena : \A k \in Key : has_key(p, k) <=> keys[p][k] > 0

\* All edges are right, are found from both ends, and go when either end goes.
EdgesExact == DoublyLinked /\ NoDanglingEdge /\ EdgesRight

\* The arena, the hash map, the key lists and the self loops agree on which sets
\* there are, each of them once and without a key twice.
EntriesExact == TypeOK /\ EntriesUnique /\ HasKeyExact

KeySet(p) == {k \in Key : keys[p][k] > 0}

\* The entries implement the archetypes and edges of Database: each set once,
\* and a cached edge between two sets exactly when both still exist.
Graph == INSTANCE TagGraph WITH
  sets <- {KeySet(p) : p \in arena},
  edges <- {<<KeySet(e[1]), e[2]>> : e \in {d \in extensions : d[1] # d[3]}}

ImplementsGraph == Graph!Spec
=============================================================================
