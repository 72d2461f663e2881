---------------------------- MODULE FreeListArena ----------------------------
(***************************************************************************)
(* FreeListArena (src/src/util/arena.rs): a vector of slots, reused last   *)
(* freed first.  A slot counts its uses in a generation; a slot whose      *)
(* generation is used up is never given out again.  A checked pointer is   *)
(* an index with the generation it was made for.                           *)
(***************************************************************************)
EXTENDS Integers, Sequences, FiniteSets

CONSTANTS
  MaxPtr,   \* bound: slots of the arena (2^32 in the code)
  MaxGen,   \* the last generation (2^32 - 1 in the code)
  Vacant    \* None, in a slot

ASSUME ArenaAssumption ==
  /\ MaxPtr \in Nat
  /\ MaxGen \in Nat \ {0}

Ptr == 1 .. MaxPtr

VARIABLES
  len,      \* values.len()
  gen,      \* the generation of each slot, 0 beyond len
  value,    \* what it holds
  free,     \* the indices freed
  issued,   \* the checked pointers given out so far, and how many times
  allocs    \* one was given out

arenaVars == <<len, gen, value, free, issued, allocs>>

ArenaInit ==
  /\ len = 0
  /\ gen = [p \in Ptr |-> 0]
  /\ value = [p \in Ptr |-> Vacant]
  /\ free = <<>>
  /\ issued = {}
  /\ allocs = 0

\* Mutant: a slot is reused whatever its generation, which stays at the last one.
UsableAlways(p) == TRUE

\* slot_gen.checked_add(1) is not None.
Usable(p) == gen[p] # MaxGen

Usables == {i \in DOMAIN free : Usable(free[i])}

LastUsable == CHOOSE i \in Usables : \A j \in Usables : j <= i

\* The index alloc returns.
AllocPtr == IF Usables = {} THEN len + 1 ELSE free[LastUsable]

\* The used-up slots it meets on the way are popped for good.
ArenaAlloc(v) ==
  LET p == AllocPtr
      g == IF gen[p] = MaxGen THEN MaxGen ELSE gen[p] + 1
  IN
  /\ p \in Ptr
  /\ len' = IF Usables = {} THEN len + 1 ELSE len
  /\ free' = IF Usables = {} THEN <<>> ELSE SubSeq(free, 1, LastUsable - 1)
  /\ gen' = [gen EXCEPT ![p] = g]
  /\ value' = [value EXCEPT ![p] = v]
  /\ issued' = issued \cup {<<p, g>>}
  /\ allocs' = allocs + 1

Live == {p \in Ptr : value[p] # Vacant}

\* dealloc_aba: the generation stays, so the pointer keeps passing is_alive
\* until the slot is used again.  The other slots become what v says.
ArenaDealloc(p, v) ==
  /\ value' = [v EXCEPT ![p] = Vacant]
  /\ free' = Append(free, p)
  /\ UNCHANGED <<len, gen, issued, allocs>>

is_alive(c) == gen[c[1]] = c[2]

\* get_aba_mut
ArenaWrite(v) ==
  /\ value' = v
  /\ UNCHANGED <<len, gen, free, issued, allocs>>

-----------------------------------------------------------------------------

\* No two values are ever given the same checked pointer, and those of the
\* values which are there pass is_alive; the free list has every empty slot
\* which can be reused, once, and no other.
ArenaExact ==
  /\ Cardinality(issued) = allocs
  /\ \A p \in Live : \E c \in issued : c[1] = p /\ is_alive(c)
  /\ \A i, j \in DOMAIN free : free[i] = free[j] => i = j
  /\ {free[i] : i \in DOMAIN free} \subseteq (1 .. len) \ Live
  /\ \A p \in (1 .. len) \ Live : Usable(p) => \E i \in DOMAIN free : free[i] = p
=============================================================================
