----------------------------- MODULE BorrowCell -----------------------------
(***************************************************************************)
(* MultiOptRefCell (src/src/core/cell.rs): a block of slots which may be   *)
(* empty, borrowed through guards which are counted in one byte per slot.  *)
(* OptRefCell is the same code for a single slot.                          *)
(*                                                                         *)
(* The guards are what the callers hold; the bytes are all the code knows  *)
(* of them.  A call refused (an Err, a None or a panic before anything is  *)
(* written) changes nothing and is no action.                              *)
(***************************************************************************)
EXTENDS Integers, FiniteSets

CONSTANTS
  NSlots,           \* slots of a block (16 in the code)
  NEUTRAL,          \* the byte of a full slot nobody borrows (127 in the code)
  DebugAssertions,  \* cfg(debug_assertions)
  AliasBlockMut     \* do callers borrow from a block they hold mutably as a whole?

ASSUME BorrowCellAssumption ==
  /\ NSlots \in Nat \ {0}
  /\ NEUTRAL \in Nat \ {0, 1}
  /\ DebugAssertions \in BOOLEAN
  /\ AliasBlockMut \in BOOLEAN

EMPTY == 0
MAX == 2 * NEUTRAL + 1     \* u8::MAX
Slot == 1..NSlots

VARIABLES
  state,      \* the byte of each slot
  filled,     \* whether its MaybeUninit holds a value
  refs,       \* the OptRef guards of each slot which are alive
  muts,       \* the OptRefMut guards: one, and the siblings map_split made of it
  leaked,     \* guards given to leak or forget: how far they moved the byte
  replacing,  \* the closure of try_replace_with, if it runs, and whether it has a guard
  blockRefs,  \* the MultiOptRef guards of the block
  blockMut    \* 1 if there is a MultiOptRefMut guard

cellVars == <<state, filled, refs, muts, leaked, replacing, blockRefs, blockMut>>

CellInit ==
  /\ state = [s \in Slot |-> EMPTY]
  /\ filled = [s \in Slot |-> FALSE]
  /\ refs = [s \in Slot |-> 0]
  /\ muts = [s \in Slot |-> 0]
  /\ leaked = [s \in Slot |-> 0]
  /\ replacing = [s \in Slot |-> "no"]
  /\ blockRefs = 0
  /\ blockMut = 0

-----------------------------------------------------------------------------
(* The byte.                                                               *)

Add(f, s, n) == [f EXCEPT ![s] = @ + n]

Wrapped(b) == b % (MAX + 1)

\* Mutant: the readers' limit is forgotten.
AcquiresRefUnbounded(b) == b >= NEUTRAL

\* CellBorrowRef::acquire: the increment wraps before it is looked at.
AcquiresRef(b) == Wrapped(b + 1) > NEUTRAL

\* Mutant: readers do not keep writers out.
AcquiresMutShared(b) == b >= NEUTRAL

AcquiresMut(b) == b = NEUTRAL

\* Is there a carry into the byte of slot s when one is added to every byte of
\* the u128 at once?
CarryInto(s) ==
  \E r \in 1..(s - 1) : /\ state[r] = MAX
                        /\ \A q \in (r + 1)..(s - 1) : state[q] >= MAX - 1

BytePlusOne(s) == Wrapped(state[s] + 1 + IF CarryInto(s) THEN 1 ELSE 0)

-----------------------------------------------------------------------------
(* Guards of one slot.                                                     *)

\* What the borrow checker asks of a method taking &mut self.
Unborrowed ==
  /\ \A s \in Slot : refs[s] = 0 /\ muts[s] = 0 /\ replacing[s] = "no"
  /\ blockRefs = 0
  /\ blockMut = 0

Borrow(s) ==
  /\ AcquiresRef(state[s])
  /\ blockMut = 0 \/ AliasBlockMut
  /\ state' = [state EXCEPT ![s] = Wrapped(@ + 1)]
  /\ refs' = Add(refs, s, 1)
  /\ UNCHANGED <<filled, muts, leaked, replacing, blockRefs, blockMut>>

BorrowMut(s) ==
  /\ AcquiresMut(state[s])
  /\ state' = [state EXCEPT ![s] = NEUTRAL - 1]
  /\ muts' = Add(muts, s, 1)
  /\ UNCHANGED <<filled, refs, leaked, replacing, blockRefs, blockMut>>

\* OptRef::clone, map_split.
CloneRef(s) ==
  /\ refs[s] > 0
  /\ state[s] # MAX
  /\ state' = Add(state, s, 1)
  /\ refs' = Add(refs, s, 1)
  /\ UNCHANGED <<filled, muts, leaked, replacing, blockRefs, blockMut>>

\* Mutant: the writers' limit is forgotten, and the last writer empties the slot.
MaySplitAlways(s) == TRUE

MaySplit(s) == state[s] # EMPTY + 1

\* OptRefMut::map_split.  The guard of try_replace_with is not given away.
SplitMut(s) ==
  /\ muts[s] > 0
  /\ replacing[s] # "guarded"
  /\ MaySplit(s)
  /\ state' = Add(state, s, -1)
  /\ muts' = Add(muts, s, 1)
  /\ UNCHANGED <<filled, refs, leaked, replacing, blockRefs, blockMut>>

DropRef(s) ==
  /\ refs[s] > 0
  /\ state' = Add(state, s, -1)
  /\ refs' = Add(refs, s, -1)
  /\ UNCHANGED <<filled, muts, leaked, replacing, blockRefs, blockMut>>

DropMut(s) ==
  /\ muts[s] > 0
  /\ replacing[s] # "guarded"
  /\ state' = Add(state, s, 1)
  /\ muts' = Add(muts, s, -1)
  /\ UNCHANGED <<filled, refs, leaked, replacing, blockRefs, blockMut>>

LeakRef(s) ==
  /\ refs[s] > 0
  /\ refs' = Add(refs, s, -1)
  /\ leaked' = Add(leaked, s, 1)
  /\ UNCHANGED <<state, filled, muts, replacing, blockRefs, blockMut>>

LeakMut(s) ==
  /\ muts[s] > 0
  /\ replacing[s] # "guarded"
  /\ muts' = Add(muts, s, -1)
  /\ leaked' = Add(leaked, s, -1)
  /\ UNCHANGED <<state, filled, refs, replacing, blockRefs, blockMut>>

Unleaked == [s \in Slot |-> IF state[s] = EMPTY THEN EMPTY ELSE NEUTRAL]

UndoLeak ==
  /\ Unborrowed
  /\ state' = Unleaked
  /\ leaked' = [s \in Slot |-> 0]
  /\ UNCHANGED <<filled, refs, muts, replacing, blockRefs, blockMut>>

\* into_inner takes what is there, and the cell is no more: the next is a new one.
IntoInner ==
  /\ Unborrowed
  /\ state' = [s \in Slot |-> EMPTY]
  /\ filled' = [s \in Slot |-> FALSE]
  /\ leaked' = [s \in Slot |-> 0]
  /\ UNCHANGED <<refs, muts, replacing, blockRefs, blockMut>>

\* set(&mut self, ..): undo_leak, then replace.
Set(s, some) ==
  /\ Unborrowed
  /\ state' = [Unleaked EXCEPT ![s] = IF some THEN NEUTRAL ELSE EMPTY]
  /\ leaked' = [r \in Slot |-> 0]
  /\ filled' = [filled EXCEPT ![s] = some]
  /\ UNCHANGED <<refs, muts, replacing, blockRefs, blockMut>>

-----------------------------------------------------------------------------
(* try_replace_with.  The closure is user code and may use the block too.  *)

ReplaceBegin(s) ==
  /\ replacing[s] = "no"
  /\ \/ /\ AcquiresMut(state[s])
        /\ state' = [state EXCEPT ![s] = NEUTRAL - 1]
        /\ muts' = Add(muts, s, 1)
        /\ replacing' = [replacing EXCEPT ![s] = "guarded"]
     \/ /\ state[s] = EMPTY
        /\ replacing' = [replacing EXCEPT ![s] = "unguarded"]
        /\ UNCHANGED <<state, muts>>
  /\ UNCHANGED <<filled, refs, leaked, blockRefs, blockMut>>

\* The closure of a full slot is done: a value for a value, or the slot empties.
ReplaceFull(s, some) ==
  /\ replacing[s] = "guarded"
  /\ state' = [state EXCEPT ![s] = IF some THEN @ + 1 ELSE EMPTY]
  /\ filled' = [filled EXCEPT ![s] = some]
  /\ muts' = Add(muts, s, -1)
  /\ replacing' = [replacing EXCEPT ![s] = "no"]
  /\ UNCHANGED <<refs, leaked, blockRefs, blockMut>>

\* Mutant: no assertion that the slot is still empty.
StillEmptyUnasserted(s) == TRUE

\* debug_assert_eq!(state, EMPTY), after the closure.
StillEmpty(s) == DebugAssertions => state[s] = EMPTY

\* The closure of an empty slot is done; nothing kept it from filling the slot.
ReplaceEmpty(s) ==
  /\ replacing[s] = "unguarded"
  /\ replacing' = [replacing EXCEPT ![s] = "no"]
  /\ \/ /\ StillEmpty(s)
        /\ state' = [state EXCEPT ![s] = NEUTRAL]
        /\ filled' = [filled EXCEPT ![s] = TRUE]
     \/ UNCHANGED <<state, filled>>      \* it returned None, or panicked
  /\ UNCHANGED <<refs, muts, leaked, blockRefs, blockMut>>

Takeable(s) == state[s] \in {EMPTY, NEUTRAL}

\* swap takes one value, replaces the other and puts that one back.  If the
\* second slot is borrowed this panics when the first is already empty.
Swap(s, r) ==
  /\ s # r
  /\ Takeable(s)
  /\ IF Takeable(r)
     THEN /\ state' = [state EXCEPT ![s] = state[r], ![r] = state[s]]
          /\ filled' = [filled EXCEPT ![s] = filled[r], ![r] = filled[s]]
     ELSE /\ state' = [state EXCEPT ![s] = EMPTY]
          /\ filled' = [filled EXCEPT ![s] = FALSE]
  /\ UNCHANGED <<refs, muts, leaked, replacing, blockRefs, blockMut>>

-----------------------------------------------------------------------------
(* Guards of the whole block.                                              *)

\* try_borrow_all adds one to every byte and looks at their top bits.
BorrowAll ==
  /\ \A s \in Slot : BytePlusOne(s) > NEUTRAL
  /\ blockMut = 0 \/ AliasBlockMut
  /\ state' = [s \in Slot |-> BytePlusOne(s)]
  /\ blockRefs' = blockRefs + 1
  /\ UNCHANGED <<filled, refs, muts, leaked, replacing, blockMut>>

DropAll ==
  /\ blockRefs > 0
  /\ state' = [s \in Slot |-> state[s] - 1]
  /\ blockRefs' = blockRefs - 1
  /\ UNCHANGED <<filled, refs, muts, leaked, replacing, blockMut>>

\* Mutant: only the first slot is looked at.
BlockNeutralFirst == state[1] = NEUTRAL

BlockNeutral == \A s \in Slot : state[s] = NEUTRAL

\* try_borrow_all_mut leaves NEUTRAL + 1 in the bytes, which is how one reader looks.
BorrowAllMut ==
  /\ BlockNeutral
  /\ state' = [s \in Slot |-> NEUTRAL + 1]
  /\ blockMut' = 1
  /\ UNCHANGED <<filled, refs, muts, leaked, replacing, blockRefs>>

DropAllMut ==
  /\ blockMut = 1
  /\ state' = [s \in Slot |-> NEUTRAL]
  /\ blockMut' = 0
  /\ UNCHANGED <<filled, refs, muts, leaked, replacing, blockRefs>>

-----------------------------------------------------------------------------

OnSlot(s) ==
  \/ Borrow(s) \/ BorrowMut(s) \/ CloneRef(s) \/ SplitMut(s) \/ DropRef(s)
  \/ DropMut(s) \/ LeakRef(s) \/ LeakMut(s) \/ ReplaceBegin(s) \/ ReplaceEmpty(s)
  \/ \E some \in BOOLEAN : Set(s, some) \/ ReplaceFull(s, some)
  \/ \E r \in Slot : Swap(s, r)

OnBlock ==
  UndoLeak \/ IntoInner \/ BorrowAll \/ DropAll \/ BorrowAllMut \/ DropAllMut

CellNext == (\E s \in Slot : OnSlot(s)) \/ OnBlock

CellSpec == CellInit /\ [][CellNext]_cellVars

-----------------------------------------------------------------------------
(* Properties.                                                             *)

CellTypeOK ==
  /\ state \in [Slot -> 0..MAX]
  /\ filled \in [Slot -> BOOLEAN]
  /\ refs \in [Slot -> Nat]
  /\ muts \in [Slot -> Nat]
  /\ leaked \in [Slot -> Int]
  /\ replacing \in [Slot -> {"no", "guarded", "unguarded"}]
  /\ blockRefs \in Nat
  /\ blockMut \in {0, 1}

Readers(s) == refs[s] + blockRefs + IF leaked[s] > 0 THEN leaked[s] ELSE 0
Writers(s) == muts[s] + blockMut + IF leaked[s] < 0 THEN -leaked[s] ELSE 0

\* Whoever may write to a slot, through a guard of the slot or of the block or
\* a leaked reference, is alone: no reader of any of these kinds, and no second
\* borrow_mut (the guards of muts are one borrow and its map_split siblings).
Exclusion ==
  \A s \in Slot : Writers(s) > 0 => /\ Readers(s) = 0
                                    /\ blockMut = 1 => Writers(s) = 1

\* The byte tells exactly who borrows the slot: it never wraps, never confuses
\* readers with writers, and is EMPTY only for a slot without a value and without
\* guards, whatever was cloned, split, leaked, replaced or swapped.  A block's
\* mutable guard counts as a reader (see BorrowAllMut).
StateExact ==
  \A s \in Slot :
    IF filled[s]
    THEN /\ state[s] # EMPTY
         /\ state[s] = NEUTRAL + refs[s] - muts[s] + leaked[s] + blockRefs + blockMut
    ELSE /\ state[s] = EMPTY
         /\ Readers(s) = 0
         /\ Writers(s) = 0
=============================================================================
