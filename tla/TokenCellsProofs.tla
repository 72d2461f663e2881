-------------------------- MODULE TokenCellsProofs --------------------------
(***************************************************************************)
(* Cells used by threads which hold tokens: first the cells, then the      *)
(* tokens, and then what was proved of both holds of their composition,    *)
(* whose steps are steps of both, and together they make the references    *)
(* of get safe.                                                            *)
(*                                                                         *)
(* Assumed throughout: that debug assertions are on.                       *)
(***************************************************************************)
EXTENDS TokenCells, FiniteSetTheorems, TLAPS

-----------------------------------------------------------------------------
(***************************************************************************)
(* The cells.  The bytes of a block of cells count its guards, for any     *)
(* number of slots and any number of guards: what keeps a u8 from          *)
(* wrapping, and a u128 of them from carrying, is not the width but the    *)
(* order of the tests.                                                     *)
(*                                                                         *)
(* Assumed: that debug assertions are on (the closure of try_replace_with  *)
(* may else fill the slot it is about to fill), and that nobody borrows    *)
(* from a block he holds mutably (the run block_alias shows why).          *)
(***************************************************************************)

\* The guard of try_replace_with is the only one of its slot.
ReplacingAlone ==
  \A s \in Slot : replacing[s] = "guarded" => filled[s] /\ muts[s] = 1 /\ leaked[s] = 0

CellInv == CellTypeOK /\ StateExact /\ Exclusion /\ ReplacingAlone

LEMMA Arithmetic ==
  /\ NEUTRAL \in Nat /\ NEUTRAL > 1 /\ MAX \in Nat /\ MAX = 2 * NEUTRAL + 1
  /\ \A b \in 0..MAX : Wrapped(b) = b
  /\ Wrapped(MAX + 1) = 0
  /\ Wrapped(MAX + 2) = 1
<1>1. NEUTRAL \in Nat /\ NEUTRAL > 1 /\ MAX \in Nat /\ MAX = 2 * NEUTRAL + 1
  BY BorrowCellAssumption DEF MAX
<1>2. \A b \in 0..MAX : Wrapped(b) = b
  BY <1>1 DEF Wrapped
<1>3. Wrapped(MAX + 1) = 0
  BY <1>1 DEF Wrapped
<1>4. Wrapped(MAX + 2) = 1
  BY <1>1 DEF Wrapped
<1> QED
  BY <1>1, <1>2, <1>3, <1>4

LEMMA CellInvInit == CellInit => CellInv
  BY Arithmetic DEF CellInit, CellInv, CellTypeOK, StateExact, Exclusion, ReplacingAlone,
    Readers, Writers, EMPTY

\* What the invariant says of one slot, of its byte b, the guards it counts, and
\* those of the block.
Sound(b, f, r, m, l, p, br, bm) ==
  LET readers == r + br + IF l > 0 THEN l ELSE 0
      writers == m + bm + IF l < 0 THEN -l ELSE 0
  IN /\ IF f THEN b # EMPTY /\ b = NEUTRAL + r - m + l + br + bm
             ELSE b = EMPTY /\ readers = 0 /\ writers = 0
     /\ writers > 0 => readers = 0 /\ (bm = 1 => writers = 1)
     /\ p = "guarded" => f /\ m = 1 /\ l = 0

SlotSound(s) ==
  Sound(state[s], filled[s], refs[s], muts[s], leaked[s], replacing[s], blockRefs, blockMut)

LEMMA InvBySlot == CellInv <=> CellTypeOK /\ \A s \in Slot : SlotSound(s)
  BY DEF CellInv, StateExact, Exclusion, ReplacingAlone, Readers, Writers, SlotSound, Sound

\* A byte of NEUTRAL or more has no writer, one of NEUTRAL or EMPTY nobody at all.
LEMMA ByteSays ==
  ASSUME NEW b \in 0..MAX, NEW f \in BOOLEAN, NEW r \in Nat, NEW m \in Nat, NEW l \in Int,
         NEW p, NEW br \in Nat, NEW bm \in {0, 1}, Sound(b, f, r, m, l, p, br, bm)
  PROVE  /\ b = EMPTY <=> ~f
         /\ b >= NEUTRAL /\ bm = 0 => f /\ m = 0 /\ l >= 0
         /\ b = NEUTRAL \/ b = EMPTY => r = 0 /\ m = 0 /\ l = 0 /\ br = 0 /\ bm = 0
  BY Arithmetic DEF Sound, EMPTY

\* A reader and a writer each tell what the byte is.
LEMMA GuardsSay ==
  ASSUME NEW b \in 0..MAX, NEW f \in BOOLEAN, NEW r \in Nat, NEW m \in Nat, NEW l \in Int,
         NEW p, NEW br \in Nat, NEW bm \in {0, 1}, Sound(b, f, r, m, l, p, br, bm)
  PROVE  /\ r > 0 \/ br > 0 => f /\ m = 0 /\ l >= 0 /\ bm = 0 /\ b = NEUTRAL + r + l + br
         /\ m > 0 => f /\ r = 0 /\ br = 0 /\ l <= 0 /\ bm = 0 /\ b = NEUTRAL - m + l
  BY Arithmetic DEF Sound, EMPTY

\* All that is assumed of the program, see above.
Disciplined == DebugAssertions = TRUE /\ AliasBlockMut = FALSE

Sane == CellTypeOK /\ \A s \in Slot : SlotSound(s)

\* A step which concerns slot s alone, and what it makes of it.
Becomes(s, b, f, r, m, l, p) ==
  /\ state' = [state EXCEPT ![s] = b]
  /\ filled' = [filled EXCEPT ![s] = f]
  /\ refs' = [refs EXCEPT ![s] = r]
  /\ muts' = [muts EXCEPT ![s] = m]
  /\ leaked' = [leaked EXCEPT ![s] = l]
  /\ replacing' = [replacing EXCEPT ![s] = p]
  /\ UNCHANGED <<blockRefs, blockMut>>

Phases == {"no", "guarded", "unguarded"}

LEMMA Typed ==
  ASSUME CellTypeOK, NEW s \in Slot
  PROVE  /\ state[s] \in 0..MAX /\ filled[s] \in BOOLEAN /\ refs[s] \in Nat
         /\ muts[s] \in Nat /\ leaked[s] \in Int /\ replacing[s] \in Phases
         /\ blockRefs \in Nat /\ blockMut \in {0, 1}
  BY DEF CellTypeOK, Phases

LEMMA OneSlot ==
  ASSUME Sane, NEW s \in Slot, NEW b \in 0..MAX, NEW f \in BOOLEAN, NEW r \in Nat,
         NEW m \in Nat, NEW l \in Int, NEW p \in Phases, Becomes(s, b, f, r, m, l, p),
         Sound(b, f, r, m, l, p, blockRefs, blockMut)
  PROVE  Sane'
<1>1. CellTypeOK'
  BY DEF Sane, CellTypeOK, Becomes, Phases
<1>2. ASSUME NEW q \in Slot PROVE SlotSound(q)'
  <2>1. CASE q = s
    BY <2>1 DEF Sane, CellTypeOK, Becomes, SlotSound
  <2>2. CASE q # s
    BY <2>2 DEF Sane, CellTypeOK, Becomes, SlotSound
  <2> QED
    BY <2>1, <2>2
<1> QED
  BY <1>1, <1>2 DEF Sane

LEMMA BorrowKeeps ==
  ASSUME Sane, Disciplined, NEW s \in Slot, Borrow(s)
  PROVE  Sane'
<1>1. /\ state[s] = EMPTY <=> ~filled[s]
      /\ state[s] >= NEUTRAL /\ blockMut = 0 => filled[s] /\ muts[s] = 0 /\ leaked[s] >= 0
      /\ state[s] = NEUTRAL => /\ refs[s] = 0 /\ muts[s] = 0 /\ leaked[s] = 0
                                /\ blockRefs = 0 /\ blockMut = 0
  BY Typed, ByteSays DEF Sane, SlotSound
<1>2. state[s] # MAX /\ Wrapped(state[s] + 1) = state[s] + 1
      /\ state[s] >= NEUTRAL /\ blockMut = 0
  BY Typed, Arithmetic DEF Borrow, AcquiresRef, Sane, Disciplined
<1>3. filled[s] /\ muts[s] = 0 /\ leaked[s] >= 0
      /\ state[s] = NEUTRAL + refs[s] + leaked[s] + blockRefs
  BY <1>1, <1>2, Typed, Arithmetic DEF Sane, SlotSound, Sound
<1>4. replacing[s] # "guarded"
  BY <1>3 DEF Sane, SlotSound, Sound
<1>5. Becomes(s, state[s] + 1, filled[s], refs[s] + 1, muts[s], leaked[s], replacing[s])
  BY <1>1, <1>2, <1>3, <1>4, Arithmetic DEF Borrow, Becomes, Sane, CellTypeOK, Add
<1>6. /\ state[s] + 1 \in 0..MAX /\ filled[s] \in BOOLEAN /\ refs[s] + 1 \in Nat
      /\ muts[s] \in Nat /\ leaked[s] \in Int /\ replacing[s] \in Phases
      /\ Sound(state[s] + 1, filled[s], refs[s] + 1, muts[s],
               leaked[s], replacing[s], blockRefs, blockMut)
  BY <1>1, <1>2, <1>3, <1>4, Typed, Arithmetic DEF Sane, Sound, EMPTY, Phases
<1> QED
  BY <1>5, <1>6, OneSlot

LEMMA BorrowMutKeeps ==
  ASSUME Sane, Disciplined, NEW s \in Slot, BorrowMut(s)
  PROVE  Sane'
<1>1. /\ state[s] = EMPTY <=> ~filled[s]
      /\ state[s] >= NEUTRAL /\ blockMut = 0 => filled[s] /\ muts[s] = 0 /\ leaked[s] >= 0
      /\ state[s] = NEUTRAL => /\ refs[s] = 0 /\ muts[s] = 0 /\ leaked[s] = 0
                                /\ blockRefs = 0 /\ blockMut = 0
  BY Typed, ByteSays DEF Sane, SlotSound
<1>2. state[s] = NEUTRAL
  BY DEF BorrowMut, AcquiresMut
<1>3. filled[s]
  BY <1>1, <1>2, Arithmetic DEF EMPTY
<1>4. Becomes(s, NEUTRAL - 1, filled[s], refs[s], 1, leaked[s], replacing[s])
  BY <1>1, <1>2, <1>3, Arithmetic DEF BorrowMut, Becomes, Sane, CellTypeOK, Add
<1>5. /\ NEUTRAL - 1 \in 0..MAX /\ filled[s] \in BOOLEAN /\ refs[s] \in Nat
      /\ 1 \in Nat /\ leaked[s] \in Int /\ replacing[s] \in Phases
      /\ Sound(NEUTRAL - 1, filled[s], refs[s], 1,
               leaked[s], replacing[s], blockRefs, blockMut)
  BY <1>1, <1>2, <1>3, Typed, Arithmetic DEF Sane, Sound, EMPTY, Phases
<1> QED
  BY <1>4, <1>5, OneSlot

LEMMA CloneRefKeeps ==
  ASSUME Sane, Disciplined, NEW s \in Slot, CloneRef(s)
  PROVE  Sane'
<1>1. refs[s] > 0 /\ state[s] # MAX
  BY DEF CloneRef
<1>2. filled[s] /\ muts[s] = 0 /\ leaked[s] >= 0 /\ blockMut = 0
      /\ state[s] = NEUTRAL + refs[s] + leaked[s] + blockRefs
  BY <1>1, Typed, GuardsSay DEF Sane, SlotSound
<1>3. replacing[s] # "guarded"
  BY <1>2 DEF Sane, SlotSound, Sound
<1>4. Becomes(s, state[s] + 1, filled[s], refs[s] + 1, muts[s], leaked[s], replacing[s])
  BY <1>1, <1>2, <1>3, Arithmetic DEF CloneRef, Becomes, Sane, CellTypeOK, Add
<1>5. /\ state[s] + 1 \in 0..MAX /\ filled[s] \in BOOLEAN /\ refs[s] + 1 \in Nat
      /\ muts[s] \in Nat /\ leaked[s] \in Int /\ replacing[s] \in Phases
      /\ Sound(state[s] + 1, filled[s], refs[s] + 1, muts[s],
               leaked[s], replacing[s], blockRefs, blockMut)
  BY <1>1, <1>2, <1>3, Typed, Arithmetic DEF Sane, Sound, EMPTY, Phases
<1> QED
  BY <1>4, <1>5, OneSlot

LEMMA SplitMutKeeps ==
  ASSUME Sane, Disciplined, NEW s \in Slot, SplitMut(s)
  PROVE  Sane'
<1>1. muts[s] > 0 /\ replacing[s] # "guarded" /\ state[s] # 1
  BY DEF SplitMut, MaySplit, EMPTY
<1>2. filled[s] /\ refs[s] = 0 /\ blockRefs = 0 /\ leaked[s] <= 0 /\ blockMut = 0
      /\ state[s] = NEUTRAL - muts[s] + leaked[s]
  BY <1>1, Typed, GuardsSay DEF Sane, SlotSound
<1>3. state[s] > 1
  BY <1>1, <1>2, Typed DEF Sane, SlotSound, Sound, EMPTY
<1>4. Becomes(s, state[s] - 1, filled[s], refs[s], muts[s] + 1, leaked[s], replacing[s])
  BY <1>1, <1>2, <1>3, Arithmetic DEF SplitMut, Becomes, Sane, CellTypeOK, Add
<1>5. /\ state[s] - 1 \in 0..MAX /\ filled[s] \in BOOLEAN /\ refs[s] \in Nat
      /\ muts[s] + 1 \in Nat /\ leaked[s] \in Int /\ replacing[s] \in Phases
      /\ Sound(state[s] - 1, filled[s], refs[s], muts[s] + 1,
               leaked[s], replacing[s], blockRefs, blockMut)
  BY <1>1, <1>2, <1>3, Typed, Arithmetic DEF Sane, Sound, EMPTY, Phases
<1> QED
  BY <1>4, <1>5, OneSlot

LEMMA DropRefKeeps ==
  ASSUME Sane, Disciplined, NEW s \in Slot, DropRef(s)
  PROVE  Sane'
<1>1. refs[s] > 0
  BY DEF DropRef
<1>2. filled[s] /\ muts[s] = 0 /\ leaked[s] >= 0 /\ blockMut = 0
      /\ state[s] = NEUTRAL + refs[s] + leaked[s] + blockRefs
  BY <1>1, Typed, GuardsSay DEF Sane, SlotSound
<1>3. replacing[s] # "guarded"
  BY <1>2 DEF Sane, SlotSound, Sound
<1>4. Becomes(s, state[s] - 1, filled[s], refs[s] - 1, muts[s], leaked[s], replacing[s])
  BY <1>1, <1>2, <1>3, Arithmetic DEF DropRef, Becomes, Sane, CellTypeOK, Add
<1>5. /\ state[s] - 1 \in 0..MAX /\ filled[s] \in BOOLEAN /\ refs[s] - 1 \in Nat
      /\ muts[s] \in Nat /\ leaked[s] \in Int /\ replacing[s] \in Phases
      /\ Sound(state[s] - 1, filled[s], refs[s] - 1, muts[s],
               leaked[s], replacing[s], blockRefs, blockMut)
  BY <1>1, <1>2, <1>3, Typed, Arithmetic DEF Sane, Sound, EMPTY, Phases
<1> QED
  BY <1>4, <1>5, OneSlot

LEMMA DropMutKeeps ==
  ASSUME Sane, Disciplined, NEW s \in Slot, DropMut(s)
  PROVE  Sane'
<1>1. muts[s] > 0 /\ replacing[s] # "guarded"
  BY DEF DropMut
<1>2. filled[s] /\ refs[s] = 0 /\ blockRefs = 0 /\ leaked[s] <= 0 /\ blockMut = 0
      /\ state[s] = NEUTRAL - muts[s] + leaked[s]
  BY <1>1, Typed, GuardsSay DEF Sane, SlotSound
<1>3. Becomes(s, state[s] + 1, filled[s], refs[s], muts[s] - 1, leaked[s], replacing[s])
  BY <1>1, <1>2, Arithmetic DEF DropMut, Becomes, Sane, CellTypeOK, Add
<1>4. /\ state[s] + 1 \in 0..MAX /\ filled[s] \in BOOLEAN /\ refs[s] \in Nat
      /\ muts[s] - 1 \in Nat /\ leaked[s] \in Int /\ replacing[s] \in Phases
      /\ Sound(state[s] + 1, filled[s], refs[s], muts[s] - 1,
               leaked[s], replacing[s], blockRefs, blockMut)
  BY <1>1, <1>2, Typed, Arithmetic DEF Sane, Sound, EMPTY, Phases
<1> QED
  BY <1>3, <1>4, OneSlot

LEMMA LeakRefKeeps ==
  ASSUME Sane, Disciplined, NEW s \in Slot, LeakRef(s)
  PROVE  Sane'
<1>1. refs[s] > 0
  BY DEF LeakRef
<1>2. filled[s] /\ muts[s] = 0 /\ leaked[s] >= 0 /\ blockMut = 0
      /\ state[s] = NEUTRAL + refs[s] + leaked[s] + blockRefs
  BY <1>1, Typed, GuardsSay DEF Sane, SlotSound
<1>3. replacing[s] # "guarded"
  BY <1>2 DEF Sane, SlotSound, Sound
<1>4. Becomes(s, state[s], filled[s], refs[s] - 1, muts[s], leaked[s] + 1, replacing[s])
  BY <1>1, <1>2, <1>3, Arithmetic DEF LeakRef, Becomes, Sane, CellTypeOK, Add
<1>5. /\ state[s] \in 0..MAX /\ filled[s] \in BOOLEAN /\ refs[s] - 1 \in Nat
      /\ muts[s] \in Nat /\ leaked[s] + 1 \in Int /\ replacing[s] \in Phases
      /\ Sound(state[s], filled[s], refs[s] - 1, muts[s],
               leaked[s] + 1, replacing[s], blockRefs, blockMut)
  BY <1>1, <1>2, <1>3, Typed, Arithmetic DEF Sane, Sound, EMPTY, Phases
<1> QED
  BY <1>4, <1>5, OneSlot

LEMMA LeakMutKeeps ==
  ASSUME Sane, Disciplined, NEW s \in Slot, LeakMut(s)
  PROVE  Sane'
<1>1. muts[s] > 0 /\ replacing[s] # "guarded"
  BY DEF LeakMut
<1>2. filled[s] /\ refs[s] = 0 /\ blockRefs = 0 /\ leaked[s] <= 0 /\ blockMut = 0
      /\ state[s] = NEUTRAL - muts[s] + leaked[s]
  BY <1>1, Typed, GuardsSay DEF Sane, SlotSound
<1>3. state[s] # EMPTY
  BY <1>2, Typed DEF Sane, SlotSound, Sound
<1>4. Becomes(s, state[s], filled[s], refs[s], muts[s] - 1, leaked[s] - 1, replacing[s])
  BY <1>1, <1>2, <1>3, Arithmetic DEF LeakMut, Becomes, Sane, CellTypeOK, Add
<1>5. /\ state[s] \in 0..MAX /\ filled[s] \in BOOLEAN /\ refs[s] \in Nat
      /\ muts[s] - 1 \in Nat /\ leaked[s] - 1 \in Int /\ replacing[s] \in Phases
      /\ Sound(state[s], filled[s], refs[s], muts[s] - 1,
               leaked[s] - 1, replacing[s], blockRefs, blockMut)
  BY <1>1, <1>2, <1>3, Typed, Arithmetic DEF Sane, Sound, EMPTY, Phases
<1> QED
  BY <1>4, <1>5, OneSlot

LEMMA ReplaceFullKeeps ==
  ASSUME Sane, Disciplined, NEW s \in Slot, NEW some \in BOOLEAN, ReplaceFull(s, some)
  PROVE  Sane'
<1>1. replacing[s] = "guarded" /\ filled[s] /\ muts[s] = 1 /\ leaked[s] = 0
  BY DEF ReplaceFull, Sane, SlotSound, Sound
<1>2. refs[s] = 0 /\ blockRefs = 0 /\ blockMut = 0 /\ state[s] = NEUTRAL - 1
  BY <1>1, Typed, GuardsSay, Arithmetic DEF Sane, SlotSound
<1>3. Becomes(s, (IF some THEN state[s] + 1 ELSE EMPTY), some, refs[s], 0, leaked[s], "no")
  BY <1>1, <1>2, Arithmetic DEF ReplaceFull, Becomes, Sane, CellTypeOK, Add
<1>4. /\ (IF some THEN state[s] + 1 ELSE EMPTY) \in 0..MAX /\ some \in BOOLEAN /\ refs[s] \in Nat
      /\ 0 \in Nat /\ leaked[s] \in Int /\ "no" \in Phases
      /\ Sound((IF some THEN state[s] + 1 ELSE EMPTY), some, refs[s], 0, leaked[s], "no", blockRefs, blockMut)
  BY <1>1, <1>2, Typed, Arithmetic DEF Sane, Sound, EMPTY, Phases
<1> QED
  BY <1>3, <1>4, OneSlot

LEMMA ReplaceBeginKeeps ==
  ASSUME Sane, Disciplined, NEW s \in Slot, ReplaceBegin(s)
  PROVE  Sane'
<1>1. CASE /\ AcquiresMut(state[s])
           /\ state' = [state EXCEPT ![s] = NEUTRAL - 1]
           /\ muts' = Add(muts, s, 1)
           /\ replacing' = [replacing EXCEPT ![s] = "guarded"]
  <2>1. /\ filled[s] /\ refs[s] = 0 /\ muts[s] = 0 /\ leaked[s] = 0
        /\ blockRefs = 0 /\ blockMut = 0
    BY <1>1, Typed, ByteSays, Arithmetic DEF Sane, SlotSound, AcquiresMut, EMPTY
  <2>2. Becomes(s, NEUTRAL - 1, filled[s], refs[s], 1, leaked[s], "guarded")
    BY <1>1, <2>1 DEF ReplaceBegin, Becomes, Sane, CellTypeOK, Add
  <2>3. /\ NEUTRAL - 1 \in 0..MAX
        /\ Sound(NEUTRAL - 1, filled[s], refs[s], 1, leaked[s], "guarded", blockRefs, blockMut)
    BY <2>1, Arithmetic DEF Sound, EMPTY
  <2> QED
    BY <2>2, <2>3, Typed, OneSlot DEF Sane, Phases
<1>2. CASE /\ state[s] = EMPTY
           /\ replacing' = [replacing EXCEPT ![s] = "unguarded"]
           /\ UNCHANGED <<state, muts>>
  <2>1. Becomes(s, state[s], filled[s], refs[s], muts[s], leaked[s], "unguarded")
    BY <1>2 DEF ReplaceBegin, Becomes, Sane, CellTypeOK
  <2>2. Sound(state[s], filled[s], refs[s], muts[s], leaked[s], "unguarded", blockRefs, blockMut)
    BY DEF Sane, SlotSound, Sound
  <2> QED
    BY <2>1, <2>2, Typed, OneSlot DEF Sane, Phases
<1> QED
  BY <1>1, <1>2 DEF ReplaceBegin

\* The assertion is what keeps the closure's own guards out.
LEMMA ReplaceEmptyKeeps ==
  ASSUME Sane, Disciplined, NEW s \in Slot, ReplaceEmpty(s)
  PROVE  Sane'
<1>1. CASE /\ StillEmpty(s)
           /\ state' = [state EXCEPT ![s] = NEUTRAL]
           /\ filled' = [filled EXCEPT ![s] = TRUE]
  <2>1. state[s] = EMPTY
    BY <1>1 DEF StillEmpty, Disciplined
  <2>2. Becomes(s, NEUTRAL, TRUE, refs[s], muts[s], leaked[s], "no")
    BY <1>1 DEF ReplaceEmpty, Becomes, Sane, CellTypeOK
  <2>3. /\ NEUTRAL \in 0..MAX
        /\ Sound(NEUTRAL, TRUE, refs[s], muts[s], leaked[s], "no", blockRefs, blockMut)
    BY <2>1, Typed, Arithmetic DEF Sane, SlotSound, Sound, EMPTY
  <2> QED
    BY <2>2, <2>3, Typed, OneSlot DEF Sane, Phases
<1>2. CASE UNCHANGED <<state, filled>>
  <2>1. Becomes(s, state[s], filled[s], refs[s], muts[s], leaked[s], "no")
    BY <1>2 DEF ReplaceEmpty, Becomes, Sane, CellTypeOK
  <2>2. Sound(state[s], filled[s], refs[s], muts[s], leaked[s], "no", blockRefs, blockMut)
    BY DEF Sane, SlotSound, Sound
  <2> QED
    BY <2>1, <2>2, Typed, OneSlot DEF Sane, Phases
<1> QED
  BY <1>1, <1>2 DEF ReplaceEmpty

-----------------------------------------------------------------------------
(* Steps which concern several slots.                                      *)

LEMMA UndoLeakKeeps ==
  ASSUME Sane, UndoLeak
  PROVE  Sane'
<1>1. CellTypeOK'
  BY Arithmetic DEF Sane, CellTypeOK, UndoLeak, Unleaked, EMPTY
<1>2. ASSUME NEW q \in Slot PROVE SlotSound(q)'
  <2>1. /\ state'[q] = (IF state[q] = EMPTY THEN EMPTY ELSE NEUTRAL) /\ leaked'[q] = 0
        /\ filled' = filled /\ refs'[q] = 0 /\ muts'[q] = 0 /\ replacing'[q] = "no"
        /\ blockRefs' = 0 /\ blockMut' = 0
    BY DEF UndoLeak, Unleaked, Unborrowed
  <2>2. state[q] = EMPTY <=> ~filled[q]
    BY Typed, ByteSays DEF Sane, SlotSound
  <2> QED
    BY <2>1, <2>2, Arithmetic DEF SlotSound, Sound, EMPTY
<1> QED
  BY <1>1, <1>2 DEF Sane

LEMMA IntoInnerKeeps ==
  ASSUME Sane, IntoInner
  PROVE  Sane'
<1>1. CellTypeOK'
  BY Arithmetic DEF Sane, CellTypeOK, IntoInner, EMPTY
<1>2. ASSUME NEW q \in Slot PROVE SlotSound(q)'
  <2>1. /\ state'[q] = EMPTY /\ filled'[q] = FALSE /\ leaked'[q] = 0
        /\ refs'[q] = 0 /\ muts'[q] = 0 /\ replacing'[q] = "no"
        /\ blockRefs' = 0 /\ blockMut' = 0
    BY DEF IntoInner, Unborrowed
  <2> QED
    BY <2>1 DEF SlotSound, Sound, EMPTY
<1> QED
  BY <1>1, <1>2 DEF Sane

LEMMA SetKeeps ==
  ASSUME Sane, NEW s \in Slot, NEW some \in BOOLEAN, Set(s, some)
  PROVE  Sane'
<1>1. CellTypeOK'
  BY Arithmetic DEF Sane, CellTypeOK, Set, Unleaked, EMPTY
<1>2. ASSUME NEW q \in Slot PROVE SlotSound(q)'
  <2>1. /\ leaked'[q] = 0 /\ refs'[q] = 0 /\ muts'[q] = 0 /\ replacing'[q] = "no"
        /\ blockRefs' = 0 /\ blockMut' = 0
    BY DEF Set, Unborrowed
  <2>2. CASE q = s
    <3>1. state'[q] = (IF some THEN NEUTRAL ELSE EMPTY) /\ filled'[q] = some
      BY <2>2 DEF Set, Unleaked, Sane, CellTypeOK
    <3> QED
      BY <2>1, <3>1, Arithmetic DEF SlotSound, Sound, EMPTY
  <2>3. CASE q # s
    <3>1. /\ state'[q] = (IF state[q] = EMPTY THEN EMPTY ELSE NEUTRAL)
          /\ filled'[q] = filled[q]
      BY <2>3 DEF Set, Unleaked, Sane, CellTypeOK
    <3>2. state[q] = EMPTY <=> ~filled[q]
      BY Typed, ByteSays DEF Sane, SlotSound
    <3> QED
      BY <2>1, <3>1, <3>2, Arithmetic DEF SlotSound, Sound, EMPTY
  <2> QED
    BY <2>2, <2>3
<1> QED
  BY <1>1, <1>2 DEF Sane

\* A slot which can be taken is full or empty, and nobody borrows it.
LEMMA TakeableSays ==
  ASSUME Sane, NEW s \in Slot, Takeable(s)
  PROVE  /\ state[s] = (IF filled[s] THEN NEUTRAL ELSE EMPTY)
         /\ refs[s] = 0 /\ muts[s] = 0 /\ leaked[s] = 0 /\ replacing[s] # "guarded"
         /\ blockRefs = 0 /\ blockMut = 0
<1>1. state[s] = NEUTRAL \/ state[s] = EMPTY
  BY DEF Takeable
<1>2. /\ state[s] = EMPTY <=> ~filled[s]
      /\ refs[s] = 0 /\ muts[s] = 0 /\ leaked[s] = 0 /\ blockRefs = 0 /\ blockMut = 0
  BY <1>1, Typed, ByteSays DEF Sane, SlotSound
<1>3. replacing[s] # "guarded"
  BY <1>2 DEF Sane, SlotSound, Sound
<1> QED
  BY <1>1, <1>2, <1>3

LEMMA SwapKeeps ==
  ASSUME Sane, NEW s \in Slot, NEW r \in Slot, Swap(s, r)
  PROVE  Sane'
<1>1. /\ state[s] = (IF filled[s] THEN NEUTRAL ELSE EMPTY)
      /\ refs[s] = 0 /\ muts[s] = 0 /\ leaked[s] = 0 /\ replacing[s] # "guarded"
      /\ blockRefs = 0 /\ blockMut = 0 /\ s # r
  BY TakeableSays DEF Swap
<1>2. CellTypeOK'
  <2>1. CASE Takeable(r)
    BY <2>1 DEF Sane, CellTypeOK, Swap
  <2>2. CASE ~Takeable(r)
    <3>1. EMPTY \in 0..MAX
      BY Arithmetic DEF EMPTY
    <3> QED
      BY <2>2, <3>1 DEF Sane, CellTypeOK, Swap
  <2> QED
    BY <2>1, <2>2
<1>3. ASSUME NEW q \in Slot PROVE SlotSound(q)'
  <2>1. /\ refs' = refs /\ muts' = muts /\ leaked' = leaked /\ replacing' = replacing
        /\ blockRefs' = blockRefs /\ blockMut' = blockMut
    BY DEF Swap
  <2>2. CASE Takeable(r)
    <3>1. /\ state[r] = (IF filled[r] THEN NEUTRAL ELSE EMPTY)
          /\ refs[r] = 0 /\ muts[r] = 0 /\ leaked[r] = 0 /\ replacing[r] # "guarded"
      BY <2>2, TakeableSays
    <3>2. /\ state' = [state EXCEPT ![s] = state[r], ![r] = state[s]]
          /\ filled' = [filled EXCEPT ![s] = filled[r], ![r] = filled[s]]
      BY <2>2 DEF Swap
    <3>3. CASE q = s
      <4>1. state'[q] = state[r] /\ filled'[q] = filled[r]
        BY <1>1, <3>2, <3>3 DEF Sane, CellTypeOK
      <4> QED
        BY <1>1, <2>1, <3>1, <3>3, <4>1, Arithmetic DEF SlotSound, Sound, EMPTY
    <3>4. CASE q = r
      <4>1. state'[q] = state[s] /\ filled'[q] = filled[s]
        BY <1>1, <3>2, <3>4 DEF Sane, CellTypeOK
      <4> QED
        BY <1>1, <2>1, <3>1, <3>4, <4>1, Arithmetic DEF SlotSound, Sound, EMPTY
    <3>5. CASE q # s /\ q # r
      <4>1. state'[q] = state[q] /\ filled'[q] = filled[q]
        BY <3>2, <3>5 DEF Sane, CellTypeOK
      <4> QED
        BY <2>1, <4>1 DEF Sane, SlotSound
    <3> QED
      BY <3>3, <3>4, <3>5
  <2>3. CASE ~Takeable(r)
    <3>1. /\ state' = [state EXCEPT ![s] = EMPTY]
          /\ filled' = [filled EXCEPT ![s] = FALSE]
      BY <2>3 DEF Swap
    <3>2. CASE q = s
      <4>1. state'[q] = EMPTY /\ ~filled'[q]
        BY <3>1, <3>2 DEF Sane, CellTypeOK
      <4> QED
        BY <1>1, <2>1, <3>2, <4>1, Arithmetic DEF SlotSound, Sound, EMPTY
    <3>3. CASE q # s
      <4>1. state'[q] = state[q] /\ filled'[q] = filled[q]
        BY <3>1, <3>3 DEF Sane, CellTypeOK
      <4> QED
        BY <2>1, <4>1 DEF Sane, SlotSound
    <3> QED
      BY <3>2, <3>3
  <2> QED
    BY <2>2, <2>3
<1> QED
  BY <1>2, <1>3 DEF Sane

\* A byte which would carry is refused itself: try_borrow_all may add to all of
\* them at once.
LEMMA NoCarry ==
  ASSUME CellTypeOK, \A s \in Slot : BytePlusOne(s) > NEUTRAL
  PROVE  \A s \in Slot : /\ BytePlusOne(s) = state[s] + 1
                         /\ state[s] >= NEUTRAL /\ state[s] < MAX
<1>1. \A s \in Slot : state[s] # MAX
  <2>1. SUFFICES ASSUME NEW s \in Slot, state[s] = MAX PROVE FALSE
    OBVIOUS
  <2>2. BytePlusOne(s) \in {0, 1}
    BY <2>1, Arithmetic DEF BytePlusOne
  <2> QED
    BY <2>2, Arithmetic
<1>2. ASSUME NEW s \in Slot
      PROVE  BytePlusOne(s) = state[s] + 1 /\ state[s] >= NEUTRAL /\ state[s] < MAX
  <2>1. ~CarryInto(s)
    BY <1>1, BorrowCellAssumption DEF CarryInto, Slot
  <2>2. state[s] \in 0..MAX /\ state[s] # MAX
    BY <1>1, Typed
  <2>3. state[s] + 1 \in 0..MAX /\ state[s] + 1 + 0 = state[s] + 1
    BY <2>2, Arithmetic
  <2>4. BytePlusOne(s) = Wrapped(state[s] + 1)
    BY <2>1, <2>3 DEF BytePlusOne
  <2>5. BytePlusOne(s) = state[s] + 1
    BY <2>3, <2>4, Arithmetic
  <2> QED
    BY <2>2, <2>5, Arithmetic
<1> QED
  BY <1>2

LEMMA BorrowAllKeeps ==
  ASSUME Sane, Disciplined, BorrowAll
  PROVE  Sane'
<1>1. \A s \in Slot : /\ BytePlusOne(s) = state[s] + 1
                      /\ state[s] >= NEUTRAL /\ state[s] < MAX
  BY NoCarry DEF BorrowAll, Sane
<1>2. blockMut = 0 /\ blockMut' = 0 /\ blockRefs' = blockRefs + 1
  BY DEF BorrowAll, Disciplined
<1>3. state' \in [Slot -> 0..MAX]
  BY <1>1, Typed, Arithmetic DEF BorrowAll, Sane
<1>4. CellTypeOK'
  BY <1>2, <1>3 DEF Sane, CellTypeOK, BorrowAll
<1>5. ASSUME NEW q \in Slot PROVE SlotSound(q)'
  <2>1. filled[q] /\ muts[q] = 0 /\ leaked[q] >= 0
    BY <1>1, <1>2, Typed, ByteSays DEF Sane, SlotSound
  <2>2. /\ state[q] = NEUTRAL + refs[q] + leaked[q] + blockRefs
        /\ replacing[q] # "guarded"
    BY <1>2, <2>1, Typed, Arithmetic DEF Sane, SlotSound, Sound
  <2>3. /\ state'[q] = state[q] + 1 /\ filled' = filled /\ refs' = refs /\ muts' = muts
        /\ leaked' = leaked /\ replacing' = replacing
    BY <1>1 DEF BorrowAll
  <2> QED
    BY <1>2, <2>1, <2>2, <2>3, Typed, Arithmetic DEF Sane, SlotSound, Sound, EMPTY
<1> QED
  BY <1>4, <1>5 DEF Sane

LEMMA DropAllKeeps ==
  ASSUME Sane, DropAll
  PROVE  Sane'
<1>1. \A q \in Slot : /\ filled[q] /\ muts[q] = 0 /\ leaked[q] >= 0 /\ blockMut = 0
                      /\ state[q] = NEUTRAL + refs[q] + leaked[q] + blockRefs
  BY Typed, GuardsSay DEF DropAll, Sane, SlotSound
<1>2. blockRefs > 0 /\ blockMut' = blockMut /\ blockRefs' = blockRefs - 1
  BY DEF DropAll
<1>3. state' \in [Slot -> 0..MAX]
  BY <1>1, <1>2, Typed, Arithmetic DEF DropAll, Sane
<1>4. CellTypeOK'
  BY <1>2, <1>3 DEF Sane, CellTypeOK, DropAll
<1>5. ASSUME NEW q \in Slot PROVE SlotSound(q)'
  <2>1. replacing[q] # "guarded"
    BY <1>1 DEF Sane, SlotSound, Sound
  <2>2. /\ state'[q] = state[q] - 1 /\ filled' = filled /\ refs' = refs /\ muts' = muts
        /\ leaked' = leaked /\ replacing' = replacing
    BY DEF DropAll
  <2>3. /\ refs[q] \in Nat /\ leaked[q] \in Int /\ blockRefs \in Nat
        /\ state[q] - 1 = NEUTRAL + refs[q] + leaked[q] + (blockRefs - 1)
        /\ state[q] - 1 # 0
    BY <1>1, <1>2, Typed, Arithmetic DEF Sane
  <2> QED
    BY <1>1, <1>2, <2>1, <2>2, <2>3, Arithmetic DEF SlotSound, Sound, EMPTY
<1> QED
  BY <1>4, <1>5 DEF Sane

LEMMA BorrowAllMutKeeps ==
  ASSUME Sane, BorrowAllMut
  PROVE  Sane'
<1>1. \A q \in Slot : state[q] = NEUTRAL
  BY DEF BorrowAllMut, BlockNeutral
<1>2. CellTypeOK'
  BY Arithmetic DEF Sane, CellTypeOK, BorrowAllMut
<1>3. ASSUME NEW q \in Slot PROVE SlotSound(q)'
  <2>1. /\ filled[q] /\ refs[q] = 0 /\ muts[q] = 0 /\ leaked[q] = 0 /\ blockRefs = 0
        /\ blockMut = 0
    BY <1>1, Typed, ByteSays, Arithmetic DEF Sane, SlotSound, EMPTY
  <2>2. replacing[q] # "guarded"
    BY <2>1 DEF Sane, SlotSound, Sound
  <2>3. /\ state'[q] = NEUTRAL + 1 /\ filled' = filled /\ refs' = refs /\ muts' = muts
        /\ leaked' = leaked /\ replacing' = replacing /\ blockRefs' = blockRefs
        /\ blockMut' = 1
    BY DEF BorrowAllMut
  <2> QED
    BY <2>1, <2>2, <2>3, Arithmetic DEF SlotSound, Sound, EMPTY
<1> QED
  BY <1>2, <1>3 DEF Sane

LEMMA BlockWriterAlone ==
  ASSUME NEW b \in 0..MAX, NEW f \in BOOLEAN, NEW r \in Nat, NEW m \in Nat, NEW l \in Int,
         NEW p, NEW br \in Nat, Sound(b, f, r, m, l, p, br, 1)
  PROVE  f /\ r = 0 /\ m = 0 /\ l = 0 /\ br = 0 /\ p # "guarded"
<1>1. f /\ r + br + (IF l > 0 THEN l ELSE 0) = 0 /\ m + 1 + (IF l < 0 THEN -l ELSE 0) = 1
  BY DEF Sound
<1>2. l = 0
  BY <1>1
<1> QED
  BY <1>1, <1>2 DEF Sound

LEMMA DropAllMutKeeps ==
  ASSUME Sane, DropAllMut
  PROVE  Sane'
<1>1. CellTypeOK'
  BY Arithmetic DEF Sane, CellTypeOK, DropAllMut
<1>2. ASSUME NEW q \in Slot PROVE SlotSound(q)'
  <2>0. blockMut = 1
    BY DEF DropAllMut
  <2>1. /\ refs[q] = 0 /\ muts[q] = 0 /\ leaked[q] = 0 /\ blockRefs = 0 /\ filled[q]
        /\ replacing[q] # "guarded"
    BY <2>0, Typed, BlockWriterAlone DEF Sane, SlotSound
  <2>2. /\ state'[q] = NEUTRAL /\ filled' = filled /\ refs' = refs /\ muts' = muts
        /\ leaked' = leaked /\ replacing' = replacing /\ blockRefs' = blockRefs
        /\ blockMut' = 0
    BY DEF DropAllMut
  <2> QED
    BY <2>1, <2>2, Arithmetic DEF SlotSound, Sound, EMPTY
<1> QED
  BY <1>1, <1>2 DEF Sane

-----------------------------------------------------------------------------

LEMMA StepKeeps ==
  ASSUME Sane, Disciplined, [CellNext]_cellVars
  PROVE  Sane'
<1>1. ASSUME NEW s \in Slot, OnSlot(s) PROVE Sane'
  <2>1. CASE Borrow(s) \/ BorrowMut(s) \/ CloneRef(s) \/ SplitMut(s) \/ DropRef(s) \/ DropMut(s)
    BY <2>1, BorrowKeeps, BorrowMutKeeps, CloneRefKeeps, SplitMutKeeps, DropRefKeeps,
       DropMutKeeps
  <2>2. CASE LeakRef(s) \/ LeakMut(s) \/ ReplaceBegin(s) \/ ReplaceEmpty(s)
    BY <2>2, LeakRefKeeps, LeakMutKeeps, ReplaceBeginKeeps, ReplaceEmptyKeeps
  <2>3. CASE \E some \in BOOLEAN : Set(s, some) \/ ReplaceFull(s, some)
    BY <2>3, SetKeeps, ReplaceFullKeeps
  <2>4. CASE \E r \in Slot : Swap(s, r)
    BY <2>4, SwapKeeps
  <2> QED
    BY <1>1, <2>1, <2>2, <2>3, <2>4 DEF OnSlot
<1>2. CASE OnBlock
  BY <1>2, UndoLeakKeeps, IntoInnerKeeps, BorrowAllKeeps, DropAllKeeps, BorrowAllMutKeeps,
     DropAllMutKeeps DEF OnBlock
<1>3. CASE UNCHANGED cellVars
  BY <1>3 DEF cellVars, Sane, CellTypeOK, SlotSound
<1> QED
  BY <1>1, <1>2, <1>3 DEF CellNext

LEMMA CellStepKeeps ==
  ASSUME CellInv, Disciplined, [CellNext]_cellVars
  PROVE  CellInv'
<1>1. CellInv <=> Sane
  BY InvBySlot DEF Sane
<1>2. CellInv' <=> Sane'
  BY InvBySlot, PTL DEF Sane
<1> QED
  BY <1>1, <1>2, StepKeeps

\* The byte of every slot is NEUTRAL plus its readers minus its writers, and EMPTY
\* for an empty one, after any sequence of borrows, clones, splits, drops, leaks,
\* replacements and swaps (MultiOptRefCell).
THEOREM StateExactTheorem == Disciplined => (CellSpec => []StateExact)
<1> SUFFICES ASSUME Disciplined PROVE CellSpec => []StateExact
  OBVIOUS
<1>1. CellInit => CellInv
  BY CellInvInit
<1>2. CellInv /\ [CellNext]_cellVars => CellInv'
  BY CellStepKeeps
<1>3. CellInv => StateExact
  BY DEF CellInv
<1> QED
  BY <1>1, <1>2, <1>3, PTL DEF CellSpec

\* Whoever may write to a slot is alone.
THEOREM ExclusionTheorem == Disciplined => (CellSpec => []Exclusion)
<1> SUFFICES ASSUME Disciplined PROVE CellSpec => []Exclusion
  OBVIOUS
<1>1. CellInit => CellInv
  BY CellInvInit
<1>2. CellInv /\ [CellNext]_cellVars => CellInv'
  BY CellStepKeeps
<1>3. CellInv => Exclusion
  BY DEF CellInv
<1> QED
  BY <1>1, <1>2, <1>3, PTL DEF CellSpec

-----------------------------------------------------------------------------
(***************************************************************************)
(* The tokens.  "Only one thread has access at a time", for any number of  *)
(* threads and any limit of the tracker's counter.  The counter of an      *)
(* entry is the number of exclusive tokens its owner has, or minus the     *)
(* number of shared tokens of all threads together: a sum over the         *)
(* threads, which is the size of the set SharedTokens here.                *)
(*                                                                         *)
(* Assumed: that debug assertions are on.  What the release build lets     *)
(* through is one debug_assert (UnownedInDebug).                           *)
(***************************************************************************)

\* The shared tokens of every thread, numbered thread by thread.
TokensOf(f) == {x \in Thread \X Nat : 1 <= x[2] /\ x[2] <= f[x[1]]}

Debits == IF entry.rc < 0 THEN -entry.rc ELSE 0

CountExact ==
  /\ IsFiniteSet(TokensOf(shared))
  /\ Cardinality(TokensOf(shared)) = Debits

OwnerExact ==
  /\ entry.rc > 0 => entry.owner \in Thread
  /\ entry.rc <= 0 => entry.owner = NoThread
  /\ \A t \in Thread : excl[t] = IF t = entry.owner THEN entry.rc ELSE 0

IdleOutside == ~session => \A t \in Thread : excl[t] = 0 /\ shared[t] = 0

TokenInv == TokenTypeOK /\ CountExact /\ OwnerExact /\ IdleOutside

\* One shared token more: a new one of thread t.
LEMMA OneMore ==
  ASSUME NEW f \in [Thread -> Nat], NEW t \in Thread, IsFiniteSet(TokensOf(f))
  PROVE  LET g == [f EXCEPT ![t] = @ + 1]
         IN /\ IsFiniteSet(TokensOf(g))
            /\ Cardinality(TokensOf(g)) = Cardinality(TokensOf(f)) + 1
<1> DEFINE g == [f EXCEPT ![t] = @ + 1]
           x == <<t, f[t] + 1>>
<1>1. TokensOf(g) = TokensOf(f) \cup {x}
  <2>1. ASSUME NEW y \in Thread \X Nat
        PROVE  y \in TokensOf(g) <=> y \in TokensOf(f) \/ y = x
    <3>1. y[1] \in Thread /\ y[2] \in Nat /\ y = <<y[1], y[2]>>
      OBVIOUS
    <3>2. CASE y[1] = t
      BY <3>1, <3>2 DEF TokensOf
    <3>3. CASE y[1] # t
      BY <3>1, <3>3 DEF TokensOf
    <3> QED
      BY <3>2, <3>3
  <2>2. x \in Thread \X Nat
    OBVIOUS
  <2> QED
    BY <2>1, <2>2 DEF TokensOf
<1>2. x \notin TokensOf(f)
  BY DEF TokensOf
<1>3. IsFiniteSet(TokensOf(f) \cup {x}) /\ Cardinality(TokensOf(f) \cup {x}) = Cardinality(TokensOf(f)) + 1
  <2> HIDE DEF x
  <2> QED
    BY <1>2, FS_AddElement
<1> QED
  BY <1>1, <1>3

\* One less.
LEMMA OneLess ==
  ASSUME NEW f \in [Thread -> Nat], NEW t \in Thread, f[t] > 0, IsFiniteSet(TokensOf(f))
  PROVE  LET g == [f EXCEPT ![t] = @ - 1]
         IN /\ g \in [Thread -> Nat]
            /\ IsFiniteSet(TokensOf(g))
            /\ Cardinality(TokensOf(g)) = Cardinality(TokensOf(f)) - 1
<1> DEFINE g == [f EXCEPT ![t] = @ - 1]
           x == <<t, f[t]>>
<1>1. TokensOf(g) = TokensOf(f) \ {x}
  <2>1. ASSUME NEW y \in Thread \X Nat
        PROVE  y \in TokensOf(g) <=> y \in TokensOf(f) /\ y # x
    <3>1. y[1] \in Thread /\ y[2] \in Nat /\ y = <<y[1], y[2]>>
      OBVIOUS
    <3>2. CASE y[1] = t
      BY <3>1, <3>2 DEF TokensOf
    <3>3. CASE y[1] # t
      BY <3>1, <3>3 DEF TokensOf
    <3> QED
      BY <3>2, <3>3
  <2> QED
    BY <2>1 DEF TokensOf
<1>2. x \in TokensOf(f)
  BY DEF TokensOf
<1>3. /\ IsFiniteSet(TokensOf(f) \ {x})
      /\ Cardinality(TokensOf(f) \ {x}) = Cardinality(TokensOf(f)) - 1
  <2> HIDE DEF x
  <2> QED
    BY <1>2, FS_RemoveElement
<1>4. g \in [Thread -> Nat]
  OBVIOUS
<1> QED
  BY <1>1, <1>3, <1>4

\* A thread with a shared token is counted.
LEMMA Counted ==
  ASSUME NEW f \in [Thread -> Nat], IsFiniteSet(TokensOf(f))
  PROVE  /\ Cardinality(TokensOf(f)) \in Nat
         /\ Cardinality(TokensOf(f)) = 0 <=> \A t \in Thread : f[t] = 0
<1>1. Cardinality(TokensOf(f)) \in Nat
  BY FS_CardinalityType
<1>2. Cardinality(TokensOf(f)) = 0 <=> TokensOf(f) = {}
  <2> DEFINE S == TokensOf(f)
  <2>1. IsFiniteSet(S)
    OBVIOUS
  <2> HIDE DEF S
  <2>2. Cardinality(S) = 0 <=> S = {}
    BY <2>1, FS_EmptySet
  <2> QED
    BY <2>2 DEF S
<1>3. ASSUME NEW t \in Thread, f[t] # 0 PROVE TokensOf(f) # {}
  <2>1. <<t, 1>> \in TokensOf(f)
    BY <1>3 DEF TokensOf
  <2> QED
    BY <2>1
<1>4. ASSUME \A t \in Thread : f[t] = 0 PROVE TokensOf(f) = {}
  BY <1>4 DEF TokensOf
<1> QED
  BY <1>1, <1>2, <1>3, <1>4

-----------------------------------------------------------------------------

LEMMA TokenInvInit == TokenInit => TokenInv
<1> SUFFICES ASSUME TokenInit PROVE TokenInv
  OBVIOUS
<1>1. TokenTypeOK
  <2>1. MaxRc \in Nat /\ 0 \in -(MaxRc + 1)..MaxRc
    BY TokenSourceAssumption
  <2> QED
    BY <2>1 DEF TokenInit, TokenTypeOK, NoEntry
<1>2. TokensOf(shared) = {}
  <2>1. \A t \in Thread : shared[t] = 0
    BY DEF TokenInit
  <2> QED
    BY <2>1 DEF TokensOf
<1>3. CountExact
  BY <1>2, FS_EmptySet DEF CountExact, Debits, TokenInit, NoEntry
<1>4. OwnerExact /\ IdleOutside
  BY TokenSourceAssumption DEF OwnerExact, IdleOutside, TokenInit, NoEntry
<1> QED
  BY <1>1, <1>3, <1>4 DEF TokenInv

\* A counter of nothing is no entry, and an entry without owner is for shared tokens.
LEMMA EntrySays ==
  ASSUME TokenInv
  PROVE  /\ Free <=> entry.rc = 0
         /\ entry.rc \in -(MaxRc + 1)..MaxRc /\ entry.owner \in Thread \cup {NoThread}
         /\ entry = [rc |-> entry.rc, owner |-> entry.owner]
         /\ \A t \in Thread : excl[t] > 0 => entry.rc > 0 /\ entry.owner = t
         /\ \A t \in Thread : shared[t] > 0 => entry.rc < 0 /\ entry.owner = NoThread
<1>1. /\ entry \in [rc : -(MaxRc + 1)..MaxRc, owner : Thread \cup {NoThread}]
      /\ MaxRc \in Nat /\ NoThread \notin Thread
  BY TokenSourceAssumption DEF TokenInv, TokenTypeOK
<1>2. /\ entry.rc \in -(MaxRc + 1)..MaxRc /\ entry.owner \in Thread \cup {NoThread}
      /\ entry = [rc |-> entry.rc, owner |-> entry.owner]
  BY <1>1
<1>3. Free <=> entry.rc = 0
  BY <1>1, <1>2 DEF Free, NoEntry, TokenInv, OwnerExact
<1>4. \A t \in Thread : excl[t] > 0 => entry.rc > 0 /\ entry.owner = t
  BY <1>1, <1>2 DEF TokenInv, OwnerExact
<1>5. \A t \in Thread : shared[t] > 0 => entry.rc < 0 /\ entry.owner = NoThread
  <2>1. shared \in [Thread -> Nat] /\ IsFiniteSet(TokensOf(shared)) /\ Cardinality(TokensOf(shared)) = Debits
    BY DEF TokenInv, TokenTypeOK, CountExact
  <2>2. Debits = 0 <=> \A t \in Thread : shared[t] = 0
    BY <2>1, Counted
  <2> QED
    BY <2>1, <2>2, <1>2 DEF Debits, TokenInv, OwnerExact
<1> QED
  BY <1>2, <1>3, <1>4, <1>5

\* A step which leaves the shared tokens alone.
LEMMA SameShared ==
  ASSUME TokenInv, shared' = shared, Debits' = Debits
  PROVE  CountExact'
  BY DEF TokenInv, CountExact

LEMMA ExclusiveTokenKeeps ==
  ASSUME TokenInv, NEW t \in Thread, ExclusiveToken(t)
  PROVE  TokenInv'
<1>1. MaxRc \in Nat /\ MaxRc > 0 /\ NoThread \notin Thread
  BY TokenSourceAssumption
<1>2. /\ entry.rc >= 0 /\ entry' = [rc |-> entry.rc + 1, owner |-> t] /\ entry.rc < MaxRc
      /\ entry.rc > 0 => entry.owner = t
  BY <1>1, EntrySays DEF ExclusiveToken, Free, NoEntry, Owns, TokenInv, OwnerExact
<1>3. excl' = [excl EXCEPT ![t] = @ + 1] /\ shared' = shared /\ main' = main /\ session' = session
  BY DEF ExclusiveToken, Count
<1>4. TokenTypeOK'
  BY <1>1, <1>2, <1>3, EntrySays DEF TokenInv, TokenTypeOK
<1>5. CountExact'
  BY <1>2, <1>3, SameShared, EntrySays DEF Debits
<1>6. OwnerExact'
  BY <1>1, <1>2, <1>3, EntrySays DEF TokenInv, TokenTypeOK, OwnerExact
<1>7. IdleOutside'
  BY <1>3 DEF ExclusiveToken, Worker, IdleOutside
<1> QED
  BY <1>4, <1>5, <1>6, <1>7 DEF TokenInv

LEMMA CloneExclusiveKeeps ==
  ASSUME TokenInv, NEW t \in Thread, CloneExclusive(t)
  PROVE  TokenInv'
<1>1. MaxRc \in Nat /\ MaxRc > 0 /\ NoThread \notin Thread
  BY TokenSourceAssumption
<1>2. /\ entry.rc > 0 /\ entry.owner = t /\ entry.rc < MaxRc
      /\ entry' = [rc |-> entry.rc + 1, owner |-> t]
  BY EntrySays DEF CloneExclusive
<1>3. excl' = [excl EXCEPT ![t] = @ + 1] /\ shared' = shared /\ main' = main /\ session' = session
  BY DEF CloneExclusive, Count
<1>4. TokenTypeOK'
  BY <1>1, <1>2, <1>3, EntrySays DEF TokenInv, TokenTypeOK
<1>5. CountExact'
  BY <1>2, <1>3, SameShared, EntrySays DEF Debits
<1>6. OwnerExact'
  BY <1>1, <1>2, <1>3, EntrySays DEF TokenInv, TokenTypeOK, OwnerExact
<1>7. IdleOutside'
  BY <1>3 DEF CloneExclusive, TokenInv, IdleOutside
<1> QED
  BY <1>4, <1>5, <1>6, <1>7 DEF TokenInv

LEMMA DropExclusiveKeeps ==
  ASSUME TokenInv, NEW t \in Thread, DropExclusive(t)
  PROVE  TokenInv'
<1>1. MaxRc \in Nat /\ MaxRc > 0 /\ NoThread \notin Thread
  BY TokenSourceAssumption
<1>2. /\ entry.rc > 0 /\ entry.owner = t
      /\ entry' = [rc |-> entry.rc - 1, owner |-> IF entry.rc = 1 THEN NoThread ELSE t]
  <2>1. entry.rc > 0 /\ entry.owner = t /\ entry = [rc |-> entry.rc, owner |-> t]
    BY EntrySays DEF DropExclusive
  <2>2. entry' = IF entry.rc + -1 = 0 THEN NoEntry ELSE [entry EXCEPT !.rc = @ + -1]
    BY DEF DropExclusive, Released
  <2>3. CASE entry.rc = 1
    BY <2>1, <2>2, <2>3 DEF NoEntry
  <2>4. CASE entry.rc # 1
    BY <2>1, <2>2, <2>4, EntrySays
  <2> QED
    BY <2>1, <2>3, <2>4
<1>3. /\ excl' = [excl EXCEPT ![t] = @ - 1] /\ excl[t] > 0
      /\ shared' = shared /\ main' = main /\ session' = session
  BY DEF DropExclusive, Count, TokenInv, TokenTypeOK
<1>4. TokenTypeOK'
  BY <1>1, <1>2, <1>3, EntrySays DEF TokenInv, TokenTypeOK
<1>5. CountExact'
  BY <1>2, <1>3, SameShared, EntrySays DEF Debits
<1>6. OwnerExact'
  BY <1>1, <1>2, <1>3, EntrySays DEF TokenInv, TokenTypeOK, OwnerExact
<1>7. IdleOutside'
  BY <1>3 DEF TokenInv, IdleOutside
<1> QED
  BY <1>4, <1>5, <1>6, <1>7 DEF TokenInv

\* The two ways to have a shared token more.
LEMMA MoreShared ==
  ASSUME TokenInv, NEW t \in Thread, session, shared' = [shared EXCEPT ![t] = @ + 1],
         entry.rc <= 0, entry.rc > -(MaxRc + 1),
         entry' = [rc |-> entry.rc - 1, owner |-> NoThread],
         UNCHANGED <<main, session, excl>>
  PROVE  TokenInv'
<1>1. MaxRc \in Nat /\ MaxRc > 0 /\ NoThread \notin Thread
  BY TokenSourceAssumption
<1>2. TokenTypeOK'
  BY <1>1, EntrySays DEF TokenInv, TokenTypeOK
<1>3. CountExact'
  <2>1. /\ IsFiniteSet(TokensOf(shared')) 
        /\ Cardinality(TokensOf(shared')) = Cardinality(TokensOf(shared)) + 1
    BY OneMore DEF TokenInv, TokenTypeOK, CountExact
  <2>2. Debits' = Debits + 1
    BY EntrySays DEF Debits
  <2> QED
    BY <2>1, <2>2 DEF TokenInv, CountExact, TokensOf
<1>4. OwnerExact'
  BY <1>1, EntrySays DEF TokenInv, TokenTypeOK, OwnerExact
<1>5. IdleOutside'
  BY DEF IdleOutside
<1> QED
  BY <1>2, <1>3, <1>4, <1>5 DEF TokenInv

LEMMA DropSharedKeeps ==
  ASSUME TokenInv, NEW t \in Thread, DropShared(t)
  PROVE  TokenInv'
<1>1. MaxRc \in Nat /\ MaxRc > 0 /\ NoThread \notin Thread
  BY TokenSourceAssumption
<1>2. entry.rc < 0 /\ entry.owner = NoThread /\ entry' = [rc |-> entry.rc + 1, owner |-> NoThread]
  <2>1. entry.rc < 0 /\ entry = [rc |-> entry.rc, owner |-> NoThread]
    BY EntrySays DEF DropShared
  <2>2. entry' = IF entry.rc + 1 = 0 THEN NoEntry ELSE [entry EXCEPT !.rc = @ + 1]
    BY DEF DropShared, Released
  <2> QED
    BY <2>1, <2>2, EntrySays DEF NoEntry
<1>3. /\ shared' = [shared EXCEPT ![t] = @ - 1] /\ shared[t] > 0
      /\ excl' = excl /\ main' = main /\ session' = session
  BY DEF DropShared, Count, TokenInv, TokenTypeOK
<1>4. /\ shared' \in [Thread -> Nat] /\ IsFiniteSet(TokensOf(shared'))
      /\ Cardinality(TokensOf(shared')) = Cardinality(TokensOf(shared)) - 1
  BY <1>3, OneLess DEF TokenInv, TokenTypeOK, CountExact
<1>5. TokenTypeOK'
  BY <1>1, <1>2, <1>3, <1>4, EntrySays DEF TokenInv, TokenTypeOK
<1>6. CountExact'
  <2>1. Debits' = Debits - 1
    BY <1>2, EntrySays DEF Debits
  <2> QED
    BY <1>4, <2>1, EntrySays DEF TokenInv, CountExact, Debits, TokensOf
<1>7. OwnerExact'
  BY <1>1, <1>2, <1>3, EntrySays DEF TokenInv, TokenTypeOK, OwnerExact
<1>8. IdleOutside'
  BY <1>3 DEF TokenInv, IdleOutside
<1> QED
  BY <1>5, <1>6, <1>7, <1>8 DEF TokenInv

LEMMA SendSharedKeeps ==
  ASSUME TokenInv, NEW t \in Thread, NEW u \in Thread, SendShared(t, u)
  PROVE  TokenInv'
<1> DEFINE less == [shared EXCEPT ![t] = @ - 1]
<1>1. shared \in [Thread -> Nat] /\ shared[t] > 0 /\ t # u /\ session
  BY DEF SendShared, Worker, TokenInv, TokenTypeOK
<1>2. /\ less \in [Thread -> Nat] /\ IsFiniteSet(TokensOf(less))
      /\ Cardinality(TokensOf(less)) = Cardinality(TokensOf(shared)) - 1
  BY <1>1, OneLess DEF TokenInv, CountExact
<1>3. shared' = [less EXCEPT ![u] = @ + 1]
  BY <1>1 DEF SendShared
<1>4. /\ IsFiniteSet(TokensOf(shared'))
      /\ Cardinality(TokensOf(shared')) = Cardinality(TokensOf(less)) + 1
  <2> HIDE DEF less
  <2> QED
    BY <1>2, <1>3, OneMore
<1>5. shared' \in [Thread -> Nat] /\ UNCHANGED <<main, session, excl, entry>>
  BY <1>1 DEF SendShared
<1>6. Cardinality(TokensOf(shared)) \in Nat
  BY <1>1, Counted DEF TokenInv, CountExact
<1>7. CountExact'
  BY <1>2, <1>4, <1>5, <1>6 DEF TokenInv, CountExact, Debits, TokensOf
<1>8. TokenTypeOK' /\ OwnerExact' /\ IdleOutside'
  BY <1>1, <1>5 DEF TokenInv, TokenTypeOK, OwnerExact, IdleOutside
<1> QED
  BY <1>7, <1>8 DEF TokenInv

\* Steps of the main thread, which find and leave no tokens.
LEMMA MainKeeps ==
  ASSUME TokenInv, Parallelize \/ EndParallelize \/ \E t \in Thread : BecomeMain(t)
  PROVE  TokenInv'
<1>1. UNCHANGED <<excl, shared>>
  BY DEF Parallelize, EndParallelize, BecomeMain
<1>2. main' \in Thread \cup {NoThread} /\ session' \in BOOLEAN
  BY DEF Parallelize, EndParallelize, BecomeMain, TokenInv, TokenTypeOK
<1>3. entry' = entry
  <2>1. CASE Parallelize
    <3>1. shared \in [Thread -> Nat] /\ \A t \in Thread : excl[t] = 0 /\ shared[t] = 0
      BY <2>1 DEF Parallelize, TokenInv, TokenTypeOK, IdleOutside
    <3>2. Debits = 0
      BY <3>1, Counted DEF TokenInv, CountExact
    <3>3. entry.rc = 0
      BY <3>1, <3>2, EntrySays DEF Debits, TokenInv, OwnerExact
    <3> QED
      BY <2>1, <3>3, EntrySays DEF Parallelize, Free
  <2>2. CASE EndParallelize \/ \E t \in Thread : BecomeMain(t)
    BY <2>2 DEF EndParallelize, BecomeMain
  <2> QED
    BY <2>1, <2>2
<1>4. IdleOutside'
  BY <1>1 DEF Parallelize, EndParallelize, BecomeMain, TokenInv, IdleOutside
<1>5. TokenTypeOK' /\ CountExact' /\ OwnerExact'
  BY <1>1, <1>2, <1>3 DEF TokenInv, TokenTypeOK, CountExact, Debits, OwnerExact, TokensOf
<1> QED
  BY <1>4, <1>5 DEF TokenInv

LEMMA TokenStepKeeps ==
  ASSUME TokenInv, DebugBuild = TRUE, [TokenNext]_tokenVars
  PROVE  TokenInv'
<1>1. CASE Parallelize \/ EndParallelize \/ \E t \in Thread : BecomeMain(t)
  BY <1>1, MainKeeps
<1>2. ASSUME NEW t \in Thread, SharedToken(t) PROVE TokenInv'
  <2>1. MaxRc \in Nat /\ MaxRc > 0 /\ NoThread \notin Thread
    BY TokenSourceAssumption
  <2>2. entry.rc <= 0 /\ entry.rc > -(MaxRc + 1)
    BY <1>2, <2>1, EntrySays DEF SharedToken, UnownedInDebug, Free, TokenInv, OwnerExact
  <2>3. entry' = [rc |-> entry.rc - 1, owner |-> NoThread]
    BY <1>2, <2>2, EntrySays DEF SharedToken, Free, TokenInv, OwnerExact
  <2> QED
    BY <1>2, <2>2, <2>3, MoreShared DEF SharedToken, Worker, Count
<1>3. ASSUME NEW t \in Thread, CloneShared(t) PROVE TokenInv'
  <2>1. entry.rc <= 0 /\ entry.rc > -(MaxRc + 1) /\ session
    BY <1>3, EntrySays DEF CloneShared, TokenInv, IdleOutside
  <2>2. entry.owner = NoThread /\ entry = [rc |-> entry.rc, owner |-> entry.owner]
    BY <1>3, EntrySays DEF CloneShared
  <2>3. entry' = [rc |-> entry.rc - 1, owner |-> NoThread]
    BY <1>3, <2>1, <2>2 DEF CloneShared
  <2> QED
    BY <1>3, <2>1, <2>3, MoreShared DEF CloneShared, Count
<1>4. ASSUME NEW t \in Thread,
             \/ ExclusiveToken(t) \/ CloneExclusive(t) \/ DropExclusive(t) \/ DropShared(t)
             \/ \E u \in Thread : SendShared(t, u)
      PROVE  TokenInv'
  BY <1>4, ExclusiveTokenKeeps, CloneExclusiveKeeps, DropExclusiveKeeps, DropSharedKeeps,
     SendSharedKeeps
<1>5. CASE UNCHANGED tokenVars
  BY <1>5 DEF tokenVars, TokenInv, TokenTypeOK, CountExact, Debits, OwnerExact, IdleOutside, TokensOf
<1> QED
  BY <1>1, <1>2, <1>3, <1>4, <1>5 DEF TokenNext

LEMMA InvExcludes == TokenInv => TokenExclusion
<1> SUFFICES ASSUME TokenInv, NEW t \in Thread, NEW u \in Thread, MayWrite(t)
             PROVE  ~MayRead(u) /\ (MayWrite(u) => t = u)
  BY DEF TokenExclusion
<1>1. excl \in [Thread -> Nat] /\ shared \in [Thread -> Nat]
  BY DEF TokenInv, TokenTypeOK
<1>2. CASE ~session
  BY <1>1, <1>2 DEF TokenInv, IdleOutside, MayWrite, MayRead
<1>3. CASE session
  BY <1>1, <1>3, EntrySays DEF MayWrite, MayRead
<1> QED
  BY <1>2, <1>3

\* A thread which may borrow mutably is the only one with access to the components
\* of the type, whatever was requested, cloned, dropped or sent before
\* (ParallelTokenSource and its tracker).
THEOREM TokenExclusionTheorem == DebugBuild = TRUE => (TokenSpec => []TokenExclusion)
<1> SUFFICES ASSUME DebugBuild = TRUE PROVE TokenSpec => []TokenExclusion
  OBVIOUS
<1>1. TokenInv /\ [TokenNext]_tokenVars => TokenInv'
  BY TokenStepKeeps
<1> QED
  BY TokenInvInit, <1>1, InvExcludes, PTL DEF TokenSpec

-----------------------------------------------------------------------------
(***************************************************************************)
(* Both together.                                                          *)
(***************************************************************************)

\* Every step of the threads is one the cells allow, and one the tracker allows.
LEMMA StepsOfParts ==
  ASSUME [Next]_vars
  PROVE  [CellNext]_cellVars /\ [TokenNext]_tokenVars
<1>1. CASE CellStep
  <2>1. UNCHANGED tokenVars
    BY <1>1 DEF CellStep
  <2>2. ASSUME NEW t \in Thread, BlockGuards(t) PROVE CellNext
    BY <2>2 DEF BlockGuards, CellNext, OnBlock
  <2>3. ASSUME NEW t \in Thread, NEW s \in Slot,
               Acquire(t, s) \/ Divide(t, s) \/ Release(t, s) \/ Replace(t, s)
        PROVE  OnSlot(s)
    BY <2>3 DEF Acquire, Divide, Release, Replace, OnSlot
  <2>4. ASSUME NEW t \in Thread, NEW s \in Slot, NEW r \in Slot, SwapSlots(t, s, r)
        PROVE  OnSlot(s)
    BY <2>4 DEF SwapSlots, OnSlot
  <2> QED
    BY <1>1, <2>1, <2>2, <2>3, <2>4 DEF CellStep, CellNext
<1>2. CASE ExclusiveReference
  BY <1>2 DEF ExclusiveReference, CellNext, OnSlot, OnBlock
<1>3. CASE \E t \in Thread, s \in Slot : Get(t, s)
  BY <1>3 DEF Get
<1>4. CASE TokenStep
  <2>1. ASSUME NEW t \in Thread, TokenFreed(t) PROVE TokenNext
    BY <2>1 DEF TokenFreed, TokenNext
  <2>2. ASSUME NEW t \in Thread, TokenMade(t) PROVE TokenNext
    BY <2>2 DEF TokenMade, TokenNext
  <2>3. UNCHANGED cellVars
    BY <1>4 DEF TokenStep
  <2> QED
    BY <1>4, <2>1, <2>2, <2>3 DEF TokenStep, TokenNext
<1>5. CASE UNCHANGED vars
  BY <1>5 DEF vars
<1> QED
  BY <1>1, <1>2, <1>3, <1>4, <1>5 DEF Next

\* References are of threads with a shared token, to slots nobody borrows.
Referenced ==
  \A t \in Thread : /\ gets[t] # {} => MayRead(t)
                    /\ \A s \in gets[t] : s \in Slot /\ state[s] = NEUTRAL

Inv == CellInv /\ TokenInv /\ gets \in [Thread -> SUBSET Slot] /\ Referenced

LEMMA InvInit == Init => Inv
<1> SUFFICES ASSUME Init PROVE Inv
  OBVIOUS
<1>1. CellInv /\ TokenInv
  BY CellInvInit, TokenInvInit DEF Init
<1>2. gets \in [Thread -> SUBSET Slot] /\ Referenced
  BY DEF Init, Referenced
<1> QED
  BY <1>1, <1>2 DEF Inv

\* Who has a token to change a cell is alone, so that nobody has a reference.
LEMMA NoneReferenced ==
  ASSUME Inv, NEW t \in Thread, MayWrite(t)
  PROVE  \A u \in Thread : gets[u] = {}
  BY InvExcludes DEF Inv, Referenced, TokenExclusion

LEMMA ReferencedKept ==
  ASSUME Inv, [Next]_vars
  PROVE  gets' \in [Thread -> SUBSET Slot] /\ Referenced'
<1>1. CASE (\A u \in Thread : gets[u] = {}) /\ gets' = gets
  BY <1>1 DEF Inv, Referenced
<1>2. CASE CellStep
  <2>1. \E t \in Thread : MayWrite(t)
    BY <1>2 DEF CellStep, BlockGuards, Acquire, Divide, Release, Replace, SwapSlots, Executes,
      AccessibleExclusively
  <2> QED
    BY <1>1, <1>2, <2>1, NoneReferenced DEF CellStep
<1>3. CASE ExclusiveReference
  BY <1>1, <1>3 DEF ExclusiveReference
<1>4. ASSUME NEW t \in Thread, NEW s \in Slot, Get(t, s)
      PROVE  gets' \in [Thread -> SUBSET Slot] /\ Referenced'
  <2>1. /\ gets' = [gets EXCEPT ![t] = @ \cup {s}] /\ MayRead(t) /\ state[s] = NEUTRAL
        /\ state' = state /\ shared' = shared
    BY <1>4 DEF Get, Gettable, cellVars, tokenVars
  <2> QED
    BY <2>1 DEF Inv, Referenced, MayRead
<1>5. CASE TokenStep
  <2>1. state' = state
    BY <1>5 DEF TokenStep, cellVars
  <2>2. shared \in [Thread -> Nat] /\ gets \in [Thread -> SUBSET Slot]
    BY DEF Inv, TokenInv, TokenTypeOK
  <2>3. \A u \in Thread : gets[u] # {} => shared[u] > 0
    BY DEF Inv, Referenced, MayRead
  <2>4. /\ gets' \in [Thread -> SUBSET Slot]
        /\ \A u \in Thread : gets'[u] \subseteq gets[u] /\ (gets'[u] # {} => shared'[u] > 0)
    <3>1. CASE /\ Parallelize \/ EndParallelize \/ \E t \in Thread : BecomeMain(t)
               /\ UNCHANGED gets
      <4>1. shared' = shared
        BY <3>1 DEF Parallelize, EndParallelize, BecomeMain
      <4> QED
        BY <2>2, <2>3, <3>1, <4>1
    <3>2. ASSUME NEW t \in Thread, TokenMade(t)
          PROVE  /\ gets' = gets
                 /\ \A u \in Thread : shared'[u] \in Nat /\ shared'[u] >= shared[u]
      <4>1. shared' = shared \/ shared' = [shared EXCEPT ![t] = @ + 1]
        BY <3>2 DEF TokenMade, ExclusiveToken, SharedToken, CloneExclusive, CloneShared, Count
      <4> QED
        BY <2>2, <3>2, <4>1 DEF TokenMade
    <3>3. ASSUME NEW t \in Thread, excl[t] > 1 \/ held[t] = NoneHeld, DropExclusive(t), UNCHANGED gets
          PROVE  shared' = shared
      BY <3>3 DEF DropExclusive
    <3>4. ASSUME NEW t \in Thread, DropShared(t),
                 gets' = [gets EXCEPT ![t] = IF shared[t] > 1 THEN @ ELSE {}],
                 NEW u \in Thread
          PROVE  gets'[u] \subseteq gets[u] /\ (gets'[u] # {} => shared'[u] > 0)
      <4>1. shared' = [shared EXCEPT ![t] = @ - 1]
        BY <2>2, <3>4 DEF DropShared, Count
      <4>2. CASE u = t
        BY <2>2, <3>4, <4>1, <4>2
      <4>3. CASE u # t
        BY <2>2, <2>3, <3>4, <4>1, <4>3
      <4> QED
        BY <4>2, <4>3
    <3>5. ASSUME NEW t \in Thread, NEW v \in Thread, shared[t] > 1 \/ gets[t] = {},
                 SendShared(t, v), UNCHANGED gets, NEW u \in Thread
          PROVE  gets'[u] # {} => shared'[u] > 0
      <4>1. shared' = [shared EXCEPT ![t] = @ - 1, ![v] = @ + 1] /\ t # v
        BY <3>5 DEF SendShared
      <4>2. CASE u = t
        BY <2>2, <3>5, <4>1, <4>2
      <4>3. CASE u = v
        BY <2>2, <3>5, <4>1, <4>3
      <4>4. CASE u # t /\ u # v
        BY <2>2, <2>3, <3>5, <4>1, <4>4
      <4> QED
        BY <4>2, <4>3, <4>4
    <3>6. CASE \E t \in Thread : TokenMade(t)
      <4>1. /\ gets' = gets
            /\ \A u \in Thread : shared'[u] \in Nat /\ shared'[u] >= shared[u]
        BY <3>2, <3>6
      <4> QED
        BY <2>2, <2>3, <4>1
    <3>7. ASSUME NEW t \in Thread, TokenFreed(t), NEW u \in Thread
          PROVE  gets'[u] \subseteq gets[u] /\ (gets'[u] # {} => shared'[u] > 0)
      BY <2>3, <3>3, <3>4, <3>5, <3>7 DEF TokenFreed
    <3>8. ASSUME NEW t \in Thread, TokenFreed(t)
          PROVE  gets' \in [Thread -> SUBSET Slot]
      BY <2>2, <3>8 DEF TokenFreed
    <3> QED
      BY <1>5, <3>1, <3>6, <3>7, <3>8 DEF TokenStep
  <2> QED
    BY <2>1, <2>4 DEF Inv, Referenced, MayRead
<1>6. CASE UNCHANGED vars
  BY <1>6 DEF vars, cellVars, tokenVars, Inv, Referenced, MayRead
<1> QED
  BY <1>2, <1>3, <1>4, <1>5, <1>6 DEF Next

LEMMA InvStep ==
  ASSUME Inv, Disciplined, [Next]_vars
  PROVE  Inv'
<1>1. DebugBuild = TRUE
  BY TokenCellsAssumption DEF Disciplined
<1>2. CellInv' /\ TokenInv'
  BY <1>1, StepsOfParts, CellStepKeeps, TokenStepKeeps DEF Inv
<1> QED
  BY <1>2, ReferencedKept DEF Inv

\* The composition implements both of its parts, whatever the threads do: threads
\* use a block and its tokens in no way which BorrowCell and TokenSource leave out.
THEOREM PartsTheorem == Spec => CellSpec /\ TokenSpec
<1>1. Init => CellInit /\ TokenInit
  BY DEF Init
<1>2. [Next]_vars => [CellNext]_cellVars /\ [TokenNext]_tokenVars
  BY StepsOfParts
<1> QED
  BY <1>1, <1>2, PTL DEF Spec, CellSpec, TokenSpec

\* A reference made by get without any guard stays valid: nobody moves, replaces
\* or mutably borrows the value while its shared token is there.
THEOREM ReferencesTheorem == Disciplined => (Spec => []ReferencesStable)
<1> SUFFICES ASSUME Disciplined PROVE Spec => []ReferencesStable
  OBVIOUS
<1>1. Inv /\ [Next]_vars => Inv'
  BY InvStep
<1>2. Inv => ReferencesStable
  <2> SUFFICES ASSUME Inv, NEW t \in Thread, NEW s \in gets[t]
               PROVE  filled[s] /\ state[s] = NEUTRAL /\ muts[s] = 0
    BY DEF ReferencesStable
  <2>1. s \in Slot /\ state[s] = NEUTRAL
    BY DEF Inv, Referenced
  <2>2. CellTypeOK /\ SlotSound(s)
    BY <2>1, InvBySlot DEF Inv
  <2>3. /\ state[s] = EMPTY <=> ~filled[s]
        /\ state[s] = NEUTRAL => muts[s] = 0
    BY <2>1, <2>2, Typed, ByteSays DEF SlotSound
  <2> QED
    BY <2>1, <2>3, Arithmetic DEF EMPTY
<1> QED
  BY InvInit, <1>1, <1>2, PTL DEF Spec
=============================================================================
