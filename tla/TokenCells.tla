----------------------------- MODULE TokenCells -----------------------------
(***************************************************************************)
(* NMultiOptRefCell and NOptRefCell (src/src/core/token_cell.rs): cells    *)
(* which are Sync although their bytes are plain memory, because every     *)
(* method asks for a token.  Composes BorrowCell with TokenSource: threads *)
(* use one block, as far as their tokens allow.                            *)
(*                                                                         *)
(* What Rust's lifetimes enforce is part of the guards: a guard or a       *)
(* reference does not outlive the token it was made with, and guards stay  *)
(* on their thread.                                                        *)
(***************************************************************************)
EXTENDS BorrowCell, TokenSource

CONSTANTS
  MaxGuards,    \* bound: guards of one thread at a time
  MaxTokens     \* bound: tokens of one thread at a time

ASSUME TokenCellsAssumption == DebugBuild = DebugAssertions

VARIABLES
  held,   \* per thread, the guards it has: of slots, of closures, of the block
  gets    \* per thread, the slots it has a plain reference to (get, try_get)

vars == <<cellVars, tokenVars, held, gets>>

NoneHeld == [ref |-> [s \in Slot |-> 0], mut |-> [s \in Slot |-> 0],
             fn |-> {}, all |-> 0, allMut |-> 0]

Init ==
  /\ CellInit
  /\ TokenInit
  /\ held = [t \in Thread |-> NoneHeld]
  /\ gets = [t \in Thread |-> {}]

HeldBy(t) ==
  LET sum[n \in 0..NSlots] ==
        IF n = 0 THEN 0 ELSE sum[n - 1] + held[t].ref[n] + held[t].mut[n]
  IN sum[NSlots] + held[t].all + held[t].allMut + Cardinality(held[t].fn)

Room(t) == HeldBy(t) < MaxGuards

\* Mutant: any token will do, as for is_empty.
AccessibleAny(t) == MayWrite(t) \/ MayRead(t)

\* assert_accessible_by(token, Exclusive), the token being on this thread.
AccessibleExclusively(t) == MayWrite(t)

\* Mutant: get is content with an exclusive token.
GettableAny(t) == MayWrite(t) \/ MayRead(t)

\* assert_accessible_by(token, Shared)
Gettable(t) == MayRead(t)

-----------------------------------------------------------------------------
(* Guarded borrows.                                                        *)

\* One guard of the kind more or less.
HoldMore(t, kind, s, n) == held' = [held EXCEPT ![t][kind][s] = @ + n]
HoldBlock(t, kind, n) == held' = [held EXCEPT ![t][kind] = @ + n]

Acquire(t, s) ==
  /\ AccessibleExclusively(t)
  /\ Room(t)
  /\ \/ Borrow(s) /\ HoldMore(t, "ref", s, 1)
     \/ BorrowMut(s) /\ HoldMore(t, "mut", s, 1)

\* Methods of the guards need no token: the guard's lifetime stands for it.
Executes(t) == AccessibleExclusively(t)

Divide(t, s) ==
  /\ Executes(t)
  /\ Room(t)
  /\ \/ held[t].ref[s] > 0 /\ CloneRef(s) /\ HoldMore(t, "ref", s, 1)
     \/ held[t].mut[s] > 0 /\ SplitMut(s) /\ HoldMore(t, "mut", s, 1)

Release(t, s) ==
  /\ Executes(t)
  /\ \/ held[t].ref[s] > 0 /\ (DropRef(s) \/ LeakRef(s)) /\ HoldMore(t, "ref", s, -1)
     \/ held[t].mut[s] > 0 /\ (DropMut(s) \/ LeakMut(s)) /\ HoldMore(t, "mut", s, -1)

BlockGuards(t) ==
  /\ Executes(t)
  /\ \/ Room(t) /\ BorrowAll /\ HoldBlock(t, "all", 1)
     \/ Room(t) /\ BorrowAllMut /\ HoldBlock(t, "allMut", 1)
     \/ held[t].all > 0 /\ DropAll /\ HoldBlock(t, "all", -1)
     \/ held[t].allMut > 0 /\ DropAllMut /\ HoldBlock(t, "allMut", -1)

Replace(t, s) ==
  /\ Executes(t)
  /\ \/ /\ Room(t)
        /\ ReplaceBegin(s)
        /\ held' = [held EXCEPT ![t].fn = @ \cup {s}]
     \/ /\ s \in held[t].fn
        /\ ReplaceEmpty(s) \/ \E some \in BOOLEAN : ReplaceFull(s, some)
        /\ held' = [held EXCEPT ![t].fn = @ \ {s}]

SwapSlots(t, s, r) ==
  /\ AccessibleExclusively(t)
  /\ Swap(s, r)
  /\ UNCHANGED held

CellStep ==
  /\ \E t \in Thread :
       \/ BlockGuards(t)
       \/ \E s \in Slot : \/ Acquire(t, s) \/ Divide(t, s) \/ Release(t, s)
                          \/ Replace(t, s)
                          \/ \E r \in Slot : SwapSlots(t, s, r)
  /\ UNCHANGED <<tokenVars, gets>>

\* set and undo_leak take &mut self, into_inner takes the cell, and none a token.
ExclusiveReference ==
  /\ \A t \in Thread : gets[t] = {}
  /\ UndoLeak \/ IntoInner \/ \E s \in Slot, some \in BOOLEAN : Set(s, some)
  /\ UNCHANGED <<tokenVars, held, gets>>

-----------------------------------------------------------------------------
(* Unguarded references.                                                   *)

\* try_get, get_or_none, get: the byte is read and not written.
Get(t, s) ==
  /\ Gettable(t)
  /\ state[s] = NEUTRAL
  /\ gets' = [gets EXCEPT ![t] = @ \cup {s}]
  /\ UNCHANGED <<cellVars, tokenVars, held>>

-----------------------------------------------------------------------------
(* Tokens, which guards and references keep from being dropped or sent.    *)

TokenFreed(t) ==
  \/ /\ excl[t] > 1 \/ held[t] = NoneHeld
     /\ DropExclusive(t)
     /\ UNCHANGED gets
  \/ /\ DropShared(t)
     /\ gets' = [gets EXCEPT ![t] = IF shared[t] > 1 THEN @ ELSE {}]
  \/ /\ shared[t] > 1 \/ gets[t] = {}
     /\ \E u \in Thread : shared[u] < MaxTokens /\ SendShared(t, u)
     /\ UNCHANGED gets

TokenMade(t) ==
  /\ excl[t] + shared[t] < MaxTokens
  /\ ExclusiveToken(t) \/ SharedToken(t) \/ CloneExclusive(t) \/ CloneShared(t)
  /\ UNCHANGED gets

TokenStep ==
  /\ \/ (Parallelize \/ EndParallelize \/ \E t \in Thread : BecomeMain(t)) /\ UNCHANGED gets
     \/ \E t \in Thread : TokenFreed(t) \/ TokenMade(t)
  /\ UNCHANGED <<cellVars, held>>

Next ==
  \/ CellStep
  \/ ExclusiveReference
  \/ \E t \in Thread, s \in Slot : Get(t, s)
  \/ TokenStep

Spec == Init /\ [][Next]_vars

-----------------------------------------------------------------------------

TypeOK ==
  /\ CellTypeOK
  /\ TokenTypeOK
  /\ held \in [Thread -> [ref : [Slot -> Nat], mut : [Slot -> Nat], fn : SUBSET Slot,
                          all : Nat, allMut : {0, 1}]]
  /\ gets \in [Thread -> SUBSET Slot]

\* get takes no guard: what keeps its reference valid is that nobody can have
\* the token which moving, replacing or borrowing the value mutably would need,
\* and that nothing borrowed earlier, by the suspended main thread included, was
\* overlooked.
ReferencesStable ==
  \A t \in Thread : \A s \in gets[t] : filled[s] /\ state[s] = NEUTRAL /\ muts[s] = 0
=============================================================================
