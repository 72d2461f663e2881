---------------------------- MODULE TokenSource ----------------------------
(***************************************************************************)
(* The main thread and its ParallelTokenSource (src/src/core/token.rs):    *)
(* which threads hold tokens for one component type.  Types do not         *)
(* interact: the tracker is a map from types.                              *)
(*                                                                         *)
(* Each operation on the tracker happens under its mutex, and is one       *)
(* action.  Calls which panic before they write are no actions.            *)
(***************************************************************************)
EXTENDS Integers, FiniteSets

CONSTANTS
  Thread,
  NoThread,
  MaxRc,            \* isize::MAX, the limit of the tracker's counter
  DebugBuild        \* cfg(debug_assertions)

ASSUME TokenSourceAssumption ==
  /\ NoThread \notin Thread
  /\ MaxRc \in Nat \ {0}
  /\ DebugBuild \in BOOLEAN

VARIABLES
  main,      \* the thread for which IS_MAIN_THREAD is set
  session,   \* is the main thread suspended in parallelize?
  excl,      \* how many TypeExclusiveTokens of the session each thread holds
  shared,    \* how many TypeSharedTokens
  entry      \* the tracker's entry for the type; rc = 0 stands for no entry

tokenVars == <<main, session, excl, shared, entry>>

NoEntry == [rc |-> 0, owner |-> NoThread]

TokenInit ==
  /\ main = NoThread
  /\ session = FALSE
  /\ excl = [t \in Thread |-> 0]
  /\ shared = [t \in Thread |-> 0]
  /\ entry = NoEntry

\* HAS_MAIN_THREAD is set by the first thread to compare-and-swap it.
BecomeMain(t) ==
  /\ main = NoThread
  /\ main' = t
  /\ UNCHANGED <<session, excl, shared, entry>>

\* The main thread blocks until the scope's threads are done.
Parallelize ==
  /\ main # NoThread
  /\ ~session
  /\ session' = TRUE
  /\ entry' = NoEntry
  /\ UNCHANGED <<main, excl, shared>>

\* Tokens borrow from the source: none outlives it.
EndParallelize ==
  /\ session
  /\ \A t \in Thread : excl[t] = 0 /\ shared[t] = 0
  /\ session' = FALSE
  /\ UNCHANGED <<main, excl, shared, entry>>

\* The threads spawned below parallelize.
Worker(t) == session /\ t # main

Count(f, t, n) == [f EXCEPT ![t] = @ + n]

Free == entry = NoEntry

\* Mutant: the owner is not compared.
OwnsAnyone(t) == entry.owner # NoThread

Owns(t) == entry.owner = t

ExclusiveToken(t) ==
  /\ Worker(t)
  /\ \/ Free /\ entry' = [rc |-> 1, owner |-> t]
     \/ /\ Owns(t)
        /\ entry.rc < MaxRc
        /\ entry' = [entry EXCEPT !.rc = @ + 1]
  /\ excl' = Count(excl, t, 1)
  /\ UNCHANGED <<main, session, shared>>

\* debug_assert!(owner.is_none())
UnownedInDebug == DebugBuild => entry.owner = NoThread

SharedToken(t) ==
  /\ Worker(t)
  /\ \/ Free /\ entry' = [rc |-> -1, owner |-> NoThread]
     \/ /\ ~Free
        /\ UnownedInDebug
        /\ entry.rc > -(MaxRc + 1)
        /\ entry' = [entry EXCEPT !.rc = @ - 1]
  /\ shared' = Count(shared, t, 1)
  /\ UNCHANGED <<main, session, excl>>

CloneExclusive(t) ==
  /\ excl[t] > 0
  /\ entry.rc < MaxRc
  /\ entry' = [entry EXCEPT !.rc = @ + 1]
  /\ excl' = Count(excl, t, 1)
  /\ UNCHANGED <<main, session, shared>>

CloneShared(t) ==
  /\ shared[t] > 0
  /\ entry.rc > -(MaxRc + 1)
  /\ entry' = [entry EXCEPT !.rc = @ - 1]
  /\ shared' = Count(shared, t, 1)
  /\ UNCHANGED <<main, session, excl>>

\* Mutant: the entry goes with the first token dropped.
ReleasedAtOnce(n) == NoEntry

\* The entry goes with the last token.
Released(n) == IF entry.rc + n = 0 THEN NoEntry ELSE [entry EXCEPT !.rc = @ + n]

DropExclusive(t) ==
  /\ excl[t] > 0
  /\ entry' = Released(-1)
  /\ excl' = Count(excl, t, -1)
  /\ UNCHANGED <<main, session, shared>>

DropShared(t) ==
  /\ shared[t] > 0
  /\ entry' = Released(1)
  /\ shared' = Count(shared, t, -1)
  /\ UNCHANGED <<main, session, excl>>

\* Shared tokens are Send, exclusive ones are not.
SendShared(t, u) ==
  /\ shared[t] > 0
  /\ Worker(u)
  /\ t # u
  /\ shared' = [shared EXCEPT ![t] = @ - 1, ![u] = @ + 1]
  /\ UNCHANGED <<main, session, excl, entry>>

TokenNext ==
  \/ Parallelize
  \/ EndParallelize
  \/ \E t \in Thread :
       \/ BecomeMain(t)
       \/ ExclusiveToken(t) \/ SharedToken(t)
       \/ CloneExclusive(t) \/ CloneShared(t)
       \/ DropExclusive(t) \/ DropShared(t)
       \/ \E u \in Thread : SendShared(t, u)

TokenSpec == TokenInit /\ [][TokenNext]_tokenVars

-----------------------------------------------------------------------------

\* check_access: MainThreadToken and TypeExclusiveToken grant exclusive access,
\* TypeSharedToken shared access.  A suspended main thread executes nothing.
MayWrite(t) == (t = main /\ ~session) \/ excl[t] > 0
MayRead(t) == shared[t] > 0

TokenTypeOK ==
  /\ main \in Thread \cup {NoThread}
  /\ session \in BOOLEAN
  /\ excl \in [Thread -> Nat]
  /\ shared \in [Thread -> Nat]
  /\ entry \in [rc : -(MaxRc + 1)..MaxRc, owner : Thread \cup {NoThread}]

\* "Only one thread has access at a time" (token.rs:20-21): a thread which may
\* borrow mutably excludes every other thread, and shared tokens of its own.
TokenExclusion ==
  \A t, u \in Thread : MayWrite(t) => /\ ~MayRead(u)
                                      /\ MayWrite(u) => t = u
=============================================================================
