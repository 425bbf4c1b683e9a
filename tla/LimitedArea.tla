----------------------------- MODULE LimitedArea -----------------------------
(***************************************************************************)
(* ConditionalLock/using-conds.c: N threads enter a limited area that      *)
(* holds M of them, under one mutex and one condition variable.            *)
(*                                                                         *)
(* th_no is only written by the holder of the mutex, so the instructions   *)
(* between two blocking calls are one step.  The printf on line 59 reads   *)
(* th_no without the mutex: what it can print is what th_no can be.        *)
(***************************************************************************)
EXTENDS Posix, FiniteSets

CONSTANTS Threads,  \* the N threads main creates
          M         \* how many may be in the limited area

ASSUME LimitedAreaAssumption ==
    /\ IsFiniteSet(Threads)
    /\ M \in Nat \ {0}
    /\ Nobody \notin Threads

VARIABLES lock,     \* the mutex
          cond,     \* the condition variable
          th_no,    \* the counter of threads in the area
          pc,       \* where each thread is
          main      \* running, or done with its joins

vars == <<lock, cond, th_no, pc, main>>

\* new: not created yet; enter: at the lock of line 30; test: at line 35 with
\* the mutex; waiting: in the call of line 36; inside: lines 46-72; leaving: at
\* line 78 with the mutex; done: returned.
Places == {"new", "enter", "test", "waiting", "inside", "leaving", "done"}

Init ==
    /\ lock = Nobody
    /\ cond = {}
    /\ th_no = 0
    /\ pc = [t \in Threads |-> "new"]
    /\ main = "running"

Goto(t, place) == pc' = [pc EXCEPT ![t] = place]
------------------------------------------------------------------------------
(* The thread function limited_area.                                       *)

\* Mutant of PlaceFree: off by one.
PlaceFreeOffByOne == th_no <= M

\* The negated condition of the while of line 35.
PlaceFree == th_no < M

LockToEnter(t) ==
    /\ pc[t] = "enter"
    /\ Lock(lock, t)
    /\ Goto(t, "test")
    /\ UNCHANGED <<cond, th_no, main>>

Wait(t) ==
    /\ pc[t] = "test"
    /\ ~PlaceFree
    /\ CondWait(cond, lock, t)
    /\ Goto(t, "waiting")
    /\ UNCHANGED <<th_no, main>>

\* Mutant of WakeUp: an if in the place of the while of line 35.
WakeUpInside(t) ==
    /\ pc[t] = "waiting"
    /\ t \notin cond
    /\ lock = Nobody
    /\ th_no' = th_no + 1
    /\ Goto(t, "inside")
    /\ UNCHANGED <<lock, cond, main>>

\* pthread_cond_wait returns with the mutex, and the loop tests again.
WakeUp(t) ==
    /\ pc[t] = "waiting"
    /\ t \notin cond
    /\ Lock(lock, t)
    /\ Goto(t, "test")
    /\ UNCHANGED <<cond, th_no, main>>

\* Mutant of Enter: the thread does not count itself.
EnterUncounted(t) ==
    /\ pc[t] = "test"
    /\ PlaceFree
    /\ Unlock(lock, t)
    /\ Goto(t, "inside")
    /\ UNCHANGED <<cond, th_no, main>>

Enter(t) ==
    /\ pc[t] = "test"
    /\ PlaceFree
    /\ th_no' = th_no + 1
    /\ Unlock(lock, t)
    /\ Goto(t, "inside")
    /\ UNCHANGED <<cond, main>>

LockToLeave(t) ==
    /\ pc[t] = "inside"
    /\ Lock(lock, t)
    /\ Goto(t, "leaving")
    /\ UNCHANGED <<cond, th_no, main>>

\* Mutant of SignalNewPlace: only the thread that leaves a full area signals.
SignalIfFull == IF th_no = M THEN Signal(cond) ELSE UNCHANGED cond

\* "signal that a new place is available" (line 81)
SignalNewPlace == Signal(cond)

Leave(t) ==
    /\ pc[t] = "leaving"
    /\ th_no' = th_no - 1
    /\ SignalNewPlace
    /\ Unlock(lock, t)
    /\ Goto(t, "done")
    /\ UNCHANGED main

ThreadStep(t) ==
    \/ LockToEnter(t) \/ Wait(t) \/ WakeUp(t) \/ Enter(t)
    \/ LockToLeave(t) \/ Leave(t)

Spurious ==
    /\ SpuriousWakeup(cond)
    /\ UNCHANGED <<lock, th_no, pc, main>>
------------------------------------------------------------------------------
(* main.                                                                   *)

\* Threads run the same code, so which of them is created next is immaterial.
Create ==
    /\ main = "running"
    /\ \E t \in Threads : pc[t] = "new" /\ Goto(t, "enter")
    /\ UNCHANGED <<lock, cond, th_no, main>>

\* The join loop is passed, and mutex and condition variable are destroyed.
JoinedAll ==
    /\ main = "running"
    /\ \A t \in Threads : pc[t] = "done"
    /\ main' = "done"
    /\ UNCHANGED <<lock, cond, th_no, pc>>

MainStep == Create \/ JoinedAll

Terminated == main = "done" /\ UNCHANGED vars

Next == MainStep \/ (\E t \in Threads : ThreadStep(t)) \/ Spurious \/ Terminated

Spec == Init /\ [][Next]_vars
------------------------------------------------------------------------------
\* The type invariant.
TypeOK ==
    /\ lock \in Threads \cup {Nobody}
    /\ cond \in SUBSET Threads
    /\ th_no \in 0 .. Cardinality(Threads)
    /\ pc \in [Threads -> Places]
    /\ main \in {"running", "done"}

Inside == {t \in Threads : pc[t] \in {"inside", "leaving"}}

\* "thNo should not be more than M at any time" (lines 57 and 59), of the counter
\* and of the threads it is meant to count, whatever wakes whom in which order.
AreaLimit == th_no <= M /\ th_no = Cardinality(Inside)

\* The threads that are about to test for a free place.
Contenders == {t \in Threads : pc[t] = "test" \/ (pc[t] = "waiting" /\ t \notin cond)}

\* The signal of line 82 is never lost and one per departure is enough: while
\* threads sleep, each free place has a thread on its way to test for it.
NoLostWakeup == cond # {} => M - th_no <= Cardinality(Contenders)

\* Every thread has passed, and main destroys what no thread uses any more.
Finished == main = "done" /\ th_no = 0 /\ lock = Nobody /\ cond = {}

\* The program implements the abstract bounded area.
Passed == {t \in Threads : pc[t] = "done"}
Area == INSTANCE BoundedArea WITH inside <- Inside, passed <- Passed
ImplementsSafety == Area!Safety
==============================================================================
