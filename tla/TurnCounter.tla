----------------------------- MODULE TurnCounter -----------------------------
(***************************************************************************)
(* ThreadCriticalRegion/Lab9_ex1.c: n threads increment one counter m      *)
(* times each, in turn, under a mutex and one condition variable that      *)
(* every increment broadcasts.                                             *)
(***************************************************************************)
EXTENDS Posix, FiniteSets

CONSTANTS n,    \* number of threads
          m     \* number of times each thread increments the global variable

ASSUME TurnCounterAssumption == n \in Nat \ {0} /\ m \in Nat /\ Nobody \notin 0 .. n - 1

VARIABLES mutex, cond, count,
          i,        \* the loop variable of each thread
          pc,
          main

vars == <<mutex, cond, count, i, pc, main>>

Threads == 0 .. n - 1

\* loop: at line 16; test: at line 18 with the mutex; waiting: in line 19.
Places == {"new", "loop", "test", "waiting", "done"}

Init ==
    /\ mutex = Nobody
    /\ cond = {}
    /\ count = 0
    /\ i = [t \in Threads |-> 0]
    /\ pc = [t \in Threads |-> "new"]
    /\ main = "running"

Move(t, from, to) == pc[t] = from /\ pc' = [pc EXCEPT ![t] = to]

MyTurn(t) == count % n = t

\* Mutant of LockToTest: one round too many.
LockToTestAgain(t) ==
    /\ i[t] <= m
    /\ Move(t, "loop", "test")
    /\ Lock(mutex, t)
    /\ UNCHANGED <<cond, count, i, main>>

LockToTest(t) ==
    /\ i[t] < m
    /\ Move(t, "loop", "test")
    /\ Lock(mutex, t)
    /\ UNCHANGED <<cond, count, i, main>>

Wait(t) ==
    /\ Move(t, "test", "waiting")
    /\ ~MyTurn(t)
    /\ CondWait(cond, mutex, t)
    /\ UNCHANGED <<count, i, main>>

\* Mutant of WakeUp: an if in the place of the while of line 18.
WakeUpAndIncrement(t) ==
    /\ t \notin cond
    /\ Move(t, "waiting", "loop")
    /\ mutex = Nobody
    /\ count' = count + 1
    /\ Broadcast(cond)
    /\ i' = [i EXCEPT ![t] = @ + 1]
    /\ UNCHANGED <<mutex, main>>

WakeUp(t) ==
    /\ t \notin cond
    /\ Move(t, "waiting", "test")
    /\ Lock(mutex, t)
    /\ UNCHANGED <<cond, count, i, main>>

\* Mutant of WakeWaiting: it wakes one thread.
WakeOne == Signal(cond)

\* "signal the next waiting thread to run" (line 24)
WakeWaiting == Broadcast(cond)

Increment(t) ==
    /\ Move(t, "test", "loop")
    /\ MyTurn(t)
    /\ count' = count + 1
    /\ WakeWaiting
    /\ Unlock(mutex, t)
    /\ i' = [i EXCEPT ![t] = @ + 1]
    /\ UNCHANGED main

Return(t) ==
    /\ i[t] = m
    /\ Move(t, "loop", "done")
    /\ UNCHANGED <<mutex, cond, count, i, main>>

ThreadStep(t) ==
    LockToTest(t) \/ Wait(t) \/ WakeUp(t) \/ Increment(t) \/ Return(t)

Spurious == SpuriousWakeup(cond) /\ UNCHANGED <<mutex, count, i, pc, main>>

\* main creates the threads in order, and joins them.
Create(t) ==
    /\ \A j \in Threads : j < t => pc[j] # "new"
    /\ Move(t, "new", "loop")
    /\ UNCHANGED <<mutex, cond, count, i, main>>

JoinedAll ==
    /\ main = "running"
    /\ \A t \in Threads : pc[t] = "done"
    /\ main' = "done"
    /\ UNCHANGED <<mutex, cond, count, i, pc>>

MainStep == JoinedAll \/ \E t \in Threads : Create(t)

Terminated == main = "done" /\ UNCHANGED vars

Next == MainStep \/ (\E t \in Threads : ThreadStep(t)) \/ Spurious \/ Terminated

Spec == Init /\ [][Next]_vars
------------------------------------------------------------------------------
\* The type invariant.
TypeOK ==
    /\ mutex \in Threads \cup {Nobody}
    /\ cond \in SUBSET Threads
    /\ count \in 0 .. n * m
    /\ i \in [Threads -> 0 .. m]
    /\ pc \in [Threads -> Places]
    /\ main \in {"running", "done"}

\* No thread sleeps through its turn: when an increment makes it thread t's turn,
\* t is not asleep on the condition variable, whatever the others are doing.
NoLostTurn == \A t \in cond : ~MyTurn(t)

\* Every thread has had all its turns, the final count is n * m (line 55), and main
\* destroys a mutex nobody holds and a condition variable nobody sleeps on.
Finished == main = "done" /\ count = n * m /\ mutex = Nobody /\ cond = {}
==============================================================================
