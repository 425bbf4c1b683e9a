-------------------------- MODULE TurnCounterSignal --------------------------
(***************************************************************************)
(* ThreadCriticalRegion/Lab9_ex1_example.c: the counter of Lab9_ex1.c, but *)
(* an increment wakes one sleeper, whichever the system picks, and every   *)
(* thread signals once more before it returns.                             *)
(***************************************************************************)
EXTENDS Posix, FiniteSets

CONSTANTS N,    \* number of threads
          M     \* number of increments of each thread

VARIABLES lock, cond, count,
          i,        \* the loop variable of each thread
          pc,
          main

vars == <<lock, cond, count, i, pc, main>>

Threads == 0 .. N - 1

\* loop: at line 31; test: at line 33 with the mutex; waiting: in line 34;
\* exit: at line 54; exiting: at line 60 with the mutex.
Places == {"new", "loop", "test", "waiting", "exit", "exiting", "done"}

max_count == N * M

Init ==
    /\ lock = Nobody
    /\ cond = {}
    /\ count = 0
    /\ i = [t \in Threads |-> 0]
    /\ pc = [t \in Threads |-> "new"]
    /\ main = "running"

Move(t, from, to) == pc[t] = from /\ pc' = [pc EXCEPT ![t] = to]

MyTurn(t) == count % N = t

LockToTest(t) ==
    /\ i[t] < M
    /\ Move(t, "loop", "test")
    /\ Lock(lock, t)
    /\ UNCHANGED <<cond, count, i, main>>

Wait(t) ==
    /\ Move(t, "test", "waiting")
    /\ ~MyTurn(t)
    /\ CondWait(cond, lock, t)
    /\ UNCHANGED <<count, i, main>>

WakeUp(t) ==
    /\ t \notin cond
    /\ Move(t, "waiting", "test")
    /\ Lock(lock, t)
    /\ UNCHANGED <<cond, count, i, main>>

\* Line 45 wakes "all waiting threads to exit", line 48 "the next waiting thread".
WakeOthers(newCount) == IF newCount = max_count THEN Broadcast(cond) ELSE Signal(cond)

\* The holder of the mutex reads count into aux, sleeps, and writes aux + 1 back.
Increment(t) ==
    /\ Move(t, "test", "loop")
    /\ MyTurn(t)
    /\ count' = count + 1
    /\ WakeOthers(count + 1)
    /\ Unlock(lock, t)
    /\ i' = [i EXCEPT ![t] = @ + 1]
    /\ UNCHANGED main

EndLoop(t) ==
    /\ i[t] = M
    /\ Move(t, "loop", "exit")
    /\ UNCHANGED <<lock, cond, count, i, main>>

LockToExit(t) ==
    /\ Move(t, "exit", "exiting")
    /\ Lock(lock, t)
    /\ UNCHANGED <<cond, count, i, main>>

Exit(t) ==
    /\ Move(t, "exiting", "done")
    /\ Signal(cond)
    /\ Unlock(lock, t)
    /\ UNCHANGED <<count, i, main>>

ThreadStep(t) ==
    \/ LockToTest(t) \/ Wait(t) \/ WakeUp(t) \/ Increment(t)
    \/ EndLoop(t) \/ LockToExit(t) \/ Exit(t)

Spurious == SpuriousWakeup(cond) /\ UNCHANGED <<lock, count, i, pc, main>>

\* main creates the threads in order, and joins them.
Create(t) ==
    /\ \A j \in Threads : j < t => pc[j] # "new"
    /\ Move(t, "new", "loop")
    /\ UNCHANGED <<lock, cond, count, i, main>>

JoinedAll ==
    /\ main = "running"
    /\ \A t \in Threads : pc[t] = "done"
    /\ main' = "done"
    /\ UNCHANGED <<lock, cond, count, i, pc>>

MainStep == JoinedAll \/ \E t \in Threads : Create(t)

Terminated == main = "done" /\ UNCHANGED vars

Next == MainStep \/ (\E t \in Threads : ThreadStep(t)) \/ Spurious \/ Terminated

\* The scheduler runs every thread that can run, and spurious wakeups do not go
\* on for ever.
Fairness ==
    /\ WF_vars(MainStep)
    /\ \A t \in Threads : WF_vars(ThreadStep(t))
    /\ <>[][~Spurious]_vars

Spec == Init /\ [][Next]_vars
FairSpec == Spec /\ Fairness
------------------------------------------------------------------------------
\* The type invariant.
TypeOK ==
    /\ lock \in Threads \cup {Nobody}
    /\ cond \in SUBSET Threads
    /\ count \in 0 .. max_count
    /\ i \in [Threads -> 0 .. M]
    /\ pc \in [Threads -> Places]
    /\ main \in {"running", "done"}

Finished == main = "done" /\ count = max_count

\* Line 48 signals "the next waiting thread to run" and line 45 wakes "all waiting
\* threads to exit": every thread makes its increments and main joins them all.
Termination == <>Finished

\* The thread whose turn it is sleeps: if it is never woken again, nothing moves.
LostTurn == \E t \in cond : MyTurn(t)
==============================================================================
