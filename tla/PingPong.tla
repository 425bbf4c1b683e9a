------------------------------ MODULE PingPong ------------------------------
(***************************************************************************)
(* Semaphores/l8_ex3.c: two threads count to count_max in alternation,     *)
(* each waiting on its own semaphore and posting the other's.              *)
(***************************************************************************)
EXTENDS Semaphore

CONSTANT count_max

VARIABLES sems,     \* mutex, for thread 0, and mutex2, for thread 1
          count,
          aux,      \* the local of increment, in each thread
          i,        \* the rounds each thread still has to make
          pc,
          main

vars == <<sems, count, aux, i, pc, main>>

Threads == {0, 1}
quota == count_max \div 2

\* loop: at line 26; read, write: at lines 14 and 17 of increment; post: at line 30
\* or 34.
Places == {"new", "loop", "read", "write", "post", "done"}

Init ==
    /\ sems = [t \in Threads |-> IF t = 0 THEN 1 ELSE 0]
    /\ count = 0
    /\ aux = [t \in Threads |-> 0]
    /\ i = [t \in Threads |-> quota]
    /\ pc = [t \in Threads |-> "new"]
    /\ main = "running"

Move(t, from, to) == pc[t] = from /\ pc' = [pc EXCEPT ![t] = to]

Wait(t) ==
    /\ i[t] > 0
    /\ Move(t, "loop", "read")
    /\ SemWaitAt(sems, t)
    /\ UNCHANGED <<count, aux, i, main>>

ReadCount(t) ==
    /\ Move(t, "read", "write")
    /\ aux' = [aux EXCEPT ![t] = count]
    /\ UNCHANGED <<sems, count, i, main>>

WriteCount(t) ==
    /\ Move(t, "write", "post")
    /\ count' = aux[t] + 1
    /\ UNCHANGED <<sems, aux, i, main>>

Post(t) ==
    /\ Move(t, "post", "loop")
    /\ SemPostAt(sems, 1 - t)
    /\ i' = [i EXCEPT ![t] = @ - 1]
    /\ UNCHANGED <<count, aux, main>>

Return(t) ==
    /\ i[t] = 0
    /\ Move(t, "loop", "done")
    /\ UNCHANGED <<sems, count, aux, i, main>>

ThreadStep(t) == Wait(t) \/ ReadCount(t) \/ WriteCount(t) \/ Post(t) \/ Return(t)

\* main creates thread 0 first, and joins both.
Create(t) ==
    /\ \A j \in Threads : j < t => pc[j] # "new"
    /\ Move(t, "new", "loop")
    /\ UNCHANGED <<sems, count, aux, i, main>>

JoinedAll ==
    /\ main = "running"
    /\ \A t \in Threads : pc[t] = "done"
    /\ main' = "done"
    /\ UNCHANGED <<sems, count, aux, i, pc>>

MainStep == JoinedAll \/ \E t \in Threads : Create(t)

Terminated == main = "done" /\ UNCHANGED vars

Next == MainStep \/ (\E t \in Threads : ThreadStep(t)) \/ Terminated

Spec == Init /\ [][Next]_vars
------------------------------------------------------------------------------
\* The type invariant.
TypeOK ==
    /\ sems \in [Threads -> 0 .. 1]
    /\ count \in 0 .. 2 * quota
    /\ aux \in [Threads -> 0 .. 2 * quota]
    /\ i \in [Threads -> 0 .. quota]
    /\ pc \in [Threads -> Places]
    /\ main \in {"running", "done"}

\* Of an odd count_max the program counts one less, and prints it as if it had been
\* counted (the "very cheap fix" of line 71).
Finished == main = "done" /\ count = 2 * quota

Taken == [t \in Threads |-> quota - i[t]]
==============================================================================
