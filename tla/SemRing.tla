------------------------------- MODULE SemRing -------------------------------
(***************************************************************************)
(* Semaphores/l8_ex4.c: num_threads threads count to count_max, passing a  *)
(* token around a ring of semaphores.  Each makes count_max / num_threads  *)
(* increments; then whoever has the token makes one more while the shared  *)
(* remainderr, which is read without its semaphore, is positive.           *)
(***************************************************************************)
EXTENDS Semaphore, FiniteSets

CONSTANTS count_max, num_threads

VARIABLES mutex,        \* the ring of semaphores
          remainderr,
          count,
          aux,          \* the local of increment, in each thread
          i,            \* the rounds each thread still has to make
          pc,
          main

vars == <<mutex, remainderr, count, aux, i, pc, main>>

Threads == 0 .. num_threads - 1

\* rounds: at line 28; read, write: at lines 17 and 20 of increment; pass: at
\* line 31 or 43; extra: at line 35; await: at line 36; check: at line 38;
\* dec: at line 45.
Places == {"new", "rounds", "read", "write", "pass", "extra", "await", "check",
           "dec", "done"}

quota == count_max \div num_threads

Init ==
    /\ mutex = [t \in Threads |-> IF t = 0 THEN 1 ELSE 0]
    /\ remainderr = count_max % num_threads
    /\ count = 0
    /\ aux = [t \in Threads |-> 0]
    /\ i = [t \in Threads |-> quota]
    /\ pc = [t \in Threads |-> "new"]
    /\ main = "running"

Move(t, from, to) == pc[t] = from /\ pc' = [pc EXCEPT ![t] = to]

NextOf(t) == (t + 1) % num_threads
------------------------------------------------------------------------------
TakeToken(t) ==
    /\ i[t] > 0
    /\ Move(t, "rounds", "read")
    /\ SemWaitAt(mutex, t)
    /\ UNCHANGED <<remainderr, count, aux, i, main>>

\* increment reads count and writes it back with no lock of its own.
ReadCount(t) ==
    /\ Move(t, "read", "write")
    /\ aux' = [aux EXCEPT ![t] = count]
    /\ UNCHANGED <<mutex, remainderr, count, i, main>>

WriteCount(t) ==
    /\ Move(t, "write", "pass")
    /\ count' = aux[t] + 1
    /\ UNCHANGED <<mutex, remainderr, aux, i, main>>

\* Lines 31-32 in a round.
PassToken(t) ==
    /\ i[t] > 0
    /\ Move(t, "pass", "rounds")
    /\ SemPostAt(mutex, NextOf(t))
    /\ i' = [i EXCEPT ![t] = @ - 1]
    /\ UNCHANGED <<remainderr, count, aux, main>>

EndRounds(t) ==
    /\ i[t] = 0
    /\ Move(t, "rounds", "extra")
    /\ UNCHANGED <<mutex, remainderr, count, aux, i, main>>
------------------------------------------------------------------------------
\* Mutant of RemainderLeft: off by one.
RemainderButOne == remainderr > 1

RemainderLeft == remainderr > 0

\* Line 35.
StartExtra(t) ==
    /\ RemainderLeft
    /\ Move(t, "extra", "await")
    /\ UNCHANGED <<mutex, remainderr, count, aux, i, main>>

Finish(t) ==
    /\ ~RemainderLeft
    /\ Move(t, "extra", "done")
    /\ UNCHANGED <<mutex, remainderr, count, aux, i, main>>

TakeExtraToken(t) ==
    /\ Move(t, "await", "check")
    /\ SemWaitAt(mutex, t)
    /\ UNCHANGED <<remainderr, count, aux, i, main>>

\* Line 38, with the token.
IncrementExtra(t) ==
    /\ RemainderLeft
    /\ Move(t, "check", "read")
    /\ UNCHANGED <<mutex, remainderr, count, aux, i, main>>

\* Mutant of Break: the thread keeps the token.
BreakSilently(t) ==
    /\ ~RemainderLeft
    /\ Move(t, "check", "done")
    /\ UNCHANGED <<mutex, remainderr, count, aux, i, main>>

Break(t) ==
    /\ ~RemainderLeft
    /\ Move(t, "check", "done")
    /\ SemPostAt(mutex, NextOf(t))
    /\ UNCHANGED <<remainderr, count, aux, i, main>>

\* Line 43: the token goes on before line 46 has counted the increment.
PassExtraToken(t) ==
    /\ i[t] = 0
    /\ Move(t, "pass", "dec")
    /\ SemPostAt(mutex, NextOf(t))
    /\ UNCHANGED <<remainderr, count, aux, i, main>>

\* Lines 45-47: only this step uses mutex_rem, so the three lines are one step.
DecRemainder(t) ==
    /\ Move(t, "dec", "extra")
    /\ remainderr' = remainderr - 1
    /\ UNCHANGED <<mutex, count, aux, i, main>>
------------------------------------------------------------------------------
ThreadStep(t) ==
    \/ TakeToken(t) \/ ReadCount(t) \/ WriteCount(t) \/ PassToken(t)
    \/ EndRounds(t) \/ StartExtra(t) \/ Finish(t) \/ TakeExtraToken(t)
    \/ IncrementExtra(t) \/ Break(t) \/ PassExtraToken(t) \/ DecRemainder(t)

\* main creates the threads in order, and joins them.
Create(t) ==
    /\ \A j \in Threads : j < t => pc[j] # "new"
    /\ Move(t, "new", "rounds")
    /\ UNCHANGED <<mutex, remainderr, count, aux, i, main>>

\* The semaphores are freed (line 98) once every thread has been joined.  Line 91
\* destroys semaphore i as soon as thread i is joined, which glibc ignores.
JoinedAll ==
    /\ main = "running"
    /\ \A t \in Threads : pc[t] = "done"
    /\ main' = "done"
    /\ UNCHANGED <<mutex, remainderr, count, aux, i, pc>>

MainStep == JoinedAll \/ \E t \in Threads : Create(t)

Terminated == main = "done" /\ UNCHANGED vars

Next == MainStep \/ (\E t \in Threads : ThreadStep(t)) \/ Terminated

Spec == Init /\ [][Next]_vars

\* The scheduler runs every thread that can run.
FairSpec == Spec /\ WF_vars(MainStep) /\ \A t \in Threads : WF_vars(ThreadStep(t))
------------------------------------------------------------------------------
\* The type invariant.  remainderr goes below 0 when several threads pass line 38
\* before the first of them gets to line 46, at most one lap of the ring.
TypeOK ==
    /\ mutex \in [Threads -> 0 .. 1]
    /\ remainderr \in 1 - num_threads .. num_threads - 1
    /\ count \in 0 .. count_max + num_threads
    /\ aux \in [Threads -> 0 .. count_max + num_threads]
    /\ i \in [Threads -> 0 .. quota]
    /\ pc \in [Threads -> Places]
    /\ main \in {"running", "done"}

Holders == {t \in Threads : pc[t] \in {"read", "write", "pass", "check"}}

\* There is one token, in a semaphore or with one thread, so that the unlocked
\* count = aux + 1 of increment loses no update; neither the break on line 40 nor
\* leaving the loop on line 35 duplicates it.
OneToken ==
    /\ \A t \in Threads : mutex[t] <= 1
    /\ Cardinality(Holders) + Cardinality({t \in Threads : mutex[t] = 1}) = 1

\* "so we don't miss any count" (line 61): when the threads have been joined none
\* is missing, and what was counted too much, less than a lap, is in remainderr.
NothingMissed ==
    main = "done" =>
        /\ count = count_max - remainderr
        /\ count \in count_max .. count_max + num_threads - 1

Finished == main = "done" /\ count = count_max

\* The token is in the semaphore of a thread that has left the loop on line 35
\* without it, and another thread waits on line 36.
StrandedToken ==
    \E t, u \in Threads : mutex[t] = 1 /\ pc[t] = "done" /\ pc[u] = "await"

\* A thread that leaves because nothing remains releases the next one (lines 38-39),
\* so every thread returns, and main frees the semaphores and exits.
Termination == <>(main = "done")

\* The turns taken in the rounds; the extra increments are not part of them.
Taken == [t \in Threads |-> quota - i[t]]
==============================================================================
