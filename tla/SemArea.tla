------------------------------- MODULE SemArea -------------------------------
(***************************************************************************)
(* Semaphores/l8_ex2.c: the limited area again, with a counting semaphore  *)
(* mutex of M places and a binary semaphore mutex2 for the counter th_no.  *)
(* PracticeProblems(All topics)/ex6.c (the car park) has the same thread   *)
(* function with a pthread mutex in the place of mutex2.                   *)
(***************************************************************************)
EXTENDS Semaphore, FiniteSets

CONSTANTS Threads,  \* the threads main creates
          M         \* the initial value of mutex

SemAreaAssumption == IsFiniteSet(Threads) /\ M \in Nat \ {0}

VARIABLES mutex,    \* the free places
          mutex2,   \* 1 when th_no may be changed
          th_no,    \* the counter of threads in the area
          pc,
          main

vars == <<mutex, mutex2, th_no, pc, main>>

\* start: at line 27; enter: at line 13; count: at line 14 with mutex2;
\* area: lines 17-20; uncount: at line 21 with mutex2; leave: at line 29.
Places == {"new", "start", "enter", "count", "area", "uncount", "leave", "done"}

Init ==
    /\ mutex = M
    /\ mutex2 = 1
    /\ th_no = 0
    /\ pc = [t \in Threads |-> "new"]
    /\ main = "running"

Move(t, from, to) == pc[t] = from /\ pc' = [pc EXCEPT ![t] = to]

TakePlace(t) ==
    /\ Move(t, "start", "enter")
    /\ SemWait(mutex)
    /\ UNCHANGED <<mutex2, th_no, main>>

\* limited_area takes mutex2 on line 13 and again on line 20.
LockCounter(t) ==
    /\ Move(t, "enter", "count") \/ Move(t, "area", "uncount")
    /\ SemWait(mutex2)
    /\ UNCHANGED <<mutex, th_no, main>>

CountIn(t) ==
    /\ Move(t, "count", "area")
    /\ th_no' = th_no + 1
    /\ SemPost(mutex2)
    /\ UNCHANGED <<mutex, main>>

\* Mutant of CountOut: the thread does not count itself out.
CountOutForgotten(t) ==
    /\ Move(t, "uncount", "leave")
    /\ SemPost(mutex2)
    /\ UNCHANGED <<mutex, th_no, main>>

CountOut(t) ==
    /\ Move(t, "uncount", "leave")
    /\ th_no' = th_no - 1
    /\ SemPost(mutex2)
    /\ UNCHANGED <<mutex, main>>

\* Mutant of GivePlace: the wrong semaphore.
GiveWrongSemaphore(t) ==
    /\ Move(t, "leave", "done")
    /\ SemPost(mutex2)
    /\ UNCHANGED <<mutex, th_no, main>>

GivePlace(t) ==
    /\ Move(t, "leave", "done")
    /\ SemPost(mutex)
    /\ UNCHANGED <<mutex2, th_no, main>>

ThreadStep(t) ==
    TakePlace(t) \/ LockCounter(t) \/ CountIn(t) \/ CountOut(t) \/ GivePlace(t)

Create ==
    /\ main = "running"
    /\ \E t \in Threads : Move(t, "new", "start")
    /\ UNCHANGED <<mutex, mutex2, th_no, main>>

JoinedAll ==
    /\ main = "running"
    /\ \A t \in Threads : pc[t] = "done"
    /\ main' = "done"
    /\ UNCHANGED <<mutex, mutex2, th_no, pc>>

Terminated == main = "done" /\ UNCHANGED vars

MainStep == Create \/ JoinedAll

Next == MainStep \/ (\E t \in Threads : ThreadStep(t)) \/ Terminated

Spec == Init /\ [][Next]_vars
------------------------------------------------------------------------------
\* The type invariant.
TypeOK ==
    /\ mutex \in 0 .. M
    /\ mutex2 \in 0 .. 1
    /\ th_no \in 0 .. M
    /\ pc \in [Threads -> Places]
    /\ main \in {"running", "done"}

At(places) == {t \in Threads : pc[t] \in places}
Inside == At({"enter", "count", "area", "uncount", "leave"})

\* The places are neither lost nor handed out twice, and the counter that the
\* program prints (lines 18 and 60) never exceeds the places taken: the place is
\* given back only after the thread is counted out.
PlacesAddUp ==
    /\ mutex + Cardinality(Inside) = M
    /\ mutex2 + Cardinality(At({"count", "uncount"})) = 1
    /\ th_no = Cardinality(At({"area", "uncount"}))

\* "Final value of th_no" (line 60): 0.
Finished == main = "done" /\ th_no = 0 /\ mutex = M

Passed == At({"done"})
==============================================================================
