----------------------------- MODULE BoundedArea -----------------------------
(***************************************************************************)
(* What the "limited area" programs promise: every thread passes through   *)
(* an area exactly once, and at most M threads are in it at a time         *)
(* (ConditionalLock/using-conds.c lines 54-57, Semaphores/l8_ex2.c         *)
(* line 36, PracticeProblems(All topics)/ex6.c line 7).                    *)
(***************************************************************************)
EXTENDS Integers, FiniteSets

CONSTANTS Threads,  \* the threads that use the area
          M         \* how many of them it holds

VARIABLES inside,   \* the threads in the area
          passed    \* the threads that have been in it and have left

areaVars == <<inside, passed>>

Init == inside = {} /\ passed = {}

Enter(t) ==
    /\ t \notin inside \cup passed
    /\ Cardinality(inside) < M
    /\ inside' = inside \cup {t}
    /\ UNCHANGED passed

Leave(t) ==
    /\ t \in inside
    /\ inside' = inside \ {t}
    /\ passed' = passed \cup {t}

Next == \E t \in Threads : Enter(t) \/ Leave(t)

\* Threads pass one at a time or several together, but all of them do pass.
Spec ==
    /\ Init /\ [][Next]_areaVars
    /\ \A t \in Threads : WF_areaVars(Enter(t)) /\ WF_areaVars(Leave(t))

Safety == Init /\ [][Next]_areaVars
==============================================================================
