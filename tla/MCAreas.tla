------------------------------- MODULE MCAreas -------------------------------
(***************************************************************************)
(* The limited area programs for TLC: a run is a run of one of them, the   *)
(* other stays as it starts.                                               *)
(***************************************************************************)
EXTENDS LimitedArea

VARIABLES program,
          places, counter, s_th_no, s_pc, s_main    \* the variables of SemArea

semVars == <<places, counter, s_th_no, s_pc, s_main>>
allVars == <<vars, semVars, program>>

Sem == INSTANCE SemArea
    WITH mutex <- places, mutex2 <- counter, th_no <- s_th_no, pc <- s_pc, main <- s_main

MCInit == Init /\ Sem!Init /\ program \in {"using-conds", "l8_ex2"}

MCMain ==
    /\ \/ program = "using-conds" /\ MainStep /\ UNCHANGED semVars
       \/ program = "l8_ex2" /\ Sem!MainStep /\ UNCHANGED vars
    /\ UNCHANGED program

MCThread(t) ==
    /\ \/ program = "using-conds" /\ ThreadStep(t) /\ UNCHANGED semVars
       \/ program = "l8_ex2" /\ Sem!ThreadStep(t) /\ UNCHANGED vars
    /\ UNCHANGED program

MCSpurious == Spurious /\ UNCHANGED <<semVars, program>>
MCTerminated == (Terminated \/ Sem!Terminated) /\ UNCHANGED allVars

MCNext == MCMain \/ (\E t \in Threads : MCThread(t)) \/ MCSpurious \/ MCTerminated

\* The scheduler runs every thread that can run, and spurious wakeups do not go
\* on for ever.
MCSpec ==
    /\ MCInit /\ [][MCNext]_allVars
    /\ WF_allVars(MCMain)
    /\ \A t \in Threads : WF_allVars(MCThread(t))
    /\ <>[][~MCSpurious]_allVars

\* The semaphores hand out no place twice and lose none, and their values stay in range.
PlacesAddUp == Sem!TypeOK /\ Sem!PlacesAddUp

\* Either program implements the bounded area, and all its threads pass.
Refined == INSTANCE BoundedArea
    WITH inside <- Inside \cup Sem!Inside, passed <- Passed \cup Sem!Passed
ImplementsArea == Refined!Spec

\* main joins every thread: then the counters are 0 again, the semaphore has its
\* places back, and nobody uses the mutex or sleeps on the condition variable.
Termination ==
    <>(IF program = "using-conds" THEN Finished ELSE Sem!Finished)
==============================================================================
