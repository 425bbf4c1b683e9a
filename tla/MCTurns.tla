------------------------------- MODULE MCTurns -------------------------------
(***************************************************************************)
(* The programs that count in turns for TLC: a run is a run of one of      *)
(* them.  Lab9_ex1.c has the variables of TurnCounter, which stay as they  *)
(* start when another program runs; the other programs share the variables *)
(* x_..., and those that a program does not have are 0.                    *)
(*                                                                         *)
(*   signal3, signal2  TurnCounterSignal with n and with two threads       *)
(*   ring, remainder   SemRing with nothing and with two left over         *)
(*   pipes             PipeRing                                            *)
(*   pingpong          PingPong                                            *)
(***************************************************************************)
EXTENDS TurnCounter

VARIABLES program, x_lock, x_cond, x_rem, x_count, x_aux, x_i, x_pc, x_main

xVars == <<x_lock, x_cond, x_rem, x_count, x_aux, x_i, x_pc, x_main>>
allVars == <<vars, program, xVars>>

Signal3 == INSTANCE TurnCounterSignal
    WITH N <- n, M <- m,
         lock <- x_lock, cond <- x_cond, count <- x_count, i <- x_i, pc <- x_pc, main <- x_main
Signal2 == INSTANCE TurnCounterSignal
    WITH N <- 2, M <- m,
         lock <- x_lock, cond <- x_cond, count <- x_count, i <- x_i, pc <- x_pc, main <- x_main
Ring == INSTANCE SemRing
    WITH num_threads <- n, count_max <- n * m,
         mutex <- x_lock, remainderr <- x_rem, count <- x_count, aux <- x_aux,
         i <- x_i, pc <- x_pc, main <- x_main
Remainder == INSTANCE SemRing
    WITH num_threads <- n, count_max <- n * m + 2,
         mutex <- x_lock, remainderr <- x_rem, count <- x_count, aux <- x_aux,
         i <- x_i, pc <- x_pc, main <- x_main
Pipes == INSTANCE PipeRing
    WITH no_processes <- n, MAX <- m - 1,
         bytes <- x_lock, count <- x_count, pc <- x_pc, parent <- x_main
Alternate == INSTANCE PingPong
    WITH count_max <- 2 * m + 1,
         sems <- x_lock, count <- x_count, aux <- x_aux, i <- x_i, pc <- x_pc, main <- x_main

Idle == x_cond = 0 /\ x_rem = 0 /\ x_aux = 0 /\ x_i = 0

MCInit ==
    /\ Init
    /\ \/ program = "Lab9_ex1" /\ Idle /\ x_lock = 0 /\ x_count = 0 /\ x_pc = 0 /\ x_main = 0
       \/ program = "signal3" /\ Signal3!Init /\ x_rem = 0 /\ x_aux = 0
       \/ program = "signal2" /\ Signal2!Init /\ x_rem = 0 /\ x_aux = 0
       \/ program = "ring" /\ Ring!Init /\ x_cond = 0
       \/ program = "remainder" /\ Remainder!Init /\ x_cond = 0
       \/ program = "pipes" /\ Pipes!Init /\ Idle
       \/ program = "pingpong" /\ Alternate!Init /\ x_cond = 0 /\ x_rem = 0

MCMain ==
    /\ \/ program = "Lab9_ex1" /\ MainStep /\ UNCHANGED xVars
       \/ program = "signal3" /\ Signal3!MainStep /\ UNCHANGED <<vars, x_rem, x_aux>>
       \/ program = "signal2" /\ Signal2!MainStep /\ UNCHANGED <<vars, x_rem, x_aux>>
       \/ program = "ring" /\ Ring!MainStep /\ UNCHANGED <<vars, x_cond>>
       \/ program = "remainder" /\ Remainder!MainStep /\ UNCHANGED <<vars, x_cond>>
       \/ program = "pipes" /\ Pipes!Parent /\ UNCHANGED <<vars, x_cond, x_rem, x_aux, x_i>>
       \/ program = "pingpong" /\ Alternate!MainStep /\ UNCHANGED <<vars, x_cond, x_rem>>
    /\ UNCHANGED program

MCThread(t) ==
    /\ \/ program = "Lab9_ex1" /\ ThreadStep(t) /\ UNCHANGED xVars
       \/ program = "signal3" /\ Signal3!ThreadStep(t) /\ UNCHANGED <<vars, x_rem, x_aux>>
       \/ /\ program = "signal2" /\ t \in Signal2!Threads
          /\ Signal2!ThreadStep(t) /\ UNCHANGED <<vars, x_rem, x_aux>>
       \/ program = "ring" /\ Ring!ThreadStep(t) /\ UNCHANGED <<vars, x_cond>>
       \/ program = "remainder" /\ Remainder!ThreadStep(t) /\ UNCHANGED <<vars, x_cond>>
       \/ program = "pipes" /\ Pipes!Step(t) /\ UNCHANGED <<vars, x_cond, x_rem, x_aux, x_i>>
       \/ /\ program = "pingpong" /\ t \in Alternate!Threads
          /\ Alternate!ThreadStep(t) /\ UNCHANGED <<vars, x_cond, x_rem>>
    /\ UNCHANGED program

MCSpurious ==
    /\ \/ program = "Lab9_ex1" /\ Spurious /\ UNCHANGED xVars
       \/ program = "signal3" /\ Signal3!Spurious /\ UNCHANGED <<vars, x_rem, x_aux>>
       \/ program = "signal2" /\ Signal2!Spurious /\ UNCHANGED <<vars, x_rem, x_aux>>
    /\ UNCHANGED program

MCNext == MCMain \/ (\E t \in Threads : MCThread(t)) \/ MCSpurious

\* The scheduler runs every thread and process that can run, and spurious wakeups do
\* not go on for ever.
MCSpec ==
    /\ MCInit /\ [][MCNext]_allVars
    /\ WF_allVars(MCMain)
    /\ \A t \in Threads : WF_allVars(MCThread(t))
    /\ <>[][~MCSpurious]_allVars
------------------------------------------------------------------------------
\* The type invariants, of which one each for the programs that share variables.
MCTypeOK ==
    /\ TypeOK
    /\ program = "signal3" => Signal3!TypeOK
    /\ program = "signal2" => Signal2!TypeOK
    /\ program = "ring" => Ring!TypeOK
    /\ program = "remainder" => Remainder!TypeOK
    /\ program = "pipes" => Pipes!TypeOK
    /\ program = "pingpong" => Alternate!TypeOK

\* The rings of semaphores and pipes have one token each, which is what protects the
\* unlocked count = aux + 1 of l8_ex4.c; with a remainder l8_ex4.c misses no count,
\* although it may count too much.
OneToken ==
    /\ program = "ring" => Ring!OneToken
    /\ program = "remainder" => Remainder!OneToken /\ Remainder!NothingMissed
    /\ program = "pipes" => Pipes!OneToken

\* The turns each of n threads, or of two threads, has taken.
Zero(k) == [w \in 0 .. k - 1 |-> 0]
TakenBy3 ==
    CASE program = "Lab9_ex1" -> i
      [] program = "signal3" -> x_i
      [] program = "ring" -> Ring!Taken
      [] program = "remainder" -> Remainder!Taken
      [] program = "pipes" -> x_count
      [] OTHER -> Zero(n)
TakenBy2 ==
    CASE program = "signal2" -> x_i
      [] program = "pingpong" -> Alternate!Taken
      [] OTHER -> Zero(2)
Three == INSTANCE TakingTurns WITH N <- n, R <- m, taken <- TakenBy3
Two == INSTANCE TakingTurns WITH N <- 2, R <- m, taken <- TakenBy2

\* Every program takes its turns in the order of the numbers of its threads.
InTurn == Three!Safety /\ Two!Safety

\* Every thread gets all its turns and is joined, and the count is what it should be.
\* Two programs can get stuck, each in one way only: in Lab9_ex1_example.c with three
\* threads the one whose turn it is was not the one that was signalled, in l8_ex4.c the
\* token is in the semaphore of a thread that has left.
EndsUnlessTokenLost ==
    \/ <>(CASE program = "Lab9_ex1" -> Finished
            [] program = "signal2" -> Signal2!Finished
            [] program = "signal3" -> Signal3!Finished
            [] program = "ring" -> Ring!Finished
            [] program = "pipes" -> Pipes!Finished
            [] program = "pingpong" -> Alternate!Finished
            [] program = "remainder" -> x_main = "done")
    \/ <>[](\/ program = "signal3" /\ Signal3!LostTurn
            \/ program = "remainder" /\ Remainder!StrandedToken)
==============================================================================
