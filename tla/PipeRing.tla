------------------------------ MODULE PipeRing ------------------------------
(***************************************************************************)
(* ConcurrentCount(Pipes)/lab11_ex3.c: processes in a ring of pipes pass a *)
(* one-byte token and print one step of their count each time they get it. *)
(* Pipes/lab11_ex1.c is the ring of two with MAX = 10.                     *)
(***************************************************************************)
EXTENDS Semaphore, FiniteSets

CONSTANTS no_processes,
          MAX               \* the last step each process prints

VARIABLES bytes,    \* how many bytes are in the pipe each process reads from
          count,    \* the loop variable of each process
          pc,
          parent

vars == <<bytes, count, pc, parent>>

Processes == 0 .. no_processes - 1

\* seed: at line 59; loop: at line 14; turn: at line 20 with the token.
Places == {"new", "seed", "loop", "turn", "exited"}

Init ==
    /\ bytes = [p \in Processes |-> 0]
    /\ count = [p \in Processes |-> 0]
    /\ pc = [p \in Processes |-> "new"]
    /\ parent = "running"

Move(p, from, to) == pc[p] = from /\ pc' = [pc EXCEPT ![p] = to]

NextOf(p) == (p + 1) % no_processes

\* A blocking read takes one byte and a write adds one.  Every process holds a
\* write end of every pipe, so that no read ends with end of file.
ReadByte(p) == SemWaitAt(bytes, p)
WriteByte(p) == SemPostAt(bytes, p)

\* Mutant of Seed: every process writes a token.
SeedByAll(p) ==
    /\ Move(p, "seed", "loop")
    /\ WriteByte(p)
    /\ UNCHANGED <<count, parent>>

\* Process 0 puts the token into its own pipe.
Seed(p) ==
    /\ Move(p, "seed", "loop")
    /\ IF p = 0 THEN WriteByte(0) ELSE UNCHANGED bytes
    /\ UNCHANGED <<count, parent>>

\* Mutant of TurnLeft: off by one.
OneTurnMore(p) == count[p] <= MAX + 1

TurnLeft(p) == count[p] <= MAX

Receive(p) ==
    /\ TurnLeft(p)
    /\ Move(p, "loop", "turn")
    /\ ReadByte(p)
    /\ UNCHANGED <<count, parent>>

\* The process prints its step, passes the token and counts.
Pass(p) ==
    /\ Move(p, "turn", "loop")
    /\ WriteByte(NextOf(p))
    /\ count' = [count EXCEPT ![p] = @ + 1]
    /\ UNCHANGED parent

Exit(p) ==
    /\ ~TurnLeft(p)
    /\ Move(p, "loop", "exited")
    /\ UNCHANGED <<bytes, count, parent>>

Step(p) == Seed(p) \/ Receive(p) \/ Pass(p) \/ Exit(p)

\* The parent forks the processes in order.
Fork(p) ==
    /\ \A q \in Processes : q < p => pc[q] # "new"
    /\ Move(p, "new", "seed")
    /\ UNCHANGED <<bytes, count, parent>>

\* The loop of line 71 has waited for as many children as were forked.
Waited ==
    /\ parent = "running"
    /\ \A p \in Processes : pc[p] = "exited"
    /\ parent' = "done"
    /\ UNCHANGED <<bytes, count, pc>>

Parent == Waited \/ \E p \in Processes : Fork(p)

Terminated == parent = "done" /\ UNCHANGED vars

Next == Parent \/ (\E p \in Processes : Step(p)) \/ Terminated

Spec == Init /\ [][Next]_vars
------------------------------------------------------------------------------
\* The type invariant.
TypeOK ==
    /\ bytes \in [Processes -> 0 .. 1]
    /\ count \in [Processes -> 0 .. MAX + 1]
    /\ pc \in [Processes -> Places]
    /\ parent \in {"running", "done"}

\* One byte at most is on its way and the writer of a byte is never ahead of a
\* byte that was not read: at most one process prints at a time.
OneToken ==
    Cardinality({p \in Processes : bytes[p] = 1 \/ pc[p] = "turn"})
        = IF pc[0] \in {"new", "seed"} THEN 0 ELSE 1

\* Every process has printed all its steps and exited, and the parent has waited.
Finished == parent = "done" /\ \A p \in Processes : count[p] = MAX + 1
==============================================================================
