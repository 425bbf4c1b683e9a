---------------------------- MODULE ProcessCount ----------------------------
(***************************************************************************)
(* CountAllProcessesPrimitiveWay/optional_test2.c: a loop of forks.  Every *)
(* process but the root writes a star into shared.txt, the root waits for  *)
(* its own children only, sleeps and counts the stars.  All processes have *)
(* inherited one descriptor, so they share one file offset.                *)
(*                                                                         *)
(* A process is the sum of 2^(i-1) over the steps i at which it, or one it *)
(* comes from, was the child; the root is 0.  The sleep is no bound on     *)
(* what others do meanwhile.                                               *)
(***************************************************************************)
EXTENDS Integers, FiniteSets

CONSTANTS STEPS, SKIPS      \* the arguments a user may give

VARIABLES steps, skip,
          pc, i,            \* of every process
          length, offset,   \* of shared.txt and of its descriptor
          count,
          late,             \* history: a process was still on its way at the lseek
          failed            \* history: a fork has failed

vars == <<steps, skip, pc, i, length, offset, count, late, failed>>

Processes == 0 .. 2 ^ steps - 1
Root == 0

\* fork: at line 78; write: at 89; wait: at 98; lseek: at 103; read: at 104; ended; error:
\* at 87, or killed by the division by zero of line 80.
Init ==
    /\ steps \in STEPS /\ skip \in SKIPS
    /\ pc = [p \in Processes |-> IF p # Root THEN "none" ELSE IF steps > 0 THEN "fork" ELSE "wait"]
    /\ i = [p \in Processes |-> 1]
    /\ length = 0 /\ offset = 0 /\ count = 0
    /\ late = FALSE /\ failed = FALSE

\* Where a process goes after step i of the loop, with the pid of this step.
AfterLoop(p) == IF p = Root THEN "wait" ELSE "write"
AfterStep(p, step, pid) ==
    IF step < steps THEN "fork" ELSE IF pid < 0 THEN "error" ELSE AfterLoop(p)

\* The child leaves the loop at every skip-th step.
ChildAt(c, step) ==
    IF skip = 0 THEN "error"
    ELSE IF step % skip = 0 THEN AfterLoop(c) ELSE AfterStep(c, step, 0)

Fork(p) ==
    LET step == i[p]
        child == p + 2 ^ (step - 1)
    IN  /\ pc[p] = "fork"
        /\ \/ /\ pc' = [pc EXCEPT ![p] = AfterStep(p, step, 1), ![child] = ChildAt(child, step)]
              /\ i' = [i EXCEPT ![p] = @ + 1, ![child] = step + 1]
              /\ UNCHANGED failed
           \/ /\ pc' = [pc EXCEPT ![p] = AfterStep(p, step, -1)]
              /\ i' = [i EXCEPT ![p] = @ + 1]
              /\ failed' = TRUE
        /\ UNCHANGED <<steps, skip, length, offset, count, late>>

Star(p) ==
    /\ pc[p] = "write"
    /\ offset' = offset + 1
    /\ length' = IF offset' > length THEN offset' ELSE length
    /\ pc' = [pc EXCEPT ![p] = "ended"]
    /\ UNCHANGED <<steps, skip, i, count, late, failed>>

Over == {"none", "ended", "error"}
Children == {2 ^ (k - 1) : k \in 1 .. steps}

Wait ==
    /\ pc[Root] = "wait" /\ \A c \in Children : pc[c] \in Over
    /\ pc' = [pc EXCEPT ![Root] = "lseek"]
    /\ UNCHANGED <<steps, skip, i, length, offset, count, late, failed>>

Lseek ==
    /\ pc[Root] = "lseek"
    /\ offset' = 0
    /\ late' = (\E p \in Processes \ {Root} : pc[p] \notin Over)
    /\ pc' = [pc EXCEPT ![Root] = "read"]
    /\ UNCHANGED <<steps, skip, i, length, count, failed>>

\* Mutant of Read: the test at the end is for less than the last byte.
ReadButLast ==
    /\ pc[Root] = "read"
    /\ count' = count + 1
    /\ IF offset < length - 1
       THEN offset' = offset + 1 /\ UNCHANGED pc
       ELSE pc' = [pc EXCEPT ![Root] = "ended"] /\ UNCHANGED offset
    /\ UNCHANGED <<steps, skip, i, length, late, failed>>

\* At the end of the file the root counts itself.
Read ==
    /\ pc[Root] = "read"
    /\ count' = count + 1
    /\ IF offset < length
       THEN offset' = offset + 1 /\ UNCHANGED pc
       ELSE pc' = [pc EXCEPT ![Root] = "ended"] /\ UNCHANGED offset
    /\ UNCHANGED <<steps, skip, i, length, late, failed>>

Step(p) == Fork(p) \/ Star(p)
RootStep == Wait \/ Lseek \/ Read
Next == RootStep \/ \E p \in Processes : Step(p)

\* Lines 41 to 49: -1 where the formula is unknown.
Formula ==
    CASE steps = 0 \/ skip = 0 -> 1
      [] steps > 0 /\ skip >= steps -> 2 ^ steps
      [] skip = 1 /\ steps > 1 -> steps + 1
      [] skip > 1 /\ steps = skip + 1 -> (3 * 2 ^ steps) \div 4
      [] OTHER -> -1
------------------------------------------------------------------------------
TypeOK ==
    /\ pc \in [Processes -> Over \cup {"fork", "write", "wait", "lseek", "read"}]
    /\ i \in [Processes -> 1 .. steps + 1]
    /\ offset \in 0 .. length /\ length \in 0 .. 2 ^ steps /\ count \in 0 .. 2 ^ steps

\* The processes that have written a star.
Stars == {p \in Processes \ {Root} : pc[p] = "ended"}

\* The count never exceeds the processes there were, and it is exact, as lines 21 to 23
\* say, if the root was the last to read; then it is what the formula says, wherever one
\* is known and no fork failed.
CountIsRight ==
    pc[Root] = "ended" =>
        /\ count <= Cardinality(Stars) + 1
        /\ ~late => count = Cardinality(Stars) + 1
        /\ ~late /\ ~failed /\ Formula # -1 => count = Formula
=============================================================================
