------------------------------ MODULE Semaphore ------------------------------
(***************************************************************************)
(* POSIX semaphores, modelled from how the programs call them: a semaphore *)
(* is its value, and sem_wait is a step that is enabled while it is        *)
(* positive.                                                               *)
(***************************************************************************)
EXTENDS Integers

SemWait(s) == s > 0 /\ s' = s - 1

SemPost(s) == s' = s + 1

\* The same on semaphore i of an array of semaphores.
SemWaitAt(s, i) == s[i] > 0 /\ s' = [s EXCEPT ![i] = @ - 1]

SemPostAt(s, i) == s' = [s EXCEPT ![i] = @ + 1]
==============================================================================
