----------------------------- MODULE TakingTurns -----------------------------
(***************************************************************************)
(* What the programs that count in turns promise: participants 0 .. N-1    *)
(* take R turns each, in the order 0, 1, ..., N-1, 0, 1, ...               *)
(***************************************************************************)
EXTENDS Integers

CONSTANTS N,    \* the participants
          R     \* the turns of each of them

VARIABLE taken  \* how many turns each participant has taken

Who == 0 .. N - 1

Init == taken = [i \in Who |-> 0]

\* It is i's turn: those before it are one round ahead, the others are not.
HasTurn(i) ==
    /\ taken[i] < R
    /\ \A j \in Who : taken[j] = taken[i] + (IF j < i THEN 1 ELSE 0)

Turn(i) == HasTurn(i) /\ taken' = [taken EXCEPT ![i] = @ + 1]

Next == \E i \in Who : Turn(i)

Safety == Init /\ [][Next]_taken
==============================================================================
