----------------------------- MODULE CopyByTwo ------------------------------
(***************************************************************************)
(* OpenWriteFile/Lab6_Test2.c: parent and child copy one file byte by byte *)
(* through descriptors opened before the fork, so that they share the      *)
(* offsets of both files.  A byte is its position in the file that is read.*)
(***************************************************************************)
EXTENDS Integers, Sequences, SequencesExt

CONSTANT SIZES      \* the sizes the file may have

ASSUME CopyByTwoAssumption == SIZES \subseteq Nat

VARIABLES size, fdR,    \* of the file that is read, and its offset
          written,      \* the file that is written
          c, done       \* of each process: the byte it holds, or 0; it has ended

vars == <<size, fdR, written, c, done>>
Two == {"parent", "child"}

Init ==
    /\ size \in SIZES
    /\ fdR = 0 /\ written = <<>>
    /\ c = [p \in Two |-> 0]
    /\ done = [p \in Two |-> FALSE]

\* Mutant of Read: the child reads without moving the offset, as pread does.
ReadInPlace(p) ==
    /\ c[p] = 0 /\ ~done[p]
    /\ IF fdR < size
       THEN c' = [c EXCEPT ![p] = fdR + 1] /\ fdR' = fdR + (IF p = "child" THEN 0 ELSE 1)
                /\ UNCHANGED done
       ELSE done' = [done EXCEPT ![p] = TRUE] /\ UNCHANGED <<c, fdR>>
    /\ UNCHANGED <<size, written>>

Read(p) ==
    /\ c[p] = 0 /\ ~done[p]
    /\ IF fdR < size
       THEN c' = [c EXCEPT ![p] = fdR + 1] /\ fdR' = fdR + 1 /\ UNCHANGED done
       ELSE done' = [done EXCEPT ![p] = TRUE] /\ UNCHANGED <<c, fdR>>
    /\ UNCHANGED <<size, written>>

Write(p) ==
    /\ c[p] # 0
    /\ written' = Append(written, c[p])
    /\ c' = [c EXCEPT ![p] = 0]
    /\ UNCHANGED <<size, fdR, done>>

Step(p) == Read(p) \/ Write(p)
Next == \E p \in Two : Step(p)

Spec == Init /\ [][Next]_vars
------------------------------------------------------------------------------
TypeOK ==
    /\ fdR \in 0 .. size /\ c \in [Two -> 0 .. size]
    /\ done \in [Two -> BOOLEAN] /\ Len(written) <= size

\* Every byte is copied once, by one of the two, and none comes more than one place early:
\* the order of the file is kept but for the byte that a process still holds, which any
\* number of others may overtake.
EachByteOnce ==
    /\ IsInjective(written)
    /\ ToSet(written) \cup {c[p] : p \in {q \in Two : c[q] # 0}} = 1 .. fdR
    /\ \A j \in 1 .. Len(written) : written[j] <= j + 1
    /\ (\A p \in Two : done[p]) => Len(written) = size
=============================================================================
