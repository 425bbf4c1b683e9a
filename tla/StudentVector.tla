--------------------------- MODULE StudentVector ----------------------------
(***************************************************************************)
(* StudentStructManager/l03p4.c: a growing array of pointers to students.  *)
(* The command add frees the student that it has just stored, del frees    *)
(* what is left in the last place once more.  malloc may give a freed      *)
(* address again.  No student outlives its add: what list prints is freed  *)
(* memory, so that only the pointers are modelled.                         *)
(***************************************************************************)
EXTENDS Integers, Sequences, SequencesExt, Functions

CONSTANTS Addresses,
          ADDS      \* bound: how many students are added

VARIABLES students, capacity,   \* of student_vector: the pointers up to count
          state,                \* running; over: ended, aborted, or the vector is lost
          added,                \* history: the students a user has added and not removed
          given                 \* history: the address of every student ever added

vars == <<students, capacity, state, added, given>>

Init ==
    /\ students = <<>> /\ capacity = 2
    /\ state = "running"
    /\ added = <<>> /\ given = <<>>

\* student_vector_add, then the frees of lines 161 to 163.
Add(a) ==
    /\ Len(given) < ADDS
    /\ students' = Append(students, a)
    /\ capacity' = IF Len(students) = capacity THEN 2 * capacity ELSE capacity
    /\ given' = Append(given, a) /\ added' = Append(added, Len(given'))
    /\ UNCHANGED state

\* When the array cannot grow, the old one is freed and the vector is left without any.
AddFails ==
    /\ Len(students) = capacity
    /\ state' = "over"
    /\ UNCHANGED <<students, capacity, added, given>>

\* Mutant of Shifted: the loop begins one place behind the index.
ShiftedLate(s, k) == [j \in 1 .. Len(s) - 1 |-> IF j <= k THEN s[j] ELSE s[j + 1]]

Shifted(s, k) == [j \in 1 .. Len(s) - 1 |-> IF j < k THEN s[j] ELSE s[j + 1]]

\* student_vector_remove: the pointer behind the new end is freed once more, which may
\* abort the program.
Del(k) ==
    /\ k \in 1 .. Len(students)
    /\ students' = Shifted(students, k)
    /\ state' \in {"running", "over"}
    /\ added' = RemoveAt(added, k)
    /\ UNCHANGED <<capacity, given>>

Exit == state' = "over" /\ UNCHANGED <<students, capacity, added, given>>

Next ==
    /\ state = "running"
    /\ Exit \/ AddFails \/ (\E a \in Addresses : Add(a)) \/ \E k \in 1 .. ADDS : Del(k)

Spec == Init /\ [][Next]_vars
------------------------------------------------------------------------------
TypeOK ==
    /\ Len(students) <= capacity /\ Len(students) = Len(added)
    /\ ToSet(students) \subseteq Addresses
    /\ state \in {"running", "over"}

\* The pointers are those of the students that were added and not removed, in the order
\* of the commands, however the array grew and shrank.
PointersInOrder ==
    students = [j \in 1 .. Len(added) |-> given[added[j]]]
=============================================================================
