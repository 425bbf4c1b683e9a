------------------------------- MODULE MCFiles ------------------------------
(***************************************************************************)
(* The programs that share a file, a descriptor or memory, and the         *)
(* sequential ones, for TLC: a run is a run of one of them, the others     *)
(* stay as they start.  The variables of CopyByTwo have their own names;   *)
(* those of SharedLetters are l_..., of FileSemaphores f_..., of           *)
(* ProcessCount n_... and of StudentVector v_....  The exercises have      *)
(* nothing but their input.                                                *)
(***************************************************************************)
EXTENDS CopyByTwo

CONSTANTS LETTER_SIZES, LETTERS, LETTER_RUNS, FILE_SIZES, FILE_RUNS, STEPS, SKIPS,
          Addresses, ADDS

\* mmap refuses a size of 0; there is at least one letter.  Numbers of steps are natural:
\* a negative one is as 0.
ASSUME MCFilesAssumption ==
    /\ LETTER_SIZES \subseteq Nat \ {0} /\ LETTERS \in Nat \ {0} /\ LETTER_RUNS \in Nat
    /\ FILE_SIZES \subseteq Nat /\ FILE_RUNS \in Nat
    /\ STEPS \subseteq Nat /\ SKIPS \subseteq Nat

VARIABLES program, input,
          l_size, l_fifo, l_bytes, l_shm, l_memory, l_mapped, l_proc1, l_proc2, l_out,
          l_orderly,
          f_size, f_name, f_semaphore, f_semaphore1, f_added, f_read, f_writer, f_reader,
          f_orderly,
          n_steps, n_skip, n_pc, n_i, n_length, n_offset, n_count, n_late, n_failed,
          v_students, v_capacity, v_state, v_added, v_given

letterVars == <<l_size, l_fifo, l_bytes, l_shm, l_memory, l_mapped, l_proc1, l_proc2, l_out,
                l_orderly>>
mappedVars == <<f_size, f_name, f_semaphore, f_semaphore1, f_added, f_read, f_writer,
                f_reader, f_orderly>>
countVars == <<n_steps, n_skip, n_pc, n_i, n_length, n_offset, n_count, n_late, n_failed>>
vectorVars == <<v_students, v_capacity, v_state, v_added, v_given>>
allVars == <<vars, letterVars, mappedVars, countVars, vectorVars, program, input>>

Letters == INSTANCE SharedLetters
    WITH SIZES <- LETTER_SIZES, RUNS <- LETTER_RUNS,
         size <- l_size, fifo <- l_fifo, bytes <- l_bytes, shm <- l_shm,
         memory <- l_memory, mapped <- l_mapped, proc1 <- l_proc1, proc2 <- l_proc2,
         out <- l_out, orderly <- l_orderly

File == INSTANCE FileSemaphores
    WITH SIZES <- FILE_SIZES, RUNS <- FILE_RUNS,
         file_size <- f_size, name <- f_name, semaphore <- f_semaphore,
         semaphore1 <- f_semaphore1, added <- f_added, read <- f_read,
         writer <- f_writer, reader <- f_reader, orderly <- f_orderly

Counting == INSTANCE ProcessCount
    WITH steps <- n_steps, skip <- n_skip, pc <- n_pc, i <- n_i, length <- n_length,
         offset <- n_offset, count <- n_count, late <- n_late, failed <- n_failed

Students == INSTANCE StudentVector
    WITH students <- v_students, capacity <- v_capacity, state <- v_state,
         added <- v_added, given <- v_given

Ex == INSTANCE Exercises

\* Texts of up to four characters and a newline, pairs of arrays as sets, pairs of
\* numbers, sizes of sets whose subsets are generated and numbers of threads, and a line
\* number for files of up to five characters.
Inputs ==
    {<<"text", Append(f, "newline")>> : f \in BoundedSeq({Ex!Vowel, "c", "d"}, 4)}
    \cup {<<"sets", <<s, t>>>> : s, t \in BoundedSeq(0 .. 2, 3)}
    \cup {<<"array", <<n, m>>>> : n, m \in 0 .. 20}
    \cup {<<"n", n>> : n \in 0 .. 5}
    \cup {<<"line", <<f, k>>>> : f \in BoundedSeq({Ex!Newline, "c"}, 5), k \in 0 .. 3}

\* A program that does not run has one initial state.
Idle(v, sizes) == v = CHOOSE s \in sizes : TRUE

MCInit ==
    /\ program \in {"copy", "letters", "mapped", "count", "students", "exercises"}
    /\ Init /\ Letters!Init /\ File!Init /\ Counting!Init /\ Students!Init
    /\ input \in Inputs
    /\ program # "copy" => Idle(size, SIZES)
    /\ program # "letters" => Idle(l_size, LETTER_SIZES)
    /\ program # "mapped" => Idle(f_size, FILE_SIZES)
    /\ program # "count" => Idle(n_steps, STEPS) /\ Idle(n_skip, SKIPS)
    /\ program # "exercises" => Idle(input, Inputs)

Copies(A) ==
    program = "copy" /\ A /\ UNCHANGED <<letterVars, mappedVars, countVars, vectorVars, program, input>>
OnLetters(A) ==
    program = "letters" /\ A /\ UNCHANGED <<vars, mappedVars, countVars, vectorVars, program, input>>
OnFile(A) ==
    program = "mapped" /\ A /\ UNCHANGED <<vars, letterVars, countVars, vectorVars, program, input>>
Counts(A) ==
    program = "count" /\ A /\ UNCHANGED <<vars, letterVars, mappedVars, vectorVars, program, input>>
OnVector(A) ==
    program = "students" /\ A /\ UNCHANGED <<vars, letterVars, mappedVars, countVars, program, input>>

MCFirst == OnLetters(Letters!Step1) \/ OnFile(File!WriterStep)
MCSecond == OnLetters(Letters!Step2) \/ OnFile(File!ReaderStep)
MCUser ==
    OnLetters(Letters!User) \/ OnFile(File!StartWriter \/ File!StartReader) \/ OnVector(Students!Next)

MCNext == MCFirst \/ MCSecond \/ MCUser \/ Copies(Next) \/ Counts(Counting!Next)

\* The two programs of each pair run; users need not start, kill or type.
MCSpec ==
    MCInit /\ [][MCNext]_allVars /\ WF_allVars(MCFirst) /\ WF_allVars(MCSecond)
------------------------------------------------------------------------------
\* The type invariants.
MCTypeOK ==
    TypeOK /\ Letters!TypeOK /\ File!TypeOK /\ Counting!TypeOK /\ Students!TypeOK

\* A program that reads what another one writes never reads it too early or too late,
\* as long as both are started in order: the letters of shared memory and the bytes of a
\* mapped file.
ReadsAreFresh == Letters!PrintsLetters /\ File!ReadsChangedBytes

\* The count of processes is right if the root is the last to read.
CountIsRight == Counting!CountIsRight

\* What a sequential program computes is what its comments and messages say, of the inputs
\* of which the exercises claim it, and the pointers to the students are in order.
SequentialRight ==
    /\ Students!PointersInOrder
    /\ input[1] = "text" => Ex!ApartVowelsRemoved(input[2])
    /\ input[1] = "sets" => Ex!QuotientRight(input[2][1], input[2][2])
    /\ input[1] = "array" => Ex!PrimesRight(input[2])
    /\ input[1] = "n" => Ex!AllSubsets(input[2]) /\ Ex!SumWhole(input[2])
    /\ input[1] = "line" => Ex!LineFound(input[2][1], input[2][2], 2)

\* Both programs of a pair that were started in order come to their ends.
BothEnd ==
    (\/ program = "letters" /\ Letters!Begun
     \/ program = "mapped" /\ File!Begun)
    ~> (Letters!Ended /\ File!Ended)
==============================================================================
