---------------------------- MODULE FileSemaphores ---------------------------
(***************************************************************************)
(* lab12_ex2_3_writer.c and lab12_ex2_3_reader.c in                        *)
(* SharedMemoryApplications: the writer adds one to the bytes of a mapped  *)
(* file and the reader prints them, in turns that two named semaphores     *)
(* give.  A round is a run of each of them; a user may start the next      *)
(* round at any time.  Only the reader removes a semaphore, and only one:  *)
(* what is left in the other meets the next round.                         *)
(***************************************************************************)
EXTENDS Integers

CONSTANTS SIZES,    \* the sizes the file may have
          RUNS      \* bound: how often each of the programs is started

VARIABLES file_size,
          name,         \* SEM_NAME stands for the name-th semaphore that had this name
          semaphore,    \* the values of all of them
          semaphore1,   \* SEM_NAME1
          added,        \* how often the writer has added one to each byte
          read,         \* the same for each byte the reader has printed in this run
          writer, reader,
          orderly       \* no round was started before the one before it had ended

vars == <<file_size, name, semaphore, semaphore1, added, read, writer, reader, orderly>>

Runs == 1 .. RUNS
Used == 0 .. file_size - 2      \* the last byte, a newline, is left out

Init ==
    /\ file_size \in SIZES
    /\ name = 1
    /\ semaphore = [s \in 1 .. RUNS + 1 |-> 0] /\ semaphore1 = 0
    /\ added = [j \in Used |-> 0]
    /\ read = [j \in Used |-> 0]
    /\ writer = [pc |-> "done", run |-> 0, i |-> 0, sem |-> 0]
    /\ reader = [pc |-> "done", run |-> 0, i |-> 0, sem |-> 0]
    /\ orderly = TRUE

\* The for loop of both programs: i is the next byte, if there is one.
Loop(p, l, i) == [p EXCEPT !.pc = IF i < file_size - 1 THEN l ELSE "end", !.i = i]
------------------------------------------------------------------------------
\* In order: the reader of the last round has ended, or already runs in the next.
StartWriter ==
    /\ writer.pc = "done" /\ writer.run < RUNS
    /\ writer' = [pc |-> "open", run |-> writer.run + 1, i |-> 0, sem |-> 0]
    /\ orderly' = (orderly /\ (\/ reader.run > writer.run
                               \/ reader.run = writer.run /\ reader.pc = "done"))
    /\ UNCHANGED <<file_size, name, semaphore, semaphore1, added, read, reader>>

\* sem_open: the semaphore of the name, which is 0 if it is new.
OpenWriter ==
    /\ writer.pc = "open"
    /\ writer' = [writer EXCEPT !.pc = "first_post", !.sem = name]
    /\ UNCHANGED <<file_size, name, semaphore, semaphore1, added, read, reader, orderly>>

\* The permission to change the first byte.
FirstPost ==
    /\ writer.pc = "first_post"
    /\ semaphore' = [semaphore EXCEPT ![writer.sem] = @ + 1]
    /\ writer' = Loop(writer, "wait", 0)
    /\ UNCHANGED <<file_size, name, semaphore1, added, read, reader, orderly>>

\* Mutant of WriterWait: the writer waits only for its first byte.
WriterWaitOnce ==
    /\ writer.pc = "wait" /\ (writer.i > 0 \/ semaphore[writer.sem] > 0)
    /\ writer' = [writer EXCEPT !.pc = "add"]
    /\ UNCHANGED <<file_size, name, semaphore, semaphore1, added, read, reader, orderly>>

WriterWait ==
    /\ writer.pc = "wait" /\ semaphore[writer.sem] > 0
    /\ semaphore' = [semaphore EXCEPT ![writer.sem] = @ - 1]
    /\ writer' = [writer EXCEPT !.pc = "add"]
    /\ UNCHANGED <<file_size, name, semaphore1, added, read, reader, orderly>>

Add ==
    /\ writer.pc = "add"
    /\ added' = [added EXCEPT ![writer.i] = @ + 1]
    /\ writer' = [writer EXCEPT !.pc = "post"]
    /\ UNCHANGED <<file_size, name, semaphore, semaphore1, read, reader, orderly>>

WriterPost ==
    /\ writer.pc = "post"
    /\ semaphore1' = semaphore1 + 1
    /\ writer' = Loop(writer, "wait", writer.i + 1)
    /\ UNCHANGED <<file_size, name, semaphore, added, read, reader, orderly>>

EndWriter ==
    /\ writer.pc = "end"
    /\ writer' = [writer EXCEPT !.pc = "done"]
    /\ UNCHANGED <<file_size, name, semaphore, semaphore1, added, read, reader, orderly>>

WriterStep == OpenWriter \/ FirstPost \/ WriterWait \/ Add \/ WriterPost \/ EndWriter
------------------------------------------------------------------------------
\* In order: the writer of the last round has ended, or already runs in the next.
StartReader ==
    /\ reader.pc = "done" /\ reader.run < RUNS
    /\ reader' = [pc |-> "open", run |-> reader.run + 1, i |-> 0, sem |-> 0]
    /\ read' = [j \in Used |-> 0]
    /\ orderly' = (orderly /\ (\/ writer.run > reader.run
                               \/ writer.run = reader.run /\ writer.pc = "done"))
    /\ UNCHANGED <<file_size, name, semaphore, semaphore1, added, writer>>

OpenReader ==
    /\ reader.pc = "open"
    /\ reader' = Loop([reader EXCEPT !.sem = name], "wait", 0)
    /\ UNCHANGED <<file_size, name, semaphore, semaphore1, added, read, writer, orderly>>

ReaderWait ==
    /\ reader.pc = "wait" /\ semaphore1 > 0
    /\ semaphore1' = semaphore1 - 1
    /\ reader' = [reader EXCEPT !.pc = "print"]
    /\ UNCHANGED <<file_size, name, semaphore, added, read, writer, orderly>>

PrintByte ==
    /\ reader.pc = "print"
    /\ read' = [read EXCEPT ![reader.i] = added[reader.i]]
    /\ reader' = [reader EXCEPT !.pc = "post"]
    /\ UNCHANGED <<file_size, name, semaphore, semaphore1, added, writer, orderly>>

ReaderPost ==
    /\ reader.pc = "post"
    /\ semaphore' = [semaphore EXCEPT ![reader.sem] = @ + 1]
    /\ reader' = Loop(reader, "wait", reader.i + 1)
    /\ UNCHANGED <<file_size, name, semaphore1, added, read, writer, orderly>>

\* sem_unlink: the next sem_open makes a new semaphore, who has this one keeps it.
\* SEM_NAME1 is not removed.
Unlink ==
    /\ reader.pc = "end"
    /\ name' = name + 1
    /\ reader' = [reader EXCEPT !.pc = "done"]
    /\ UNCHANGED <<file_size, semaphore, semaphore1, added, read, writer, orderly>>

ReaderStep == OpenReader \/ ReaderWait \/ PrintByte \/ ReaderPost \/ Unlink

Next == StartWriter \/ StartReader \/ WriterStep \/ ReaderStep
------------------------------------------------------------------------------
TypeOK ==
    /\ name \in 1 .. RUNS + 1
    /\ semaphore \in [1 .. RUNS + 1 -> 0 .. RUNS] /\ semaphore1 \in 0 .. RUNS
    /\ added \in [Used -> 0 .. RUNS] /\ read \in [Used -> 0 .. RUNS]
    /\ \A p \in {writer, reader} :
           p.run \in 0 .. RUNS /\ p.i \in 0 .. file_size /\ p.sem \in 0 .. RUNS + 1
    /\ orderly \in BOOLEAN

\* In rounds that are started in order the reader prints every byte after the writer has
\* changed it in this round and before any later round, and the writer is never further
\* ahead than the byte that the reader has not printed, whatever earlier rounds have
\* left in the semaphores.
ReadsChangedBytes ==
    orderly => /\ \A j \in Used : j < reader.i => read[j] = reader.run
               /\ writer.run = reader.run => writer.i <= reader.i + 1

\* A round that was started in order, and the end of both.
Begun == orderly /\ reader.run = writer.run /\ reader.run > 0
Ended == ~orderly \/ (reader.pc = "done" /\ writer.pc = "done")
==============================================================================
