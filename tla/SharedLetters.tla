---------------------------- MODULE SharedLetters ----------------------------
(***************************************************************************)
(* lab12_ex1.c (proc1) and lab12_ex1_proc2.c (proc2) in                    *)
(* SharedMemoryApplications: proc1 stores letters in a shared memory       *)
(* object and proc2 prints them, each with the permission of the other, a  *)
(* byte in a named pipe.  A user may start each program again, too early   *)
(* too, and may kill it; proc1 removes the pipes that a killed proc1 left. *)
(***************************************************************************)
EXTENDS Sequences, Integers

CONSTANTS SIZES,    \* the sizes the programs may be started with
          LETTERS,  \* letters from 'a' to 'z'
          RUNS      \* bound: how often each of the programs is started

VARIABLES size,     \* argv[2] of both programs
          fifo,     \* the pipes of the two names: the run of proc1 that made them, or 0
          bytes,    \* what is in them
          shm,      \* the object of the name argv[1]: the program and run that created it
          memory,   \* its letters, <<>> before the object has its size
          mapped,   \* the objects that the runs of proc1 have mapped
          proc1, proc2,
          out,      \* what this run of proc2 has printed
          orderly   \* since proc1 was started with nothing else running, nobody was
                    \* killed or started too early

vars == <<size, fifo, bytes, shm, memory, mapped, proc1, proc2, out, orderly>>

Pipes == {1, 2}         \* FIFO_NAME, permissions of proc2, and FIFO_NAME1, of proc1
Runs == 1 .. RUNS
None == <<"none", 0>>
Objects == {"proc1", "proc2"} \X Runs

Down == {"idle", "killed", "bus"}   \* bus: killed by SIGBUS
Opened1 == {"shm_open", "ftruncate", "read", "store", "write", "shm_unlink"}

Init ==
    /\ size \in SIZES
    /\ fifo = [k \in Pipes |-> 0]
    /\ bytes = [k \in Pipes |-> [r \in Runs |-> 0]]
    /\ shm = None
    /\ memory = [o \in Objects |-> <<>>]
    /\ mapped = [r \in Runs |-> None]
    /\ proc1 = [pc |-> "idle", run |-> 0, count |-> 0, letter |-> 1, met |-> FALSE]
    /\ proc2 = [pc |-> "idle", run |-> 0, count |-> 0, fd |-> [k \in Pipes |-> 0], obj |-> None]
    /\ out = <<>>
    /\ orderly = FALSE

At1(l) == proc1.pc = l
At2(l) == proc2.pc = l
Go1(l) == proc1' = [proc1 EXCEPT !.pc = l]
Go2(l) == proc2' = [proc2 EXCEPT !.pc = l]

\* shm_open with O_CREAT: the object of the name, or a new one of size 0.
Opened(o) == IF shm = None THEN o ELSE shm

\* The bytes of a pipe are lost when the last process that has it open closes it.
Closed1 ==
    [k \in Pipes |-> [r \in Runs |-> IF proc2.fd[k] = r /\ proc2.pc \notin Down
                                     THEN bytes[k][r] ELSE 0]]
Closed2 ==
    [k \in Pipes |-> [r \in Runs |-> IF r = proc1.run /\ proc1.pc \in Opened1
                                     THEN bytes[k][r] ELSE 0]]
------------------------------------------------------------------------------
(* proc1 *)

Start1 ==
    /\ proc1.pc \in Down /\ proc1.run < RUNS
    /\ proc1' = [pc |-> "unlink1", run |-> proc1.run + 1, count |-> 0, letter |-> 1,
                 met |-> FALSE]
    /\ orderly' = (proc2.pc \in Down)
    /\ UNCHANGED <<size, fifo, bytes, shm, memory, mapped, proc2, out>>

Unlink(k, l) ==
    /\ fifo' = [fifo EXCEPT ![k] = 0]
    /\ Go1(l)
    /\ UNCHANGED <<size, bytes, shm, memory, mapped, proc2, out, orderly>>

UnlinkOld ==
    \/ At1("unlink1") /\ Unlink(1, "unlink2")
    \/ At1("unlink2") /\ Unlink(2, "mkfifo1")

MkFifo(k, l) ==
    /\ fifo' = [fifo EXCEPT ![k] = proc1.run]
    /\ Go1(l)
    /\ UNCHANGED <<size, bytes, shm, memory, mapped, proc2, out, orderly>>

MkFifos ==
    \/ At1("mkfifo1") /\ MkFifo(1, "mkfifo2")
    \/ At1("mkfifo2") /\ MkFifo(2, "open")

\* Mutant of OpenPipes: proc1 gets no first permission.
OpenPipesOnly ==
    /\ At1("open")
    /\ Go1("shm_open")
    /\ UNCHANGED <<size, fifo, bytes, shm, memory, mapped, proc2, out, orderly>>

\* Both pipes are open, and proc1 has its first permission.
OpenPipes ==
    /\ At1("open")
    /\ bytes' = [bytes EXCEPT ![2][proc1.run] = @ + 1]
    /\ Go1("shm_open")
    /\ UNCHANGED <<size, fifo, shm, memory, mapped, proc2, out, orderly>>

ShmOpen1 ==
    /\ At1("shm_open")
    /\ LET o == Opened(<<"proc1", proc1.run>>)
       IN  shm' = o /\ mapped' = [mapped EXCEPT ![proc1.run] = o]
    /\ Go1("ftruncate")
    /\ UNCHANGED <<size, fifo, bytes, memory, proc2, out, orderly>>

\* An object that has its size keeps its letters, a new one is filled with zeros.
Ftruncate ==
    /\ At1("ftruncate")
    /\ memory' = [memory EXCEPT ![mapped[proc1.run]] =
                      IF @ = <<>> THEN [j \in 1 .. size |-> 0] ELSE @]
    /\ Go1("read")
    /\ UNCHANGED <<size, fifo, bytes, shm, mapped, proc2, out, orderly>>

Read1 ==
    /\ At1("read") /\ bytes[2][proc1.run] > 0
    /\ bytes' = [bytes EXCEPT ![2][proc1.run] = @ - 1]
    /\ Go1("store")
    /\ UNCHANGED <<size, fifo, shm, memory, mapped, proc2, out, orderly>>

Store ==
    /\ At1("store")
    /\ LET letter == IF proc1.letter > LETTERS THEN 1 ELSE proc1.letter
       IN  /\ memory' = [memory EXCEPT ![mapped[proc1.run]][proc1.count + 1] = letter]
           /\ proc1' = [proc1 EXCEPT !.pc = "write", !.letter = letter + 1, !.count = @ + 1]
    /\ UNCHANGED <<size, fifo, bytes, shm, mapped, proc2, out, orderly>>

Write1 ==
    /\ At1("write")
    /\ bytes' = [bytes EXCEPT ![1][proc1.run] = @ + 1]
    /\ Go1(IF proc1.count < size THEN "read" ELSE "shm_unlink")
    /\ UNCHANGED <<size, fifo, shm, memory, mapped, proc2, out, orderly>>

\* The name of the object is removed, and the pipes are closed.
Cleanup1 ==
    /\ At1("shm_unlink")
    /\ shm' = None /\ bytes' = Closed1
    /\ Go1("last_unlink1")
    /\ UNCHANGED <<size, fifo, memory, mapped, proc2, out, orderly>>

UnlinkOwn ==
    \/ At1("last_unlink1") /\ Unlink(1, "last_unlink2")
    \/ At1("last_unlink2") /\ Unlink(2, "idle")

Step1 ==
    UnlinkOld \/ MkFifos \/ OpenPipes \/ ShmOpen1 \/ Ftruncate \/ Read1 \/ Store \/ Write1
    \/ Cleanup1 \/ UnlinkOwn
------------------------------------------------------------------------------
(* proc2 *)

\* Too early: this run of proc1 has its proc2, or old pipes are still there.
TooEarly == proc1.met \/ \E k \in Pipes : fifo[k] \notin {0, proc1.run}

Start2 ==
    /\ proc2.pc \in Down /\ proc2.run < RUNS
    /\ proc2' = [pc |-> "open1", run |-> proc2.run + 1, count |-> 0,
                 fd |-> [k \in Pipes |-> 0], obj |-> None]
    /\ out' = <<>>
    /\ orderly' = (orderly /\ ~TooEarly)
    /\ UNCHANGED <<size, fifo, bytes, shm, memory, mapped, proc1>>

Open1 ==
    /\ At2("open1")
    /\ proc2' = [proc2 EXCEPT !.pc = "open2", !.fd[1] = fifo[1]]
    /\ UNCHANGED <<size, fifo, bytes, shm, memory, mapped, proc1, out, orderly>>

\* A pipe that is not there ends the program.
Open2 ==
    /\ At2("open2")
    /\ LET fd == [proc2.fd EXCEPT ![2] = fifo[2]]
       IN  IF \E k \in Pipes : fd[k] = 0
           THEN /\ proc2' = [proc2 EXCEPT !.pc = "idle", !.fd = fd]
                /\ bytes' = Closed2 /\ UNCHANGED proc1
           ELSE /\ proc2' = [proc2 EXCEPT !.pc = "shm_open", !.fd = fd]
                /\ proc1' = [proc1 EXCEPT !.met = TRUE]
                /\ UNCHANGED bytes
    /\ UNCHANGED <<size, fifo, shm, memory, mapped, out, orderly>>

ShmOpen2 ==
    /\ At2("shm_open")
    /\ LET o == Opened(<<"proc2", proc2.run>>)
       IN  shm' = o /\ proc2' = [proc2 EXCEPT !.pc = "read", !.obj = o]
    /\ UNCHANGED <<size, fifo, bytes, memory, mapped, proc1, out, orderly>>

\* Mutant of Read2: proc2 reads without permission.
Read2Unasked ==
    /\ At2("read")
    /\ Go2("print")
    /\ UNCHANGED <<size, fifo, bytes, shm, memory, mapped, proc1, out, orderly>>

Read2 ==
    /\ At2("read") /\ bytes[1][proc2.fd[1]] > 0
    /\ bytes' = [bytes EXCEPT ![1][proc2.fd[1]] = @ - 1]
    /\ Go2("print")
    /\ UNCHANGED <<size, fifo, shm, memory, mapped, proc1, out, orderly>>

PrintLetter ==
    /\ At2("print") /\ memory[proc2.obj] # <<>>
    /\ out' = Append(out, memory[proc2.obj][proc2.count + 1])
    /\ proc2' = [proc2 EXCEPT !.pc = "write", !.count = @ + 1]
    /\ UNCHANGED <<size, fifo, bytes, shm, memory, mapped, proc1, orderly>>

\* The page of an object of size 0 cannot be read.
BusError ==
    /\ At2("print") /\ memory[proc2.obj] = <<>>
    /\ Go2("bus") /\ bytes' = Closed2
    /\ UNCHANGED <<size, fifo, shm, memory, mapped, proc1, out, orderly>>

Write2 ==
    /\ At2("write")
    /\ bytes' = [bytes EXCEPT ![2][proc2.fd[2]] = @ + 1]
    /\ Go2(IF proc2.count < size THEN "read" ELSE "shm_unlink")
    /\ UNCHANGED <<size, fifo, shm, memory, mapped, proc1, out, orderly>>

\* proc2 removes the name too, whatever object has it by now.
Cleanup2 ==
    /\ At2("shm_unlink")
    /\ shm' = None /\ bytes' = Closed2
    /\ Go2("idle")
    /\ UNCHANGED <<size, fifo, memory, mapped, proc1, out, orderly>>

Step2 ==
    Open1 \/ Open2 \/ ShmOpen2 \/ Read2 \/ PrintLetter \/ BusError \/ Write2 \/ Cleanup2
------------------------------------------------------------------------------
\* The user kills one of the programs.
Kill ==
    /\ \/ proc1.pc \notin Down /\ Go1("killed") /\ bytes' = Closed1 /\ UNCHANGED proc2
       \/ proc2.pc \notin Down /\ Go2("killed") /\ bytes' = Closed2 /\ UNCHANGED proc1
    /\ orderly' = FALSE
    /\ UNCHANGED <<size, fifo, shm, memory, mapped, out>>

User == Start1 \/ Start2 \/ Kill

Next == Step1 \/ Step2 \/ User
------------------------------------------------------------------------------
TypeOK ==
    /\ size \in SIZES
    /\ fifo \in [Pipes -> 0 .. RUNS]
    /\ bytes \in [Pipes -> [Runs -> 0 .. size + 1]]
    /\ shm \in Objects \cup {None}
    /\ \A o \in Objects :
           Len(memory[o]) \in {0, size} /\ \A j \in 1 .. Len(memory[o]) : memory[o][j] \in 0 .. LETTERS
    /\ mapped \in [Runs -> Objects \cup {None}]
    /\ proc1.run \in 0 .. RUNS /\ proc1.count \in 0 .. size /\ proc1.letter \in 1 .. LETTERS + 1
    /\ proc2.run \in 0 .. RUNS /\ proc2.count \in 0 .. size
    /\ proc2.fd \in [Pipes -> 0 .. RUNS] /\ proc2.obj \in Objects \cup {None}
    /\ Len(out) = proc2.count
    /\ orderly \in BOOLEAN

Printing == proc2.pc \in {"read", "print", "write", "shm_unlink"}

\* proc2 has the pipes and the memory of one run of proc1.
Paired ==
    \E r \in Runs : proc2.fd = [k \in Pipes |-> r] /\ proc2.obj = mapped[r]

\* Line 88 of lab12_ex1.c: from a to z, and from a again.
Alphabet(j) == ((j - 1) % LETTERS) + 1

\* A proc2 that has the pipes and the memory of one proc1 prints the letters that this
\* run stored, and never reads memory that is not there; and it has those of one proc1
\* when both were started in order, and not for a single letter, which proc1 stores
\* without waiting for proc2.  A run that was killed before does no harm.
PrintsLetters ==
    /\ Paired => /\ \A j \in 1 .. Len(out) : out[j] = Alphabet(j)
                 /\ proc2.pc # "bus"
    /\ orderly /\ size > 1 /\ proc1.met /\ proc2.pc \notin {"shm_open", "read"}
           => Paired

\* Programs that were started in order, and the end of both.
Begun == orderly /\ size > 1 /\ Printing
Ended == ~orderly \/ (At1("idle") /\ At2("idle") /\ Len(out) = size)
==============================================================================
