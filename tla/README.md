# Verification of Linux-Console-Apps

`src/` is a collection of small Linux programs in C, exercises in threads, condition
variables, semaphores, pipes, sockets, processes and files. They share no code; what they
have in common is the handful of POSIX calls they are built from. The core of the
collection is the programs in which several threads or processes use the same state, and
those are what this project models, each in a module of its own that is checked with TLC.
For thirteen of them the safety properties are also proved with TLAPS, for any number of
threads, passengers, cars, persons or clients (section 5).

## 1. The system

### Components that are modelled

| Component (source) | State | Operations | Interaction, and what is hard | What makes it correct | Modules |
|---|---|---|---|---|---|
| Limited area (`ConditionalLock/using-conds.c`) | mutex, condition variable, counter `th_no` | enter, leave | threads wait for one of M places; one signal per departure, newcomers compete with woken threads, spurious wakeups | at most M inside, no wakeup lost, everybody passes | `LimitedArea`, `BoundedArea` |
| Limited area with semaphores (`Semaphores/l8_ex2.c`, `PracticeProblems/ex6.c`) | semaphore of places, counter under a second semaphore | the same | two semaphores are taken and given back in some order | places and counter agree at the end, nothing lost | `SemArea`, `BoundedArea` |
| Counting in turns (`ThreadCriticalRegion/Lab9_ex1.c`, `Lab9_ex1_example.c`) | mutex, condition variable, `count` | wait for one's turn, increment, wake | one condition variable for all turns: signal or broadcast | turns in order, everybody gets all of them | `TurnCounter`, `TurnCounterSignal`, `TakingTurns` |
| Counting in turns (`Semaphores/l8_ex3.c`, `l8_ex4.c`, `ConcurrentCount(Pipes)/lab11_ex3.c`, `Pipes/lab11_ex1.c`) | a ring of semaphores or pipes, unlocked `count`, `remainderr` | take token, read, write, pass token | the token is the only protection of the count; the remainder is tested without it | one token, order, end | `PingPong`, `SemRing`, `PipeRing`, `TakingTurns` |
| Missionaries and cannibals (`BoatTransport(Threads)/Lab9_ex3.c`) | two mutexes, three condition variables, counts ashore and aboard | gather, board, depart | the boat spins on counts that passengers write; start barrier broadcast without its mutex | full departures, nobody stranded or lost | `BoatTransport` |
| Room light (`RoomLightController(Threads)/Lab10_ex1_...c`) | mutex, three semaphores, two counters, the light | announce, pass the barrier, leave, report; switch on and off | the controller takes no mutex and lags behind the visits | announcements and reports pair up, one barrier token, light on while occupied | `RoomLight` |
| Cars at a light (`CarTrafficLight(Threads)/Lab9_ex2.c`) | two mutexes, four condition variables, flags of the lights | start, gather, stop, drive; switch | two start barriers, unlocked writes of the light, wakeups per street | never both green, nobody left behind, stopped cars move | `CarTraffic` |
| Cars in a one-lane street (`CarsStreet(Threads)/Lab10_ex2.c`) | the same, three semaphores, counters | slot, give way, cross, free | semaphore waits with a mutex held | one way at a time, no slot lost, no wait that cannot end | `CarsStreet` |
| Molecules (`MoleculeSimulation(Semaphores)/l8_ex6.c`, copied to `Semaphores/l8_ex6 (1).c`) | thirteen semaphores, three unlocked counters | seven kinds of atoms; create, join | chains of semaphores in random creation order; joins of handles that were never written, a `main` that ends the process without waiting for the atoms | recipe order, complete molecules, everybody bonds unless the process ends before | `Molecules` |
| Light with tokens (`Semaphores/l8_ex5.c`) | two semaphores | move, stop, green, red | cars and light take the same token | a street moves only while green | `StreetTokens` |
| Calculator over pipes (`ClientServer(Pipes)/lab11_ex2_*.c`, copied to `lab11_ex2/`) | two FIFOs as bytes and results | write in three pieces, read, answer, exit, kill | all clients share both pipes; partial reads, answers to whoever reads first; clients killed between two writes or before their answer, SIGPIPE | one right answer per request | `PipeServer` |
| Calculator over sockets (`ClientServer(Sockets)/ex5_*.c`) | connections, descriptors, `new_data`, `connected_clients`, `terminate_flag` | accept, store, create, copy, test, read, send, close, /EXIT | one record for all threads, unlocked count used as index without a check, descriptors used again, clients that vanish | every client has its thread and gets its own answers | `SocketServer` |
| Letters in shared memory (`SharedMemoryApplications/lab12_ex1.c`, `lab12_ex1_proc2.c`) | two FIFOs, a shared memory object and its name | clean up, create, open, take and give a permission, store, print, unlink | both programs open and unlink the same names, a killed one leaves them behind | proc2 prints what this proc1 stored; both end | `SharedLetters` |
| Mapped file with named semaphores (`lab12_ex2_3_writer.c`, `_reader.c`) | bytes of a file, two named semaphores | open, wait, change or print, post, unlink | one semaphore is never removed, the other while the next round may have it open | bytes are printed after they are changed, one at a time; both end | `FileSemaphores` |
| File transfer (`ClientServer(Sockets)/ex6_client.c`, `Separate server .../ex6_server.c`) | connections, descriptors, `new_data`, the files of the server, sizes and offsets of 32 bits | send size, name and blocks; accept, copy, receive, write, close; /EXIT, kill | the accept loop of the calculator; `recv` cuts anywhere; two clients with one file name; clients that vanish between two blocks | a file that is reported received is the file that was sent | `FileTransfer` |
| Thread per client (`ClientServer2(Pipes)/lab11_ex4_server.c`, `_client.c`) | mutex, `no_clients`, `arg`, names of pipes in global buffers | announce, create, count, unlock, read the id, make a name, open | the thread unlocks the mutex of `main` before it reads its argument; two unlocked increments; names in shared buffers | ids that are read in time differ; every thread gets to its pipe | `IdServer` |
| Process counting (`CountAllProcessesPrimitiveWay/optional_test2.c`) | a file of stars and the descriptor all processes share | fork, write a star, wait, lseek, read | the root waits for its own children only, then moves the offset of all the others; forks fail | the count is that of the stars, and what the formula says | `ProcessCount` |
| Two processes copy one file (`OpenWriteFile/Lab6_Test2.c`) | two shared offsets, one byte in each process | read a byte, write a byte | every interleaving of the two | every byte once, in order but for the byte that is held | `CopyByTwo` |
| Students (`StudentStructManager/l03p4.c`) | growing array of pointers, `count`, `capacity` | add, del, exit | a student is freed when it has just been stored, and again at del | the pointers are those of the commands, in their order | `StudentVector` |
| Sequential algorithms (`lab12_ex2_2.c`, `SetOperations/l03p2.c`, `SumPrimeNumbers/l03p3.c`, `CheckPrime/check-prime.c`, `GenerateAllSubsets/l03p1.c`, `FindFileLineByIndex/lab4_ex1_2.c`, `PracticeProblems/ex5.c`) | none but the input | removal of vowels, intersection, two tests for primes, subsets, search for a line, sums of ranges | neighbouring vowels, unsorted sets, 0 and 1, a line as long as the buffer | each does what its comment or message says, for the inputs of which that is claimed | `Exercises` |

`Posix` (mutexes and condition variables) and `Semaphore` model the library calls, from how
the programs use them. A condition variable is the set of the threads that sleep on it: wait
releases the mutex and adds the thread, signal removes one member chosen at random, broadcast
all of them, and a spurious wakeup removes one at any time. Programs whose tests are loops are
thus checked against what POSIX allows, not against what glibc usually does.

### Not modelled, and why

- *Copies*: `Semaphores/l8_ex6 (1).c`, the programs in `lab11_ex2/` and `optional_test.c` are
  the same programs as files that are modelled.
- *The rest of the calculator with a thread per client*: the server never writes the id its
  client waits for, so that neither gets past its first `open` or `read`; what comes after is
  code that cannot run. `lab11_ex4_server2.c` and `_client2.c` are a beginning that only prints.
- *Process tree, fork and exec programs, `ProcessClientServer`*: each forks, waits for the child
  and prints what it got; no state is shared, and there is one order only.
- *Thread creation examples* (`CreateJoinThreads`, `using-locks.c`, `l8.c`): one increment under
  one lock, which `TurnCounter` and `SemArea` contain. `ThreadSignals/l7example.c` is notes about
  calls, not a program that compiles.
- *File programs* (`LinuxFileOperations`, `FilePointer`): they open, read, write and report
  the result. `SearchNameFileTree/lab5_ex1.c` calls a `search_tree` that is not there.
- *`optional.c`*: an attempt before `optional_test2.c`, where the root reads one count from a
  pipe and then closes its end.
- *Practice problems 1 to 4*: one pipe or array each way between two processes, one write and
  one read; `ex4.c` is unfinished.
- *Other shared memory programs* (`lab12_ex2_1.c`, `lab12_reversefile.c`, `lab12_examplep*.c`):
  one process each, or one write and one read.
- Messages, menus, checks of arguments and calls that fail for want of resources are left out
  everywhere, except where a component above says that a failure is modelled.

## 2. How the modules correspond to the code

One action is one stretch of a thread between two points where another thread can be seen:
a lock, an unlock, a semaphore, a read or write of a variable that is not protected. Steps
under a mutex that nobody can observe before the unlock are one action. The places in `pc` are
source lines, listed in a comment where they are declared. Unlocked accesses are steps of their
own: `count = aux + 1` in `SemRing` and `PingPong`, `++connected_clients` in `SocketServer`
(a load and a store), the writes of `green` in `CarTraffic`, the boat's tests of its load.
`main` is modelled where it matters: threads are created while others already run, and joins
come after all of them.

- `LimitedArea` and `SemArea` implement the same abstract specification `BoundedArea` (enter
  when there is a place, leave, everybody once); `MCAreas` checks it with the refinement
  mapping `inside`, `passed`, and `MCAreas_proofs` proves its safety part for both.
- The five programs that count in turns implement `TakingTurns`, whose state is only how many
  turns each thread has taken; `MCTurns` runs them one at a time, sharing variables.
- `CarsStreet` extends `CarTraffic`: the start and the gathering of its cars are those actions.
- `Molecules`: an atom is the list of the calls it has still to make; `Code` is the seven
  thread functions, `Chosen` their `if`s. A behaviour is one of the three phases, which share
  no semaphore. `main` leaves a phase by crashing in its joins or by going on; after the last
  phase that is `return 0`, and from an earlier one a later phase ends the process at some time
  (`EndLater`). The end of the process stops the atoms that still wait.
- `PipeServer`: a byte is known by the client it is from and the part of the request it belongs
  to. That is enough to tell a right sum from a garbled one, and keeps the sizes of reads and
  writes. A number byte read as operator may be any operator. A client may be killed at any point
  (`Kill`): between two writes it leaves half a request, while it waits a result for somebody
  else. With nobody left to read it, the next result ends the server with SIGPIPE, which leaves the
  names of the pipes, so that whoever starts then waits in its `open` for ever.
- `SocketServer`: a line is known by its operator, an answer by whether it is to the line its
  client sent. /EXIT sets `terminate_flag`, closes the sockets and ends the process in one step: no
  thread of a process that has ended goes on. `overwritten` in `SocketServer` and `happened` in
  `PipeServer` are history variables: nothing in the model reads them.

- `FileTransfer`: a stream is a sequence of items, the size, the name and the bytes, each known
  by its client and position. `CHUNK` stands for the 1024 bytes of a block, `WRAP` for 2^32.
  The header and the name, one short send, arrive whole, the rest in any pieces. A thread that
  reads something else than it expects (two threads have one connection, or the stream has
  ended) may take any value for it, or return, or end the process. `overwritten` is the history
  variable of `SocketServer`.
- `IdServer`: a pipe name is the sequence of ids that were appended to it; the second buffer is
  made like the first. A load and a store of `no_clients` are two steps. To `main`, a read that
  returns because all clients were killed is one more client. `threads` has 100 places (`NO_THREADS`)
  and its index is not checked; as each client is counted twice, it is full after 50 of them, and the
  model has no more (`Announce`): what the 51st does to the stack is left out.
- `ProcessCount`: a process is a number, the sum of 2^(i-1) over the steps at which it or one it
  comes from was the child. All share one offset; the root's sleep is no bound on the others.
- `CopyByTwo`: a byte is its position in the file that is read.
- `StudentVector`: only the pointers, since every student is freed as soon as it is added;
  `malloc` may give its address again. A second free may abort the program.
- `Exercises`: one function per algorithm, loops as recursive functions of their counters.

- `SharedLetters`: a pipe, and a shared memory object, is known by the program and the run that
  made it; letters are numbers, `LETTERS` of them before the alphabet begins again, and 0 is a
  byte nobody has written. Users start one proc1 and one proc2 at a time, as early as they like,
  and may kill them. `orderly` is a history variable: since proc1 was started with nothing else
  running, nobody was killed or started too early. What earlier runs left behind stays.
- `FileSemaphores`: a semaphore is known by how often its name was removed before; a byte is the
  number of times it was changed. `orderly` is a history variable here, too.

Undefined behaviour is a choice over what a build can do: a join of a handle that was never
written crashes or returns (`Molecules`); a write behind `sockets` (line 165 of `ex5_server.c`) does
nothing, ends the process or sets `terminate_flag`, which builds put next to the array, so that
threads leave their clients without closing their sockets; one behind `clients` (line 175) does
nothing or ends the process (`SocketServer`); a thread that reads nothing evaluates the last line, or any line if
there was none. Spin loops on plain variables are taken to read them every time, as in a build
without optimisation; `sem_destroy` has no effect, as in glibc.

## 3. The runs

| Run | What it asks | Bounds, and why they are enough |
|---|---|---|
| `areas` | `AreaLimit`, `NoLostWakeup`, `PlacesAddUp`; both programs implement `BoundedArea` (`ImplementsArea`) and end (`Termination`) | 4 threads, 2 places: two wait while two are inside, so a signal can meet a newcomer and a second departure |
| `turns` | `InTurn` (refinement of `TakingTurns`), `OneToken` (with what a lost token may do to the count), `NoLostTurn`, `EndsUnlessTokenLost`: every program ends, and the two that can get stuck do so in one way only | 3 threads, 3 rounds: with two threads a wrong wakeup cannot happen, with three rounds the ring is passed twice |
| `boat` | `FullBoat`, `MCConservation`, `NoStrandedPassenger`, `CrossesOrMissesStart` | 3 passengers from creation; 6 (two boat loads) of every mix from the opened start barrier, so that one load waits while the other leaves |
| `streets` | the two programs with cars: `NeverBothGreen`, `NobodyLeftGathering`, `OneWay`, `SlotsAddUp`; `CarsGoOn`: a car that sleeps at a light is woken, all get to the lights or have missed the start, a slot comes | 3 cars, of every mix of streets; `MAX = 1`: a car that has left may still hold the only slot; `POST_BOUND` stops the two semaphores that are only ever posted. `bridge` begins with the cars gathered: up to there it is `light` |
| `semaphores` | `VisitsPairUp`, `OneBarrierToken` (room), `InRecipeOrder` (molecules), `OneStreetMoves` (tokens), `AllLeave` | 4 persons: the controller can be two visits behind; 3, 2 and 2 molecules: counters pass a molecule, and the next one may begin early. Atoms of H2SO4 start when all but the last exist; of equal atoms only the first moves; the end of the process may come at any time after the joins of a phase, also when that is the last |
| `processes` | the four servers: `OwnAnswers` (sockets), `ResultsMatch` (pipes), `FilesArrive` (transfer), `FreshIdsDiffer` (ids), `AllAnswered` | 2 clients, so that the second may get the first one's descriptor, steal its result, mix into its request or send a file of its name; 2-byte integers; `MAX_CLIENTS = 1`, so that the limit is reached; `CHUNK = 2`, `WRAP = 4` and files of two blocks, of `WRAP` bytes, one that is refused and one that is not there. Two clients send the first of these, or one of them another. Clients of the pipes and sockets may be killed at any time; after requests were mixed users of the pipes begin no more, and after a thread of the transfer was lost nobody is killed there |
| `files` | `ReadsAreFresh` (letters and mapped file), `CountIsRight`, `EachByteOnce`, `SequentialRight` (students and exercises), `BothEnd` | 2 runs of proc1 and proc2, so that one meets what a killed or finished one left, 1 or 3 letters of an alphabet of 2; 3 rounds of writer and reader with files of 1, 2 and 4 bytes, which need no turn, one and three; up to 4 forks with every skip, all lines of the formula; files of 0, 1, 2 and 5 bytes for two processes; 5 students, so that the array grows twice, at 2 addresses. Texts of 4 characters, all pairs of arrays of 3 of 3 numbers, numbers to 20, sets of 5, files of 5 characters with a buffer of 2 |
| `signal_hang`, `ring_stuck`, `boat_seats`, `room_dark`, `socket_threads` | each checks one sentence of a comment that the code does not keep, see section 4 | the smallest instance that shows it |

Deadlock checking is off where programs end or, as the runs say, may get stuck; there the
liveness properties say who must have ended. Every property is shown to bite by a mutant: a
plausible slip (a dropped `while`, a forgotten post, an off-by-one) that violates it in the
same run.

**Fairness.** Weak fairness of every thread: the scheduler runs a thread that stays able to
run. No fairness is assumed of a lock or a semaphore beyond that, and where a property would
need more it is not claimed (the light of `l8_ex5.c` may lose its `sem_wait` to the cars every
time). Spurious wakeups are not fair and do not go on for ever. In `processes`
and `files` users need neither type nor leave, and nobody needs to start, end or kill a program.

## 4. What the runs found

- `signal_hang`: with three threads `pthread_cond_signal` of `Lab9_ex1_example.c` can wake a
  thread whose turn it is not, and everything stops.
- `ring_stuck`: a thread of `l8_ex4.c` that finds no remainder leaves with the token.
- `boat_seats`: the conditions of `Lab9_ex3.c` let a fourth passenger board.
- `room_dark`: a person who enters while the controller closes the last visit is in the dark.
- `socket_threads`: two clients that connect together get two threads for one of them.

Things the models show that no line of the repository contradicts: `l8_ex4.c` may count too
much with a remainder (never too little, see `OneToken`); passengers and cars that test the
start flag just before its unlocked broadcast sleep for ever (the second disjuncts of
`CrossesOrMissesStart` and, in `CarsGoOn`, `GetToLightsOrMissStart`); two hydrogens may leave before their water
is complete; a client of the pipe server that starts while the server is ending waits in its
`open`; results go to whichever client reads first; `connected_clients` may lose updates; with a
single letter proc1 may be gone before proc2 opens the object, and proc2 ends with SIGBUS; a round
of writer and reader that is started before the one before it has ended may hang.

Of the servers and processes: a file of 2^32 bytes or more is cut to its size modulo 2^32 and
reported received; the thread of a client that ends before the end of its file receives 0 bytes for
ever; the second client of `lab11_ex4_server.c` may get the id 6 instead of 4, threads that are late
get each other's, and two may open one pipe; the stars are counted too low when a grandchild writes
after the root's `lseek`, or over the others; once `ex5_server.c` has `MAX_CLIENTS` clients, the next
one may set `terminate_flag`, and then threads leave clients that wait for an answer; the atoms that
wait when `main` of `l8_ex6.c` returns never bond.

Some sequential programs do not do what the repository says, on inputs that one test shows. They
have no run of their own, and the properties, and the theorems about them, are about the other inputs
only:

- `SumPrimeNumbers/l03p3.c:2` says "the sum of the prime numbers"; 0, 1 and negative numbers pass its
  test `isPrime`, and that of `CheckPrime/check-prime.c`, and are added.
- `SetOperations/l03p2.c:5` asks for `card(intersection)` and `card(union)`; common elements of sets
  that are not given in increasing order are passed over.
- `SharedMemoryApplications/lab12_ex2_2.c:81` prints "Vowels removed and file size maintained
  successfully!"; the second of two neighbouring vowels stays in the file, as a marker or under a dot.
- `FindFileLineByIndex/lab4_ex1_2.c` returns a line that is as long as the buffer without its last
  character (lines 27 to 34), and with no error.
- `StudentStructManager/l03p4.c:161` frees the student it has just stored: `list` reads freed memory
  and `del` frees it again. The pointers are modelled, what they point to is not.

## 5. What is proved

Eight modules hold theorems. `X_proofs` extends `X`; where `X` is one of the `MC...` modules its
programs are proved there, as it is there that their constants have one meaning. Every proof is
checked down to its leaves, and no fact is assumed but the named assumptions of the modules and,
for a program that is only instantiated, the assumption stated in its theorems.

| Module | Theorems | For all |
|---|---|---|
| `MCAreas_proofs` | `AreaNeverOverfull`, `NoWakeupLost`, `PlacesAlwaysAddUp`, `TypeCorrect`; `ImplementsBoundedArea`, `BothImplementBoundedArea` | finite sets of threads, M > 0 |
| `MCTurns_proofs` | `NoTurnLost`, `CountIsRight`, `TypeCorrect`, `ImplementsTakingTurns` (`TurnCounter`); `RingsHaveOneToken` (`SemRing`, `PipeRing`); `AllTakeTurns`, `TurnsTypeCorrect` (all programs) | n > 0, m >= 0; `AllTakeTurns`: n > 2 |
| `SemRing_proofs` | `RingHasOneToken`, `RingMissesNothing`, `RoundsInTurn`, `TypeCorrect` | num_threads > 0, count_max >= 0 |
| `MCBoat_proofs` | `BoatLeavesFull`, `NobodyStranded`, `PassengersAddUp`, `NobodyLeftBehind`, `TypeCorrect` (`BoatTransport`); `PartsAddUp`, `PartsTypeCorrect` (as the run starts it) | numbers of passengers that main accepts, mixes of kinds |
| `MCStreets_proofs` | `LightsExclude`, `AllGathered`, `TypeCorrect` (`CarTraffic`); `BridgeIsOneWay`, `SlotsAreKept`, `BridgeTypeCorrect`, `BridgeLights` (`CarsStreet`); `StreetsAreSafe`, `StreetsTypeCorrect` (both, as the run starts them) | finite sets of cars, mixes of streets, sizes of the bridge |
| `MCSemaphores_proofs` | `VisitsAlwaysPairUp`, `BarrierIsOneToken`, `TypeCorrect` (`RoomLight`); `StreetsMoveInTurn` (`StreetTokens`); `AtomsInRecipeOrder` (`Molecules`); `SemaphoresTypeCorrect` (all three) | finite sets of persons; numbers of molecules |
| `MCProcesses_proofs` | `ClientsGetTheirAnswers` (`SocketServer`); `IdsDiffer` (`IdServer`); `ReceivedFilesAreWhole` (`FileTransfer`); `ResultsAreSums` (`PipeServer`); `RunsOfAll`, `ServersTypes` (all four) | numbers of clients and requests; sizes of a block and of integers, files |
| `MCFiles_proofs` | `CopiedOnce`, `TypeCorrect` (`CopyByTwo`); `FreshReads` (`SharedLetters`, `FileSemaphores`); `CountedExactly` (`ProcessCount`); `VectorInOrder` (`StudentVector`); `TestsForPrimes`, `SumOfPrimes`, `EverySubsetOnce`, `QuotientOfSets`, `SumOfRanges`, `LineIsFound`, `VowelsAreRemoved` (`Exercises`); `SequentialAlwaysRight`, `FilesTypes` (as they are run) | sizes of files and of the memory, letters, numbers of runs, of forks and of students; inputs of any size |

Every invariant that a passing run checks is stated by one of these theorems, and so is the safety
part of both refinements.

Two abstract specifications are implemented step by step: `BoundedArea` by both programs with a
limited area (`using-conds.c` is the one other programs of the collection are derived from), and
`TakingTurns` by every program that counts in turns, each through a refinement mapping of its own:
the loop variable that counts up, the one that counts down, the steps a process has printed.

**Assumptions.** Sets of threads, cars, persons and passengers are finite, and `Nobody` is none of
them; M and n are positive, m is natural; the size of the bridge and `POST_BOUND` are positive; the number of passengers is divisible by `NO_SEATS` (line 121 of
`Lab9_ex3.c` refuses others; only finiteness is used). `AmountAssumption`: the numbers of molecules
are natural; `SemaphoresTypeCorrect` is for a positive number of those of H2SO4 (the code has 20, `NUM_S`), whose run
begins when all atoms but one exist. File sizes and numbers of runs are natural numbers, and `MCFilesAssumption` adds that a
shared memory object is for one letter at least (`mmap` refuses a length of 0), that the alphabet has one,
and that the numbers of forks and of skipped ones are natural. The theorems about the exercises state what they take of
the input: numbers are integers that do not overflow, those that are summed up as primes greater than 1, sets are in increasing
order, a buffer has a place and the line that is looked for is not exactly as long, a text ends with something that is
no vowel, holds no marker and no two vowels side by side.
`SemRingAssumption` is that `l8_ex4.c` is started with at least one thread (line 62 refuses less) and
a count that is not negative (one below 0 is not counted to by anybody). `TransferAssumption`: a block
and `WRAP` are positive, a size is natural or `NoFile`, and no file has the name that stands for none. `PipesAssumption`: an integer has a byte at least, and the
number of requests is natural.
`AllTakeTurns` is for more than two threads: the two counts left over in the program `remainder` are
then less than a round, so that each thread has m turns in the rounds of all programs.
No theorem assumes fairness.

**The inductive invariants.** None of the properties is inductive as it stands; `IInv` in each module
is the conjunction that is, and a comment over each conjunct says what it stands for.

- *Areas.* A thread at its increment must know that nobody has entered since it tested: the
  holder of the mutex is exactly the thread at `test` or `leaving`, and only threads in
  `pthread_cond_wait` sleep. `NoLostWakeup` is then inductive: every step that takes a contender
  away takes a place or finds none, and every departure pays with a signal. With semaphores, three
  counts are inductive together: free and taken places, the lock of the counter, and the counter.
- *Turns.* `TakingTurns` remembers how often each participant had its turn; the programs only have
  `count`, or a token. The invariants say what one is in terms of the other: under a mutex
  `count = q * n + r` when q rounds are complete and r threads have had the next turn (`InRound`,
  `SignalOrder`), so that `count % n = i` is the abstract guard, whoever is woken. In the rings
  the token is in one semaphore or pipe or with one thread, and who has it is next in the round
  (`Ordered`, `PipeInv`, `AlternateInv`); in `l8_ex4.c` that lasts as long as rounds are left. That
  no count is missed takes an account of all increments (`Made`, `Extra`) and of the threads between
  the test of `remainderr` and its decrement (`Pending`). The bounds of the counters follow from the turns: in
  `l8_ex3.c`, which writes `count` without a lock, it is the turns taken and the one being taken (`AlternateTypes`).
- *Boat.* That the boat leaves full although it tests `curr_...` without the mutex needs
  `Loaded` (a load that was seen stays), which needs that only the boat takes passengers off.
  `NoStrandedPassenger` needs that whoever goes to sleep sees a full load (`MustWait` implies it).
  `Order` says that the boat is created last and when it stops, so that `Conservation` gives
  `NobodyLeftBehind`. `Counted` bounds the counters by the number of passengers of each kind. All of it also
  holds of the state in which the second part of the run begins.
- *Cars.* `Colours` says at which places of its cycle the light may show green to each street. The
  second barrier loses nobody because whoever sets `all_cars_instantiated` holds `finish_cars_mutex`
  (`Gathering`), so that nobody is between test and wait. On the bridge `OneWay` takes the mutex, and
  what the mutex is worth (`Exclusion`) takes every step of the program. The bridge is
  proved from the real initial state of `BridgeSpec` and from that of the run, in which the cars are
  gathered.
- *Room.* The two counters count the persons at the places behind them, nobody has reported
  who has not gone, and by the mutex nobody else is between the barrier and the door when somebody
  finds the room empty.
- *Molecules.* The atoms at each place of their code are counted (`Num`). In water and in acid there
  is one turn, in a semaphore or with one atom, and where it is bounds how many atoms of the next
  molecule have had it (`WaterInv`, `AcidInv`). So when a turn begins, the number of atoms that have
  begun tells its place in the recipe (`WaterNeeds`, `AcidNeeds`), and as the unlocked counters are
  only used with the turn, `count_h % 2` and `count_o % 4` choose right. The other semaphores pay
  for each atom that goes. Nobody touches a semaphore of another phase (`OthersRest`), and no more atoms of
  an element are anywhere than there are of it (`AtMostAll`), which bounds every semaphore: those that stand
  for a turn are 1 at most. The theorem is also of the program from its real initial state, where
  the run of H2SO4 begins when all atoms but one exist.
- *Socket server.* Each connection has one descriptor at most (`Opened`), and while `main` has not used
  `new_data` too early it is that of the one thread that has not copied it, and the descriptor of every
  other thread leads to its own client (`Undisturbed`).
- *Calculator over pipes.* The bytes in the pipe are in step (`Aligned`): each byte tells how many bytes of its
  request were written before it, and that number goes up by one from byte to byte until the request ends.
  The server reads at the place in a request where the next byte is (`InStep`), so a read of a number
  finds all of its bytes, although it does not wait for them. The results there are and those still
  to be written (`Owed`) are as many as the clients that wait, as long as each operator is valid, and more
  only by those of clients killed while they waited; while requests do not overlap and none of these
  was killed, one client at a time has begun one (`OneAtATime`), so both are at most one. When the
  server is killed by SIGPIPE both pipes are empty, which is in step with everything.
- *Ids.* Of the increments of `main` and the thread one may be lost, but never both: before `main`
  comes to the next client the counter has grown, and with it the argument (`Grows`). So the ids of
  threads that read in time grow, too (`Fresh`).
- *File transfer.* Everything a client sends is one line of items, known from its file (`Line`), and what
  is on its way is the part of it behind what its thread has taken (`Channel`), so a thread takes
  nothing for what it is not and its offset is what it has written. Of the threads that write one
  file, the one that emptied it last has left no hole before its offset, and the file ends at the offset
  of one of them (`Written`). A thread that reports `received` has `off % WRAP >= size % WRAP` only; with
  `off <= size < WRAP`, that makes every offset the size of the file.
- *Types of the servers.* `connected_clients` is incremented by `main` and decremented by each thread without a lock and
  can be many things, but never more than there were increments nor less than minus the decrements
  (`Entered`, `Departed`, `Possible`). The offset of a file takes more: a thread whose descriptor was
  overwritten reads another client's line, from anywhere, but it takes bytes only behind a
  header, and a client has sent a header, a name and its bytes (`ClientBound`, `HandlerBound`). The
  counter of `lab11_ex4_server.c` never passes the increments that were begun, no id passes the argument, and each
  thread makes one name longer by one (`IdCounts`, `IdNames`).
- *Copy.* Each byte that was read is in the file or held by one process, and nowhere twice
  (`Accounted`). As many bytes are missing at the end of the file as are held (`Lengths`), so that a byte
  is early by one place at most.
- *Mapped file.* Round k uses the semaphore made in round k: after the reader's `sem_unlink` the name
  leads to a new one. In a round each semaphore holds what one of the two has posted and the
  other has not waited for (`Balanced`), whichever of the two is late, and the bytes before `Changed(k)`
  have been changed k times, the others k - 1 times (`AddedInRound`). A round that has ended leaves
  both semaphores as the next one needs them.
- *Letters.* A permission is worth a letter: those that a run of `proc1` has written, read by its `proc2`
  or still in the pipe, are never more than the letters it has stored (`Permissions`). Which letters is
  certain although an older, killed `proc1` may store into the same object, because every run stores the
  same letter at the same place (`Alphabetical`). So `proc2` prints the right ones if it has the pipes and
  the object of one run (`Printed`). It has them when the two were started in order, because nobody else
  opens the pipes before (`Alone`), and `proc1` waits after its first letter for a permission of
  `proc2` and so cannot remove the object too early (`Meeting`, `Together`): this needs a size above 1.
- *Types of semaphores and pipes.* The values of all semaphores of the mapped file that were ever
  made, with what is held of them, are what was first posted (`FilePermissions`); the permissions of one
  run of `proc1` are at most one more than the letters of the object, also when a `proc2` has the pipes of two
  runs (`OneRun`, `FewOf`).
- *Forks.* A process is named by the set of steps at which it is a child, written as a number; a child of step h
  has the power of two for h in addition to those of its parent (`CountFamily`), so no two forks make the same
  process. If no fork fails and none is skipped there are 2^h processes after h steps. Each writes one star, at the end or over another one, so that the file is as long as there were writers at most.
- *Students.* The pointer at each place of the array is the address that `malloc` gave to the student
  the commands have at that place, however often the array was copied to a larger one or its pointers
  were moved (`VectorInv`).
- *Exercises.* A loop is an equation between its rounds, and the recursive function of the model is the
  one that satisfies it. So that there is such a function is shown first, by giving it (the number of
  elements the rests of two sets have in common) or by building it one round after the other; then
  that all such functions agree with what is claimed, by induction over the rounds. For the vowels the claim is that after place j the
  first j places hold the characters that are no vowels, in their order, and the rest stands as many places further
  to the left as vowels were met (`ShiftedTo`);
  for a line, that the loops stop at the least place with as many newlines before it.

Induction is used in the form "a set with 0 and with every successor contains all natural numbers"
(`NatSetInduction`), which follows from the library's theorem that `<` is well-founded on them; the
induction theorems of the library take an operator, which the installed provers cannot instantiate.

**What stays with TLC.** Liveness (`Termination`, `EndsUnlessTokenLost`, `CrossesOrMissesStart`,
`CarsGoOn`, `AllLeave`, `AllAnswered`, `BothEnd`) and everything about fairness and ENABLED is out of the
reach of the provers. In the run of `MCBoat` the two parts
have different sets of passengers, to keep it small; `PartsTypeCorrect` and `PartsAddUp` are of every
set of passengers for the second part, and of every set that is also that of the first part for the first one
(`OnePart`), which has no others.

## 6. Reading order

`Posix`, `Semaphore`; `BoundedArea`, `LimitedArea`, `SemArea`, `MCAreas`, `MCAreas_proofs`;
`TakingTurns`, `TurnCounter`, `TurnCounterSignal`, `SemRing`, `SemRing_proofs`, `PingPong`, `PipeRing`,
`MCTurns`, `MCTurns_proofs`; `BoatTransport`, `MCBoat`, `MCBoat_proofs`; `CarTraffic`, `CarsStreet`,
`MCStreets`, `MCStreets_proofs`; `RoomLight`, `Molecules`, `StreetTokens`, `MCSemaphores`,
`MCSemaphores_proofs`; `PipeServer`, `SocketServer`, `FileTransfer`, `IdServer`, `MCProcesses`,
`MCProcesses_proofs`; `SharedLetters`, `FileSemaphores`, `ProcessCount`, `CopyByTwo`,
`StudentVector`, `Exercises`, `MCFiles`, `MCFiles_proofs`. The modules `MC...` put programs of
one kind into one run: a variable `program` chooses, the others stay as they start.

## 7. What is left

Every program in which two actors can meet is modelled, and of the sequential ones the algorithms;
section 1 says what is not modelled. Every invariant that the runs check is also proved. What could
be added is liveness by hand from the well-founded orders that the invariants suggest (threads that are left, turns that
are left), once the provers support ENABLED; until then it is checked by TLC on the instances of section 3.
