---------------------------- MODULE BoatTransport ----------------------------
(***************************************************************************)
(* BoatTransport(Threads)/Lab9_ex3.c: n missionaries and cannibals gather  *)
(* at a start barrier and then board a boat of NO_SEATS seats.             *)
(*                                                                         *)
(* The boat polls and changes shared variables outside the mutexes the     *)
(* passengers test them under, so a test and what follows it are separate  *)
(* steps wherever the boat can write in between.  What a passenger does    *)
(* with mutex held, and the boat on lines 90-104, are single steps: the    *)
(* variables they use change under that mutex only.                        *)
(***************************************************************************)
EXTENDS Posix, FiniteSets

CONSTANT Passengers     \* the threads main creates besides the boat

n == Cardinality(Passengers)
NO_SEATS == 3

\* main refuses an n that is not divisible by NO_SEATS (line 121).
ASSUME BoatAssumption ==
    IsFiniteSet(Passengers) /\ n % NO_SEATS = 0 /\ Nobody \notin Passengers

VARIABLES
    mutex, mutex_instantiated,
    cond,                   \* where missionaries wait to board
    cond2,                  \* where cannibals wait to board
    cond_instantiated,      \* where passengers wait for the start
    all_instantiated,
    count,                  \* how many passengers arrived
    waiting,                \* no_missionaries and no_cannibals, by kind
    aboard,                 \* curr_missionaries and curr_cannibals, by kind
    kind,                   \* what each passenger is
    pc,
    boat, main

start == <<mutex_instantiated, cond_instantiated, all_instantiated, count>>
boarding == <<mutex, cond, cond2, waiting, aboard>>
vars == <<start, boarding, kind, pc, boat, main>>

Kinds == {"MISSIONARY", "CANNIBAL"}

\* gather: at line 33; arrive: at line 34; test: at line 36; drowsy: about to wait
\* in line 37; asleep: in line 37; board: at line 41; guard: at line 42 with mutex;
\* queue: in line 44.  The same places of cannibal are at lines 57-66.
Places == {"new", "gather", "arrive", "test", "drowsy", "asleep", "board", "guard",
           "queue", "done"}

\* spin: at line 80; announce: at 85; call: at 86; watch: at 88; load: at 90;
\* wake2, wake: at 105 and 106.
BoatPlaces == {"new", "spin", "announce", "call", "watch", "load", "wake2", "wake",
               "done"}

Init ==
    /\ mutex = Nobody /\ mutex_instantiated = Nobody
    /\ cond = {} /\ cond2 = {} /\ cond_instantiated = {}
    /\ all_instantiated = FALSE
    /\ count = 0
    /\ waiting = [k \in Kinds |-> 0]
    /\ aboard = [k \in Kinds |-> 0]
    /\ kind = [t \in Passengers |-> "CANNIBAL"]
    /\ pc = [t \in Passengers |-> "new"]
    /\ boat = "new"
    /\ main = "running"

Move(t, from, to) == pc[t] = from /\ pc' = [pc EXCEPT ![t] = to]
Sail(from, to) == boat = from /\ boat' = to
------------------------------------------------------------------------------
(* The start barrier: lines 33-39 of missionary, 57-62 of cannibal.         *)

Gather(t) ==
    /\ Move(t, "gather", "arrive")
    /\ Lock(mutex_instantiated, t)
    /\ UNCHANGED <<cond_instantiated, all_instantiated, count>>

Arrive(t) ==
    /\ Move(t, "arrive", "test")
    /\ count' = count + 1
    /\ UNCHANGED <<mutex_instantiated, cond_instantiated, all_instantiated>>

TestStart(t) ==
    /\ ~all_instantiated
    /\ Move(t, "test", "drowsy")
    /\ UNCHANGED start

Sleep(t) ==
    /\ Move(t, "drowsy", "asleep")
    /\ CondWait(cond_instantiated, mutex_instantiated, t)
    /\ UNCHANGED <<all_instantiated, count>>

Awake(t) ==
    /\ t \notin cond_instantiated
    /\ Move(t, "asleep", "test")
    /\ Lock(mutex_instantiated, t)
    /\ UNCHANGED <<cond_instantiated, all_instantiated, count>>

PassStart(t) ==
    /\ all_instantiated
    /\ Move(t, "test", "board")
    /\ Unlock(mutex_instantiated, t)
    /\ UNCHANGED <<cond_instantiated, all_instantiated, count>>

StartStep(t) ==
    /\ Gather(t) \/ Arrive(t) \/ TestStart(t) \/ Sleep(t) \/ Awake(t) \/ PassStart(t)
    /\ UNCHANGED <<boarding, kind, boat, main>>
------------------------------------------------------------------------------
(* Boarding: lines 41-50 of missionary, 64-72 of cannibal.                  *)

\* The conditions of the while loops of lines 42 and 65.
MissionaryMustWait ==
    \/ aboard["MISSIONARY"] = 2 /\ aboard["CANNIBAL"] = 1
    \/ aboard["MISSIONARY"] = 3 /\ waiting["CANNIBAL"] = 0
CannibalMustWait ==
    \/ aboard["CANNIBAL"] = 3 /\ aboard["MISSIONARY"] = 0
    \/ aboard["CANNIBAL"] >= 1 /\ aboard["MISSIONARY"] = 2

MustWait(t) == IF kind[t] = "MISSIONARY" THEN MissionaryMustWait ELSE CannibalMustWait

LockToBoard(t) ==
    /\ Move(t, "board", "guard")
    /\ Lock(mutex, t)
    /\ UNCHANGED <<cond, cond2, waiting, aboard>>

Queue(t) ==
    /\ MustWait(t)
    /\ Move(t, "guard", "queue")
    /\ IF kind[t] = "MISSIONARY"
       THEN CondWait(cond, mutex, t) /\ UNCHANGED cond2
       ELSE CondWait(cond2, mutex, t) /\ UNCHANGED cond
    /\ UNCHANGED <<waiting, aboard>>

WakeUp(t) ==
    /\ t \notin cond \cup cond2
    /\ Move(t, "queue", "guard")
    /\ Lock(mutex, t)
    /\ UNCHANGED <<cond, cond2, waiting, aboard>>

GetIn(t) ==
    /\ ~MustWait(t)
    /\ Move(t, "guard", "done")
    /\ aboard' = [aboard EXCEPT ![kind[t]] = @ + 1]
    /\ Unlock(mutex, t)
    /\ UNCHANGED <<cond, cond2, waiting>>

BoardingStep(t) ==
    /\ LockToBoard(t) \/ Queue(t) \/ WakeUp(t) \/ GetIn(t)
    /\ UNCHANGED <<start, kind, boat, main>>

Spurious ==
    /\ \/ SpuriousWakeup(cond_instantiated) /\ UNCHANGED <<cond, cond2>>
       \/ SpuriousWakeup(cond) /\ UNCHANGED <<cond_instantiated, cond2>>
       \/ SpuriousWakeup(cond2) /\ UNCHANGED <<cond_instantiated, cond>>
    /\ UNCHANGED <<mutex, mutex_instantiated, all_instantiated, count, waiting,
                   aboard, kind, pc, boat, main>>
------------------------------------------------------------------------------
(* The boat: boatt.                                                         *)

\* The boat spins on count without a mutex.
SeeAllArrived ==
    /\ count >= n
    /\ Sail("spin", "announce")
    /\ UNCHANGED <<start, boarding>>

Announce ==
    /\ Sail("announce", "call")
    /\ all_instantiated' = TRUE
    /\ UNCHANGED <<mutex_instantiated, cond_instantiated, count, boarding>>

Call ==
    /\ Sail("call", "watch")
    /\ Broadcast(cond_instantiated)
    /\ UNCHANGED <<mutex_instantiated, all_instantiated, count, boarding>>

Seated == aboard["MISSIONARY"] + aboard["CANNIBAL"]
NobodyLeft == waiting["MISSIONARY"] + waiting["CANNIBAL"] = 0

\* Mutant of SeeFull: a seat short.
SeeAlmostFull ==
    /\ ~NobodyLeft
    /\ Seated >= NO_SEATS - 1
    /\ Sail("watch", "load")
    /\ UNCHANGED <<start, boarding>>

\* Lines 88-89, without a mutex; until the boat leaves, passengers only get in.
SeeFull ==
    /\ ~NobodyLeft
    /\ Seated >= NO_SEATS
    /\ Sail("watch", "load")
    /\ UNCHANGED <<start, boarding>>

\* Mutant of Load: it counts who waits in the place of who got in.
LoadWaiting ==
    LET cannibals == IF waiting["CANNIBAL"] < NO_SEATS THEN waiting["CANNIBAL"] ELSE NO_SEATS
    IN [k \in Kinds |-> IF k = "CANNIBAL" THEN cannibals ELSE NO_SEATS - cannibals]

\* Lines 92-103: cannibals take the seats first.
Load ==
    LET cannibals == IF aboard["CANNIBAL"] < NO_SEATS THEN aboard["CANNIBAL"] ELSE NO_SEATS
        room == NO_SEATS - cannibals
        missionaries == IF aboard["MISSIONARY"] < room THEN aboard["MISSIONARY"] ELSE room
    IN [k \in Kinds |-> IF k = "CANNIBAL" THEN cannibals ELSE missionaries]

\* Mutant of Depart: who leaves is still counted as waiting.
DepartUncounted ==
    /\ Sail("load", "wake2")
    /\ mutex = Nobody
    /\ aboard' = [k \in Kinds |-> aboard[k] - Load[k]]
    /\ UNCHANGED <<start, mutex, cond, cond2, waiting>>

Depart ==
    /\ Sail("load", "wake2")
    /\ mutex = Nobody
    /\ aboard' = [k \in Kinds |-> aboard[k] - Load[k]]
    /\ waiting' = [k \in Kinds |-> waiting[k] - Load[k]]
    /\ UNCHANGED <<start, mutex, cond, cond2>>

WakeCannibals ==
    /\ Sail("wake2", "wake")
    /\ Broadcast(cond2)
    /\ UNCHANGED <<start, mutex, cond, waiting, aboard>>

\* Mutant of WakeMissionaries: it wakes one of them.
WakeMissionary ==
    /\ Sail("wake", "watch")
    /\ Signal(cond)
    /\ UNCHANGED <<start, mutex, cond2, waiting, aboard>>

WakeMissionaries ==
    /\ Sail("wake", "watch")
    /\ Broadcast(cond)
    /\ UNCHANGED <<start, mutex, cond2, waiting, aboard>>

BoatEnds ==
    /\ NobodyLeft
    /\ Sail("watch", "done")
    /\ UNCHANGED <<start, boarding>>

BoatStep ==
    /\ \/ SeeAllArrived \/ Announce \/ Call \/ SeeFull \/ Depart
       \/ WakeCannibals \/ WakeMissionaries \/ BoatEnds
    /\ UNCHANGED <<kind, pc, main>>
------------------------------------------------------------------------------
(* main: creates passengers of random kinds, then the boat, and joins them  *)
(* all.  Which passenger is next is immaterial; nobody uses the counters of *)
(* lines 149 and 152 before the boat runs, so creating a passenger and      *)
(* counting it are one step.                                                *)

Create(t) ==
    /\ Move(t, "new", "gather")
    /\ \E k \in Kinds :
        /\ kind' = [kind EXCEPT ![t] = k]
        /\ waiting' = [waiting EXCEPT ![k] = @ + 1]
    /\ UNCHANGED <<start, mutex, cond, cond2, aboard, boat, main>>

CreateBoat ==
    /\ \A p \in Passengers : pc[p] # "new"
    /\ Sail("new", "spin")
    /\ UNCHANGED <<start, boarding, kind, pc, main>>

JoinedAll ==
    /\ main = "running"
    /\ boat = "done"
    /\ \A t \in Passengers : pc[t] = "done"
    /\ main' = "done"
    /\ UNCHANGED <<start, boarding, kind, pc, boat>>

MainStep == CreateBoat \/ JoinedAll \/ \E t \in Passengers : Create(t)

Terminated == main = "done" /\ UNCHANGED vars

PassengerStep(t) == StartStep(t) \/ BoardingStep(t)

Next ==
    \/ MainStep \/ BoatStep \/ Spurious \/ Terminated
    \/ \E t \in Passengers : PassengerStep(t)

Spec == Init /\ [][Next]_vars

\* The scheduler runs every thread that can run, and spurious wakeups do not go
\* on for ever.
Fairness ==
    /\ WF_vars(MainStep) /\ WF_vars(BoatStep)
    /\ \A t \in Passengers : WF_vars(PassengerStep(t))
    /\ <>[][~Spurious]_vars

FairSpec == Spec /\ Fairness
------------------------------------------------------------------------------
\* The type invariant.
TypeOK ==
    /\ mutex \in Passengers \cup {Nobody}
    /\ mutex_instantiated \in Passengers \cup {Nobody}
    /\ cond \in SUBSET Passengers
    /\ cond2 \in SUBSET Passengers
    /\ cond_instantiated \in SUBSET Passengers
    /\ all_instantiated \in BOOLEAN
    /\ count \in 0 .. n
    /\ waiting \in [Kinds -> 0 .. n]
    /\ aboard \in [Kinds -> 0 .. n]
    /\ kind \in [Passengers -> Kinds]
    /\ pc \in [Passengers -> Places]
    /\ boat \in BoatPlaces
    /\ main \in {"running", "done"}

Ashore(k) == {t \in Passengers : kind[t] = k /\ pc[t] \notin {"new", "done"}}

\* Nobody is lost or carried twice: of each kind, those the boat still counts as
\* waiting are those on the shore and those aboard.
Conservation == \A k \in Kinds : waiting[k] = Cardinality(Ashore(k)) + aboard[k]

\* "boat won't leave without being fully loaded" (line 23), although it tests the
\* load before it takes the mutex: every departure carries NO_SEATS passengers.
FullBoat ==
    [][Depart => Load["MISSIONARY"] + Load["CANNIBAL"] = NO_SEATS]_vars

\* Nobody sleeps on the shore beside a boat that will not leave: while a passenger
\* waits to board, the boat has its load or has left and is about to wake him.
NoStrandedPassenger ==
    /\ cond # {} => Seated >= NO_SEATS \/ boat \in {"wake2", "wake"}
    /\ cond2 # {} => Seated >= NO_SEATS \/ boat = "wake2"

\* Whoever is past the start barrier gets across, and main joins everybody, unless
\* somebody sleeps for ever at the start barrier that has long been opened.
CrossesOrMissesStart ==
    <>(main = "done" /\ Seated = 0) \/ <>[](all_instantiated /\ cond_instantiated # {})

\* "we have only 3 seats" (line 23).
SeatLimit == Seated <= NO_SEATS
==============================================================================
