------------------------------ MODULE CarTraffic ------------------------------
(***************************************************************************)
(* CarTrafficLight(Threads)/Lab9_ex2.c: n cars of two streets wait for the *)
(* traffic light to exist, then for each other, and then drive through an  *)
(* intersection for ever while the light cycles.                           *)
(*                                                                         *)
(* The traffic light takes no mutex at all, and no_cars_entered is changed *)
(* under mutex but tested under finish_cars_mutex: tests and the waits     *)
(* they lead to are separate steps.  still_cars_a and still_cars_b are     *)
(* written and never read; they are left out.                              *)
(***************************************************************************)
EXTENDS Posix, FiniteSets

CONSTANT Cars

n == Cardinality(Cars)

ASSUME CarTrafficAssumption == IsFiniteSet(Cars) /\ Nobody \notin Cars

VARIABLES
    mutex, finish_cars_mutex,
    cond,                   \* where cars wait for the traffic light to exist
    finish_cars,            \* where cars wait for each other
    queue,                  \* street_a and street_b: where cars wait for green
    exists_traffic_light, all_cars_instantiated,
    no_cars_entered,
    green,                  \* street_a_green and street_b_green
    street,                 \* the street of each car
    pc, light

flags == <<exists_traffic_light, all_cars_instantiated>>
starting == <<cond, exists_traffic_light>>
gathering == <<finish_cars_mutex, finish_cars, all_cars_instantiated>>
driving == <<queue, green>>
vars == <<mutex, starting, gathering, driving, no_cars_entered, street, pc, light>>

Streets == {"A", "B"}

\* start: at line 22; test: at 23 with mutex; drowsy: about to wait in 24; asleep:
\* in 24; gather, gtest, gdrowsy, gasleep: the same at 45, 47, 48 and 48; loop: at
\* 54; gate: at 58 or 64 with mutex; stop: about to wait in 59 or 65; stopped: in 59
\* or 65; drive: at 77 or 81, with mutex.
Places == {"new", "start", "test", "drowsy", "asleep",
           "gather", "gtest", "gdrowsy", "gasleep",
           "loop", "gate", "stop", "stopped", "drive"}

\* show: at line 118; call: at 119; spin: at 121; callall: at 123; then one place for
\* every write and broadcast of the cycle on lines 127-142.
Cycle == {"redA", "redB", "greenA", "keepB", "callA", "stopA", "greenB", "callB"}
LightPlaces == {"new", "show", "call", "spin", "callall"} \cup Cycle

Init ==
    /\ mutex = Nobody /\ finish_cars_mutex = Nobody
    /\ cond = {} /\ finish_cars = {}
    /\ queue = [s \in Streets |-> {}]
    /\ exists_traffic_light = FALSE /\ all_cars_instantiated = FALSE
    /\ no_cars_entered = 0
    /\ green = [s \in Streets |-> FALSE]
    /\ street = [t \in Cars |-> "A"]
    /\ pc = [t \in Cars |-> "new"]
    /\ light = "new"

Move(t, from, to) == pc[t] = from /\ pc' = [pc EXCEPT ![t] = to]
Switch(from, to) == light = from /\ light' = to
------------------------------------------------------------------------------
(* car, lines 22-42: wait for the traffic light.                            *)

LockStart(t) ==
    /\ Move(t, "start", "test")
    /\ Lock(mutex, t)
    /\ UNCHANGED <<starting, no_cars_entered>>

TestLight(t) ==
    /\ ~exists_traffic_light
    /\ Move(t, "test", "drowsy")
    /\ UNCHANGED <<mutex, starting, no_cars_entered>>

Sleep(t) ==
    /\ Move(t, "drowsy", "asleep")
    /\ CondWait(cond, mutex, t)
    /\ UNCHANGED <<exists_traffic_light, no_cars_entered>>

\* Mutant of Awake: the car is counted in the loop.
AwakeCounted(t) ==
    /\ t \notin cond
    /\ Move(t, "asleep", "test")
    /\ Lock(mutex, t)
    /\ no_cars_entered' = no_cars_entered + 1
    /\ UNCHANGED starting

Awake(t) ==
    /\ t \notin cond
    /\ Move(t, "asleep", "test")
    /\ Lock(mutex, t)
    /\ UNCHANGED <<starting, no_cars_entered>>

EnterStreet(t) ==
    /\ exists_traffic_light
    /\ Move(t, "test", "gather")
    /\ no_cars_entered' = no_cars_entered + 1
    /\ Unlock(mutex, t)
    /\ UNCHANGED starting

StartStep(t) ==
    /\ LockStart(t) \/ TestLight(t) \/ Sleep(t) \/ Awake(t) \/ EnterStreet(t)
    /\ UNCHANGED <<gathering, driving>>
------------------------------------------------------------------------------
(* car, lines 45-51: wait for the other cars.                               *)

AllEntered == no_cars_entered >= n

LockGather(t) ==
    /\ Move(t, "gather", "gtest")
    /\ Lock(finish_cars_mutex, t)
    /\ UNCHANGED <<finish_cars, all_cars_instantiated>>

TestGather(t) ==
    /\ ~AllEntered
    /\ Move(t, "gtest", "gdrowsy")
    /\ UNCHANGED gathering

SleepGather(t) ==
    /\ Move(t, "gdrowsy", "gasleep")
    /\ CondWait(finish_cars, finish_cars_mutex, t)
    /\ UNCHANGED all_cars_instantiated

AwakeGather(t) ==
    /\ t \notin finish_cars
    /\ Move(t, "gasleep", "gtest")
    /\ Lock(finish_cars_mutex, t)
    /\ UNCHANGED <<finish_cars, all_cars_instantiated>>

Gathered(t) ==
    /\ AllEntered
    /\ Move(t, "gtest", "loop")
    /\ all_cars_instantiated' = TRUE
    /\ Unlock(finish_cars_mutex, t)
    /\ UNCHANGED finish_cars

GatherStep(t) ==
    /\ \/ LockGather(t) \/ TestGather(t) \/ SleepGather(t) \/ AwakeGather(t)
       \/ Gathered(t)
    /\ UNCHANGED <<mutex, starting, driving, no_cars_entered>>
------------------------------------------------------------------------------
(* car, lines 53-110: wait for green and drive through with the mutex held. *)

LockGate(t) ==
    /\ Move(t, "loop", "gate")
    /\ Lock(mutex, t)
    /\ UNCHANGED queue

SeeRed(t) ==
    /\ ~green[street[t]]
    /\ Move(t, "gate", "stop")
    /\ UNCHANGED <<mutex, queue>>

Stop(t) ==
    /\ Move(t, "stop", "stopped")
    /\ Unlock(mutex, t)
    /\ queue' = [queue EXCEPT ![street[t]] = @ \cup {t}]

Restart(t) ==
    /\ t \notin queue[street[t]]
    /\ Move(t, "stopped", "gate")
    /\ Lock(mutex, t)
    /\ UNCHANGED queue

SeeGreen(t) ==
    /\ green[street[t]]
    /\ Move(t, "gate", "drive")
    /\ UNCHANGED <<mutex, queue>>

DriveOff(t) ==
    /\ Move(t, "drive", "loop")
    /\ Unlock(mutex, t)
    /\ UNCHANGED queue

ApproachStep(t) ==
    LockGate(t) \/ SeeRed(t) \/ Stop(t) \/ Restart(t) \/ SeeGreen(t)

DriveStep(t) ==
    /\ ApproachStep(t) \/ DriveOff(t)
    /\ UNCHANGED <<green, starting, gathering, no_cars_entered>>

CarStep(t) == (StartStep(t) \/ GatherStep(t) \/ DriveStep(t)) /\ UNCHANGED <<street, light>>

Spurious ==
    /\ \/ SpuriousWakeup(cond) /\ UNCHANGED <<finish_cars, queue>>
       \/ SpuriousWakeup(finish_cars) /\ UNCHANGED <<cond, queue>>
       \/ /\ \E s \in Streets, t \in Cars :
                t \in queue[s] /\ queue' = [queue EXCEPT ![s] = @ \ {t}]
          /\ UNCHANGED <<cond, finish_cars>>
    /\ UNCHANGED <<mutex, finish_cars_mutex, flags, no_cars_entered, green, street,
                   pc, light>>
------------------------------------------------------------------------------
(* traffic_light                                                            *)

Show ==
    /\ Switch("show", "call")
    /\ exists_traffic_light' = TRUE
    /\ UNCHANGED <<cond, gathering, driving>>

CallCars ==
    /\ Switch("call", "spin")
    /\ Broadcast(cond)
    /\ UNCHANGED <<exists_traffic_light, gathering, driving>>

\* Mutant of SeeInstantiated: the light does not wait for the cars.
SeeNothing ==
    /\ Switch("spin", "callall")
    /\ UNCHANGED <<starting, gathering, driving>>

SeeInstantiated ==
    /\ all_cars_instantiated
    /\ Switch("spin", "callall")
    /\ UNCHANGED <<starting, gathering, driving>>

\* Mutant of CallGathered: no broadcast.
CallNobody ==
    /\ Switch("callall", "redA")
    /\ UNCHANGED <<starting, gathering, driving>>

CallGathered ==
    /\ Switch("callall", "redA")
    /\ Broadcast(finish_cars)
    /\ UNCHANGED <<starting, finish_cars_mutex, all_cars_instantiated, driving>>

\* The light of street s is set between two places of the cycle.
Turn(from, to, s, colour) ==
    /\ Switch(from, to)
    /\ green' = [green EXCEPT ![s] = colour]
    /\ UNCHANGED <<starting, gathering, queue>>

\* Mutant of CallStreet: it wakes one car.
CallOneCar(from, to, s) ==
    /\ Switch(from, to)
    /\ IF queue[s] = {}
       THEN UNCHANGED queue
       ELSE \E t \in queue[s] : queue' = [queue EXCEPT ![s] = @ \ {t}]
    /\ UNCHANGED <<starting, gathering, green>>

CallStreet(from, to, s) ==
    /\ Switch(from, to)
    /\ queue' = [queue EXCEPT ![s] = {}]
    /\ UNCHANGED <<starting, gathering, green>>

AllRed == Turn("redA", "redB", "A", FALSE) \/ Turn("redB", "greenA", "B", FALSE)

GreenForA ==
    \/ Turn("greenA", "keepB", "A", TRUE) \/ Turn("keepB", "callA", "B", FALSE)
    \/ CallStreet("callA", "stopA", "A")

\* Mutant of GreenForB: green before the other street is red.
GreenForBFirst ==
    \/ Turn("stopA", "greenB", "B", TRUE) \/ Turn("greenB", "callB", "A", FALSE)
    \/ CallStreet("callB", "redA", "B")

GreenForB ==
    \/ Turn("stopA", "greenB", "A", FALSE) \/ Turn("greenB", "callB", "B", TRUE)
    \/ CallStreet("callB", "redA", "B")

LightStep ==
    /\ \/ Show \/ CallCars \/ SeeInstantiated \/ CallGathered
       \/ AllRed \/ GreenForA \/ GreenForB
    /\ UNCHANGED <<mutex, no_cars_entered, street, pc>>
------------------------------------------------------------------------------
(* main creates the cars, each on a random street (line 20), and then the   *)
(* light; its joins never return.                                           *)

Create(t) ==
    /\ Move(t, "new", "start")
    /\ \E s \in Streets : street' = [street EXCEPT ![t] = s]
    /\ UNCHANGED <<mutex, starting, gathering, driving, no_cars_entered, light>>

CreateLight ==
    /\ \A t \in Cars : pc[t] # "new"
    /\ Switch("new", "show")
    /\ UNCHANGED <<mutex, starting, gathering, driving, no_cars_entered, street, pc>>

MainStep == CreateLight \/ \E t \in Cars : Create(t)

Next == MainStep \/ LightStep \/ Spurious \/ \E t \in Cars : CarStep(t)

Spec == Init /\ [][Next]_vars

\* The scheduler runs every thread that can run, and spurious wakeups do not go
\* on for ever.
FairSpec ==
    /\ Spec
    /\ WF_vars(MainStep) /\ WF_vars(LightStep)
    /\ \A t \in Cars : WF_vars(CarStep(t))
    /\ <>[][~Spurious]_vars
------------------------------------------------------------------------------
\* The type invariant.
TypeOK ==
    /\ mutex \in Cars \cup {Nobody}
    /\ finish_cars_mutex \in Cars \cup {Nobody}
    /\ cond \in SUBSET Cars
    /\ finish_cars \in SUBSET Cars
    /\ queue \in [Streets -> SUBSET Cars]
    /\ exists_traffic_light \in BOOLEAN
    /\ all_cars_instantiated \in BOOLEAN
    /\ no_cars_entered \in 0 .. n
    /\ green \in [Streets -> BOOLEAN]
    /\ street \in [Cars -> Streets]
    /\ pc \in [Cars -> Places]
    /\ light \in LightPlaces

\* The two streets are never green together, not even between the two unlocked
\* writes of a switch (lines 128-129, 133-134 and 139-140).
NeverBothGreen == ~(green["A"] /\ green["B"])

\* The second barrier loses no wakeup although its condition is changed under the
\* other mutex: when the light has broadcast finish_cars, nobody sleeps there or is
\* about to, and every car has entered.
NobodyLeftGathering ==
    light \in Cycle =>
        /\ AllEntered
        /\ finish_cars = {}
        /\ \A t \in Cars : pc[t] # "gdrowsy"

\* Cars are alike: what is true of one, whatever it does, is true of all.
AnyCar == CHOOSE t \in Cars : TRUE

\* A car that stops at a red light is woken again, however often it missed the
\* broadcast because it saw red just before the light turned green.
StoppedCarsWakeUp == []<>(AnyCar \notin queue["A"] \cup queue["B"])

AtLights(t) ==
    pc[t] \notin {"new", "start", "test", "drowsy", "asleep", "gather", "gtest", "gdrowsy", "gasleep"}

\* Once no car has missed the start, every car gets to the lights.
GetToLightsOrMissStart ==
    \/ []<>(\A t \in Cars : AtLights(t))
    \/ <>[](exists_traffic_light /\ cond # {})
==============================================================================
