------------------------------ MODULE CarsStreet ------------------------------
(***************************************************************************)
(* CarsStreet(Threads)/Lab10_ex2.c: the program of CarTraffic with a       *)
(* bridge in the place of the intersection.  A car counts itself, takes a  *)
(* slot of the bridge and, when cars of the other street are counted,      *)
(* waits for them; it does all of this with mutex held.                    *)
(*                                                                         *)
(* rem_cars_mutex is left out: whoever locks it holds mutex already.       *)
(***************************************************************************)
EXTENDS CarTraffic, Semaphore

CONSTANTS MAX,          \* slots of the bridge, 5 in the code
          POST_BOUND    \* where the model stops counting the posts of lines 130 and 137

ASSUME CarsStreetAssumption == MAX \in Nat \ {0} /\ POST_BOUND \in Nat \ {0}

VARIABLES sem_max,      \* the free slots
          sem_rem_cars, \* sem_rem_cars_a and sem_rem_cars_b
          rem_cars      \* rem_cars_a and rem_cars_b

bridge == <<sem_max, sem_rem_cars, rem_cars>>
bridgeVars == <<vars, bridge>>

\* Beside those of CarTraffic, where drive is line 80: slot: at line 98; check: at
\* line 99; cross: at line 118; all with mutex; free: at line 148.
BridgePlaces == Places \cup {"slot", "check", "cross", "free"}

BridgeInit ==
    /\ Init
    /\ sem_max = MAX
    /\ sem_rem_cars = [s \in Streets |-> 1]
    /\ rem_cars = [s \in Streets |-> 0]

Other(s) == IF s = "A" THEN "B" ELSE "A"

\* Mutant of CountIn: the mutex is given up before the bridge.
CountInAndUnlock(t) ==
    /\ Move(t, "drive", "slot")
    /\ rem_cars' = [rem_cars EXCEPT ![street[t]] = @ + 1]
    /\ Unlock(mutex, t)
    /\ UNCHANGED <<sem_max, sem_rem_cars>>

CountIn(t) ==
    /\ Move(t, "drive", "slot")
    /\ rem_cars' = [rem_cars EXCEPT ![street[t]] = @ + 1]
    /\ UNCHANGED <<mutex, sem_max, sem_rem_cars>>

TakeSlot(t) ==
    /\ Move(t, "slot", "check")
    /\ SemWait(sem_max)
    /\ UNCHANGED <<mutex, sem_rem_cars, rem_cars>>

\* Lines 99-116.
GiveWay(t) ==
    /\ Move(t, "check", "cross")
    /\ IF rem_cars[Other(street[t])] > 0
       THEN SemWaitAt(sem_rem_cars, Other(street[t]))
       ELSE UNCHANGED sem_rem_cars
    /\ UNCHANGED <<mutex, sem_max, rem_cars>>

\* Nobody waits for these posts while the mutex is held, and they go on for ever.
PostRemaining(s) ==
    IF sem_rem_cars[s] < POST_BOUND THEN SemPostAt(sem_rem_cars, s) ELSE UNCHANGED sem_rem_cars

\* Mutant of LeaveBridge: the car is not counted out.
LeaveUncounted(t) ==
    /\ Move(t, "cross", "free")
    /\ Unlock(mutex, t)
    /\ UNCHANGED bridge

LeaveBridge(t) ==
    /\ Move(t, "cross", "free")
    /\ rem_cars' = [rem_cars EXCEPT ![street[t]] = @ - 1]
    /\ IF rem_cars[street[t]] = 1 THEN PostRemaining(Other(street[t])) ELSE UNCHANGED sem_rem_cars
    /\ Unlock(mutex, t)
    /\ UNCHANGED sem_max

\* Mutant of FreeSlot: the slot is kept.
FreeSlotForgotten(t) ==
    /\ Move(t, "free", "loop")
    /\ UNCHANGED <<mutex, bridge>>

FreeSlot(t) ==
    /\ Move(t, "free", "loop")
    /\ SemPost(sem_max)
    /\ UNCHANGED <<mutex, sem_rem_cars, rem_cars>>

BridgeStep(t) ==
    /\ CountIn(t) \/ TakeSlot(t) \/ GiveWay(t) \/ LeaveBridge(t) \/ FreeSlot(t)
    /\ UNCHANGED <<driving, starting, gathering, no_cars_entered, street, light>>

\* The other lines of car are those of CarTraffic.
BridgeStart(t) == StartStep(t) /\ UNCHANGED <<street, light, bridge>>
BridgeGather(t) == GatherStep(t) /\ UNCHANGED <<street, light, bridge>>
BridgeApproach(t) ==
    /\ ApproachStep(t)
    /\ UNCHANGED <<green, starting, gathering, no_cars_entered, street, light, bridge>>

BridgeCarStep(t) ==
    BridgeStart(t) \/ BridgeGather(t) \/ BridgeApproach(t) \/ BridgeStep(t)

\* traffic_controller is the traffic light of CarTraffic, and main its main.
ControllerStep == LightStep /\ UNCHANGED bridge
BridgeMain == MainStep /\ UNCHANGED bridge
BridgeSpurious == Spurious /\ UNCHANGED bridge

BridgeNext ==
    \/ BridgeMain \/ ControllerStep \/ BridgeSpurious
    \/ \E t \in Cars : BridgeCarStep(t)

BridgeSpec == BridgeInit /\ [][BridgeNext]_bridgeVars

\* The scheduler runs every thread that can run, and spurious wakeups do not go
\* on for ever.
BridgeFairSpec ==
    /\ BridgeSpec
    /\ WF_bridgeVars(BridgeMain) /\ WF_bridgeVars(ControllerStep)
    /\ \A t \in Cars : WF_bridgeVars(BridgeCarStep(t))
    /\ <>[][~BridgeSpurious]_bridgeVars
------------------------------------------------------------------------------
\* The type invariant of what the bridge adds.
BridgeTypeOK ==
    /\ sem_max \in 0 .. MAX
    /\ sem_rem_cars \in [Streets -> 0 .. POST_BOUND]
    /\ rem_cars \in [Streets -> 0 .. n]
    /\ pc \in [Cars -> BridgePlaces]

On(s) == {t \in Cars : street[t] = s /\ pc[t] \in {"slot", "check", "cross"}}

\* A slot is freed after the mutex (line 148), so that cars that have left may still
\* hold all of them: every slot is free or held, by a car on the bridge or by one
\* about to post.
SlotsAddUp ==
    sem_max + Cardinality({t \in Cars : pc[t] \in {"check", "cross", "free"}}) = MAX

\* The counters are the cars on the bridge, and whoever is on it finds no car of the
\* other street there.  So nobody ever waits on line 102 or 108, where the mutex it
\* holds would keep everybody from posting.
OneWay ==
    /\ \A s \in Streets : rem_cars[s] = Cardinality(On(s))
    /\ On("A") = {} \/ On("B") = {}

\* A car that waits for a slot, with the mutex held, gets across: the cars that hold
\* the slots need no mutex to free them.
SlotComes == []<>(AnyCar \notin On("A") \cup On("B"))
==============================================================================
