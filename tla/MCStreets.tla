------------------------------ MODULE MCStreets ------------------------------
(***************************************************************************)
(* The two programs with cars of two streets for TLC: a run is a run of    *)
(* one of them.                                                            *)
(***************************************************************************)
EXTENDS CarsStreet

VARIABLE program

allVars == <<bridgeVars, program>>

\* The cars of the second program have gathered: up to there it is the first one.
MCInit ==
    \/ BridgeInit /\ program = "light"
    \/ /\ program = "bridge"
       /\ sem_max = MAX
       /\ sem_rem_cars = [s \in Streets |-> 1]
       /\ rem_cars = [s \in Streets |-> 0]
       /\ mutex = Nobody /\ finish_cars_mutex = Nobody
       /\ cond = {} /\ finish_cars = {}
       /\ queue = [s \in Streets |-> {}]
       /\ exists_traffic_light = TRUE /\ all_cars_instantiated = TRUE
       /\ no_cars_entered = n
       /\ green = [s \in Streets |-> FALSE]
       /\ street \in [Cars -> Streets]
       /\ pc = [t \in Cars |-> "loop"]
       /\ light = "callall"

MCMain == BridgeMain /\ UNCHANGED program
MCLight == ControllerStep /\ UNCHANGED program
MCSpurious == BridgeSpurious /\ UNCHANGED program
MCCar(t) ==
    /\ \/ program = "light" /\ CarStep(t) /\ UNCHANGED bridge
       \/ program = "bridge" /\ (BridgeApproach(t) \/ BridgeStep(t))
    /\ UNCHANGED program

MCNext == MCMain \/ MCLight \/ MCSpurious \/ \E t \in Cars : MCCar(t)

\* The fairness of both: threads run, spurious wakeups do not go on for ever.
MCSpec ==
    /\ MCInit /\ [][MCNext]_allVars
    /\ WF_allVars(MCMain) /\ WF_allVars(MCLight)
    /\ \A t \in Cars : WF_allVars(MCCar(t))
    /\ <>[][~MCSpurious]_allVars
------------------------------------------------------------------------------
\* The type invariants; places on the bridge are those of its program.
MCTypeOK ==
    /\ BridgeTypeOK
    /\ program = "light" => TypeOK

\* A car that sleeps at the lights is woken, every car gets to the lights unless one has
\* missed the start, and a car that waits for a slot gets across.
CarsGoOn == StoppedCarsWakeUp /\ GetToLightsOrMissStart /\ SlotComes
=============================================================================
