------------------------------- MODULE MCBoat -------------------------------
(***************************************************************************)
(* BoatTransport for TLC, in two parts: the whole program with one boat    *)
(* load, and two boat loads of every mix of passengers from the moment     *)
(* the start barrier has let everybody through.  A passenger that is late  *)
(* at the barrier is one that is late to board.                            *)
(***************************************************************************)
EXTENDS BoatTransport

CONSTANT Few            \* the passengers of the first part

VARIABLE part

allVars == <<vars, part>>

Small == INSTANCE BoatTransport WITH Passengers <- Few

\* A state that every run comes through in which nobody missed the start.
InitAshore ==
    /\ mutex = Nobody /\ mutex_instantiated = Nobody
    /\ cond = {} /\ cond2 = {} /\ cond_instantiated = {}
    /\ all_instantiated = TRUE
    /\ count = n
    /\ kind \in [Passengers -> Kinds]
    /\ waiting = [k \in Kinds |-> Cardinality({t \in Passengers : kind[t] = k})]
    /\ aboard = [k \in Kinds |-> 0]
    /\ pc = [t \in Passengers |-> "board"]
    /\ boat = "watch"
    /\ main = "running"

MCInit ==
    \/ part = "start" /\ Small!Init
    \/ part = "crossing" /\ InitAshore

MCMain ==
    /\ \/ part = "start" /\ Small!MainStep
       \/ part = "crossing" /\ MainStep
    /\ UNCHANGED part

MCBoatStep ==
    /\ \/ part = "start" /\ Small!BoatStep
       \/ part = "crossing" /\ BoatStep
    /\ UNCHANGED part

MCPassenger(t) ==
    /\ \/ part = "start" /\ t \in Few /\ Small!PassengerStep(t)
       \/ part = "crossing" /\ PassengerStep(t)
    /\ UNCHANGED part

MCSpurious == Spurious /\ UNCHANGED part

MCNext == MCMain \/ MCBoatStep \/ MCSpurious \/ \E t \in Passengers : MCPassenger(t)

\* The scheduler runs every thread that can run, and spurious wakeups do not go on
\* for ever.
MCSpec ==
    /\ MCInit /\ [][MCNext]_allVars
    /\ WF_allVars(MCMain) /\ WF_allVars(MCBoatStep)
    /\ \A t \in Passengers : WF_allVars(MCPassenger(t))
    /\ <>[][~MCSpurious]_allVars

\* The type invariant of both parts.
MCTypeOK == IF part = "start" THEN Small!TypeOK ELSE TypeOK

\* Nobody is lost or carried twice, in both parts.
MCConservation == IF part = "start" THEN Small!Conservation ELSE Conservation
==============================================================================
