\* One boat load from the creation of the threads, where the start may be missed;
\* two boat loads from the shore.
SPECIFICATION MCSpec
CONSTANTS
    Nobody = Nobody
    Few = {p1, p2, p3}
    Passengers = {p1, p2, p3, p4, p5, p6}
INVARIANTS MCTypeOK MCConservation NoStrandedPassenger
PROPERTIES FullBoat CrossesOrMissesStart
CHECK_DEADLOCK FALSE
