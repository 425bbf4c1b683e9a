\* Two boat loads.
SPECIFICATION MCSpec
CONSTANTS
    Nobody = Nobody
    Few = {p1, p2, p3}
    Passengers = {p1, p2, p3, p4, p5, p6}
INVARIANTS SeatLimit
CHECK_DEADLOCK FALSE
