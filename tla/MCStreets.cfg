\* Three cars and one slot: a car that has left may still hold it.  A car that misses the
\* start may stop the program.
SPECIFICATION MCSpec
CONSTANTS
    Nobody = Nobody
    Cars = {c1, c2, c3}
    MAX = 1
    POST_BOUND = 2
INVARIANTS MCTypeOK NeverBothGreen NobodyLeftGathering SlotsAddUp OneWay
PROPERTIES CarsGoOn
CHECK_DEADLOCK FALSE
