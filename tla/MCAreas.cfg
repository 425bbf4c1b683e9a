\* Four threads and two places: two threads wait while two are inside.
SPECIFICATION MCSpec
CONSTANTS
    Nobody = Nobody
    Threads = {t1, t2, t3, t4}
    M = 2
INVARIANTS TypeOK AreaLimit NoLostWakeup PlacesAddUp
PROPERTIES ImplementsArea Termination
