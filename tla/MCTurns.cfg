\* Three threads, three rounds: the turn passes the end of the ring twice.  Two of
\* the programs may get stuck, see EndsUnlessTokenLost.
SPECIFICATION MCSpec
CONSTANTS
    Nobody = Nobody
    n = 3
    m = 3
INVARIANTS MCTypeOK NoLostTurn OneToken
PROPERTIES InTurn EndsUnlessTokenLost
CHECK_DEADLOCK FALSE
