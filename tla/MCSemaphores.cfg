\* Four persons: three can come and go while the controller lags behind.  Three
\* molecules of NaCl, two of H2O, two of H2SO4.
SPECIFICATION MCSpec
CONSTANTS
    Nobody = Nobody
    Persons = {p1, p2, p3, p4}
    Amount <- FewMolecules
INVARIANTS MCTypeOK VisitsPairUp OneBarrierToken InRecipeOrder OneStreetMoves
PROPERTIES AllLeave
\* Main of l8_ex6.c ends.
CHECK_DEADLOCK FALSE
