\* Two persons.
SPECIFICATION Spec
CONSTANTS
    Nobody = Nobody
    Persons = {p1, p2}
INVARIANTS LitWhileOccupied
