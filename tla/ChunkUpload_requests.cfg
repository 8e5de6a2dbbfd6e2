SPECIFICATION Spec
CONSTANTS
    Sessions = {u1, u2}
    Chunks = {0, 1}
    Requests = {r1, r2, r3}
    Nobody = Nobody
SYMMETRY Symmetry
CHECK_DEADLOCK FALSE
INVARIANTS
    CompleteIsWhole
    CompletesOnce
    NothingIsLeft
    NothingMissingIsComplete
