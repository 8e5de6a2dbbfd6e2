SPECIFICATION LiveSpec
CONSTANTS
    Conns = {k1, k2}
    Ids = {i1}
    Users = {u1, u2}
    Rooms = {r1}
    Outside = TRUE
CHECK_DEADLOCK FALSE
INVARIANTS
    IndexesAgree
    LeftoversAreLate
    OpenIsRegistered
PROPERTIES
    ConnectionsEnd
