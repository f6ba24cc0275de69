CONSTANTS
    Client = {c1, c2}
    User <- MCUser
    UserOf <- MCUserOf
    SendCap = 1
    CastCap = 1
    MaxEvent = 2
SPECIFICATION Spec
CHECK_DEADLOCK FALSE
INVARIANTS ClosedOnce StreamsWhole
PROPERTIES PumpsReturn
