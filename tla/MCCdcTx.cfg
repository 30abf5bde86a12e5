SPECIFICATION LiveSpec
CONSTANTS
    Size = 3
    ZlpAfter = 2
    Numbers = 8
    Writers = {"main", "LO", "HI"}
INVARIANTS
    InOrder
    InFlightIsKept
PROPERTY
    Delivered
CHECK_DEADLOCK FALSE
