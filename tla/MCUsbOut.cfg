CONSTANTS
    p1 = p1
    p2 = p2
    a = a
    b = b
    none = none
    Ports = {p1, p2}
    Cables = {p1, p2, none}
    Tags = {a}
    Sizes = {0, 1, 3}
    Offered <- AllEvents
    TxCap = 5
    BufEvents = 2
    HwDepth = 1
SPECIFICATION Spec
INVARIANTS
    NoReentry
    ArmedBufferIsFree
    StalledIsAwaited
    StallIsCounted
    NeverAbandoned
    FastWriteIsSafe
CHECK_DEADLOCK FALSE
