CONSTANTS
    Ports = {0, 1}
    Cables = {0, 1, 2}
    NPorts = 2
    Tags = {a}
    Sizes = {1}
    Offered <- AllEvents
    TxCap = 3
    BufEvents = 2
    HwDepth = 1
    a = a
    Sense = Sense
SPECIFICATION ASpec
INVARIANTS
    RingsSurviveTest
    HarmlessUntilTouched
CHECK_DEADLOCK FALSE
