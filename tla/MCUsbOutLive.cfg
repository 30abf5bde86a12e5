CONSTANTS
    p1 = p1
    p2 = p2
    a = a
    b = b
    none = none
    Ports = {p1, p2}
    Cables = {p1, p2, none}
    Tags = {a}
    Sizes = {1, 2}
    Offered <- FewerEvents
    TxCap = 4
    BufEvents = 2
    HwDepth = 1
SPECIFICATION LiveSpec
PROPERTIES
    Rearmed
    ImplementsFairJackFifo
CHECK_DEADLOCK FALSE
