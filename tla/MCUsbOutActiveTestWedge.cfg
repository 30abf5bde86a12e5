CONSTANTS
    Ports = {0, 1}
    Cables = {0, 1, 2}
    NPorts = 2
    Tags = {a}
    Sizes = {2}
    Offered <- AllEvents
    TxCap = 4
    BufEvents = 1
    HwDepth = 1
    a = a
    Sense = Sense
SPECIFICATION ASpec
PROPERTIES
    NeverAbandonedByMain
CHECK_DEADLOCK FALSE
