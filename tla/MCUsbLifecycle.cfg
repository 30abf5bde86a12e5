SPECIFICATION Spec
CONSTANTS
    Packet = 3
    RingCap = 2
INVARIANTS
    OpenHasJob
    StaleEventsSleep
    Listens
PROPERTY
    OnlyStartForgets
