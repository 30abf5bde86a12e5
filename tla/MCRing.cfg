CONSTANTS
    a = a
    b = b
    T <- TwoBytes
    MAX = 4
SPECIFICATION Spec
INVARIANTS
    ReservedRoom
PROPERTIES
    ImplementsFifo
