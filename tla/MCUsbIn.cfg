CONSTANTS
    Cap = 2
    Numbers = 5
SPECIFICATION LiveSpec
INVARIANTS
    NothingStranded
    InFlightIsKept
PROPERTIES
    DeliveredUnlessRaced
    SentIsOneStep
    HandedOver
