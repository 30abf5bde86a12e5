SPECIFICATION LiveSpec
CONSTANTS
    Size = 2
    Reads <- MCReads
    Coding = 1
    Addresses = {1}
INVARIANTS
    TypeOK
    DataOfItsRequest
    KnownIsNotStalled
    AddressAfterHandshake
PROPERTY
    Ended
