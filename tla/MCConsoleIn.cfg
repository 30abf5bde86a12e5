SPECIFICATION PartsSpec
CONSTANTS
    Packet = 3
    Copy = 2
    Longest = 2
    Numbers = 5
    MaxSize = 7
    MaxArgs = 3
    Commands = {"P"}
    Letters = {"DEL"}
INVARIANTS
    PartsTypeOK
    StaysOpen
    InOrder
    ParsedRight
