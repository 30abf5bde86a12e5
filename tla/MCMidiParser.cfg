SPECIFICATION ParserSpec
CONSTANTS
    d1 = d1
    d2 = d2
    Data <- MCData
    Window = 8
INVARIANTS
    Faithful
    InStep
PROPERTY OnlyCutsPad
