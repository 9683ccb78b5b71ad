SPECIFICATION Spec
CONSTANTS
    LastSector = 11
    Bioses <- MCBioses
    Lists <- MCLists
    Requests <- MCRequests
    Byte = 4
    Word = 4
    EddMax = 3
    Tries = 2
    MaxLen = 4
    MaxCalls = 2
CHECK_DEADLOCK FALSE
INVARIANTS
    CallsFit
PROPERTIES
    MovesAsAsked
    EndsSomeTime
