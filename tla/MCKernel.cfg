SPECIFICATION FairSpec
CONSTANTS
    TotalMemory = 2
    IntMax = 7
    Requests <- MCRequests
    ExecutionTime <- MCExecutionTime
CHECK_DEADLOCK FALSE
INVARIANTS
    TypeOK
    IndicesInRange
    GrantsDisjoint
PROPERTIES
    ActiveFrozenDuringTerminate
    JoinReturns
