SPECIFICATION Spec
CONSTANTS
    f1 = f1
    f2 = f2
    Foreign <- MCOneForeign
    Jobs = {"install"}
    Forces <- Off
    Louds <- Off
    RootDevices <- Off
    Gaps = {1}
    MaxRuns = 2
    MaxTmpDev = 1
CHECK_DEADLOCK FALSE
INVARIANT OriginalIsBackedUp
