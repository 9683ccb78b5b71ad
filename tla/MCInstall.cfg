SPECIFICATION Spec
CONSTANTS
    f1 = f1
    f2 = f2
    Foreign <- MCForeign
    Jobs = {"install", "test", "-u", "-U"}
    Forces <- Both
    Louds <- Both
    RootDevices <- Both
    Gaps = {1}
    MaxRuns = 3
    MaxTmpDev = 1
CHECK_DEADLOCK FALSE
INVARIANTS
    RestoresAncestor
PROPERTIES
    CommittedMapIsSafe
    SwitchesAtOnce
    CleansUp
    TestAltersNothing
