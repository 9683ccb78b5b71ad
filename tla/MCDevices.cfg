SPECIFICATION Spec
CONSTANTS
    Devices <- MCDevices
    Kernel <- MCKernel
    DevNames = {"/dev/hda", "/dev/other"}
    TmpDev <- MCTmpDev
    Usual <- MCUsual
    NodeTables <- MCNodeTables
    Sections <- MCSections
    Starts <- MCStarts
    DiskTabs <- MCDiskTabs
    Changes <- MCChanges
    MaxSections = 2
    MaxParts = 2
    MaxCalls = 2
    MaxChanges = 1
CHECK_DEADLOCK FALSE
INVARIANTS
    OpensTheDevice
    IsFirstAgrees
    InheritsFromItsDisk
PROPERTIES
    NodesAsFound
