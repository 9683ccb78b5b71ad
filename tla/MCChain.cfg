SPECIFICATION Spec
CONSTANTS
    Disks = {128, 129}
    Parts = {1, 2}
    Tables <- MCTables
    Options <- MCOptions
    TypeLines <- MCTypeLines
    Changes <- MCChanges
    MapLines <- MCMapLines
    Others <- MCOthers
    PrtmapSize = 3
    DrvmapSize = 2
    MaxBoots = 2
CHECK_DEADLOCK FALSE
INVARIANTS
    RulesInSequence
    ChangedOnce
    HandedTable
    DrivesAsConfigured
PROPERTY
    TablesUntouched
