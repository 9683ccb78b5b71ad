SPECIFICATION Spec
CONSTANTS
    Disks = {"hda", "hdb"}
    Floppies = {"fd0"}
    Sectors <- MCSectors
    Modes = {"lba32", "linear", "chs"}
    Base = 3
    Kinds = {"low", "high", "ramdisk"}
    SetupSecs = 1
    Segment = 3
    PageEntries = 2
    Limit = 5
    MaxLen = 6
CHECK_DEADLOCK FALSE
INVARIANTS
    LoadsTheFile
    StaysInSegment
