SPECIFICATION Spec
CONSTANTS
    Letters = {"k", "l"}
    Rests = {"", "inux"}
    Fallbacks <- MCFallbacks
    MaxImages = 3
    MaxSections = 2
    Members <- MCMembers
    Kernel <- MCKernel
    NodeNames <- MCNodeNames
    Setups <- MCSetups
CHECK_DEADLOCK FALSE
INVARIANTS
    FindsTheImage
    DefaultImageIsFirst
    EachDiskBoots
PROPERTIES
    RunEnds
