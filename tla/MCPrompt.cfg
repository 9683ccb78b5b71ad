SPECIFICATION FairSpec
CONSTANTS
    Chars <- MCChars
    Blank = " "
    Table <- MCTable
    Singles <- MCSingles
    Lines <- MCLines
    Externals <- MCExternals
    Leftovers <- MCLeftovers
    Strays <- MCStrays
    Configs <- MCConfigs
    MaxChars = 6
    MaxPowerOns = 2
CHECK_DEADLOCK FALSE
INVARIANTS
    
    FallbackArmed
    LockKeepsTypedChoice
PROPERTIES
    OneShotOnce
    FailedImageIsDefault
    
