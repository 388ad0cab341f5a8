CONSTANTS
    None = None
    Faults <- MCFaults
    MaxScanErrors = 1
    Versions = {0, 1, 2}
    Broken = {2}

SPECIFICATION HangingSpec
CHECK_DEADLOCK FALSE

INVARIANTS
    Inv
    OneChild
    CleanReturn
    OnlyMetadataStays

PROPERTIES
    NoObsoleteStart
    DisturbedDiscarded
    ServiceKept
    EventuallyJudged
    Returns
