CONSTANTS
    MaxEdits = 2
    MaxScanErrors = 1
    Version = {0, 1, 2}
    Helper = {h}
    None = None
SPECIFICATION FairSpec
INVARIANTS CleanReturn RunsBounded
PROPERTIES Serialized CurrentVerdict Returns EventuallyJudged
CHECK_DEADLOCK FALSE
