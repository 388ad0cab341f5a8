CONSTANTS
    c1 = c1
    c2 = c2
    Call = {c1, c2}
    Version <- MCVersion
    Supported <- MCSupported
    Managed = {c1}
    MaxFaults = 2
SPECIFICATION FairSpec
INVARIANT FirstChoice
PROPERTIES ShelfSpec Served
CHECK_DEADLOCK FALSE
