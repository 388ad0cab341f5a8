CONSTANTS
    g1 = g1
    g2 = g2
    Nothing = Nothing
    Goroutines = {g1, g2}
    Stacks <- MCStacks
    ShallowSize = 3
    DeepSize = 4
    ShallowLimit = 2
    DeepLimit = 1

SPECIFICATION Spec

INVARIANTS
    RingMatchesMap
    TraceIsOwn

PROPERTIES
    ReplacedInOrder
