CONSTANTS
    MaxSteps = 3
    Size <- Few
    Label = {"", "L"}
    Raised = {"mine", "other"}
    Printed = {"a", "b", "d"}
    Nesting <- Levels
SPECIFICATION Spec
INVARIANT ReturnsRestored
CHECK_DEADLOCK FALSE
