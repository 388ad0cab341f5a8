CONSTANTS
    MaxSteps = 3
    Size <- WideAndDeep
    Label = {"", "L"}
    Raised = {"mine", "other"}
    Printed = {"a", "b", "d"}
    Nesting <- Levels
SPECIFICATION Spec
INVARIANTS LoweringCorrect DanglingRejected
CHECK_DEADLOCK FALSE
