CONSTANTS
    Runtime <- MCRuntime
    Saves <- MCSaves
    Projects <- MCProjects
SPECIFICATION MCSpec
INVARIANT NilSafeEverywhere
CHECK_DEADLOCK FALSE
