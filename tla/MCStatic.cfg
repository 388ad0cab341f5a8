CONSTANTS
    Runtime <- MCRuntime
    Saves <- MCSaves
    Projects <- MCProjects
SPECIFICATION MCSpec
INVARIANTS NilSafe ConstructionSafe CoverageExact HierarchySound ReuseSound
CHECK_DEADLOCK FALSE
