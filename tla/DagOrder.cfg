SPECIFICATION Spec
CONSTANTS
    N = 5
    Vertex <- MCVertex
    Edge <- TwoBranches
INVARIANTS
    DependenciesKept
CHECK_DEADLOCK FALSE
