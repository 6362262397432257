SPECIFICATION FairSpec
CONSTANTS
    N = 4
    Vertex <- MCVertex
    Edge <- Forward
INVARIANTS
    EdgesAgree
    ReducedAsPromised
PROPERTIES
    ReductionEnds
CHECK_DEADLOCK FALSE
