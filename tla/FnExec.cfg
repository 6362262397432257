SPECIFICATION Spec
CONSTANTS
    Vertex <- MCVertex
    Type <- MCType
    Up <- MCUp
    Refs <- MCRefs
    Inner <- MCInner
    Var <- MCVar
    VarRef <- OfValue
    Ranged = {"templates", "children", "fabric"}
    Conditional = {"block", "fabric"}
    Internal = {"cr", "templates", "block", "blockRoot", "all"}
    MaxItems = 2
INVARIANTS
    RangeRecorded
    FailedLeavesNothing
    FinalIsComplete
    InputsComplete
CHECK_DEADLOCK FALSE
