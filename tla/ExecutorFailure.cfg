SPECIFICATION Spec
CONSTANTS
    Vertex <- TreeVertex
    Up <- TreeUp
    Root = "root"
    MaxWorkers = 1
INVARIANTS
    FailureStopsDependents
CHECK_DEADLOCK FALSE
