SPECIFICATION FairSpec
CONSTANTS
    Vertex <- TreeVertex
    Up <- TreeUp
    Root = "root"
    MaxWorkers = 1
PROPERTIES
    RunEnds
    ImplementsDagRun
CHECK_DEADLOCK FALSE
