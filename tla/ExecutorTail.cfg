SPECIFICATION Spec
CONSTANTS
    Root = root
    a = a
    b = b
    d = d
    x = x
    y = y
    Vertex <- TailVertex
    Up <- TailUp
    MaxWorkers = 2
SYMMETRY TailSymmetry
INVARIANTS
    RunOnce
    SuccessIsTotal
    NoSendOnClosed
    DependenciesFirst
    QuietAfterSuccess
CHECK_DEADLOCK FALSE
