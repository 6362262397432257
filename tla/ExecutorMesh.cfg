SPECIFICATION Spec
CONSTANTS
    Root = root
    a = a
    b = b
    d = d
    x = x
    y = y
    Vertex <- MeshVertex
    Up <- MeshUp
    MaxWorkers = 2
SYMMETRY MeshSymmetry
INVARIANTS
    FinishedIsHeard
CHECK_DEADLOCK FALSE
