SPECIFICATION FairSpec
CONSTANTS
    Key = {k1, k2}
    Worker = {w1, w2}
    Caller = {c1, c2}
    Kind = {s1}
    Custom = {s2}
INVARIANTS
    NeverConcurrent
    AcceptedIsLive
PROPERTIES
    OwedIsReconciled
    ShutdownEnds
CHECK_DEADLOCK FALSE
