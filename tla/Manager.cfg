SPECIFICATION FairSpec
CONSTANTS
    Caller = {c1, c2}
    Reconciler = {k1}
    Other = {}
    Probe = {healthz}
    Timeout = 30
INVARIANTS
    CachesFirst
    CleanReturn
PROPERTIES
    StartEnds
CHECK_DEADLOCK FALSE
