SPECIFICATION FairSpec
CONSTANTS
    Caller = {c1}
    Reconciler = {k1}
    Other = {}
    Probe = {}
    Timeout = 30
INVARIANTS
    CachesStopFirst
CHECK_DEADLOCK FALSE
