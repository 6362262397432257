SPECIFICATION FairSpec
CONSTANTS
    Runnable = {r1, r2, r3}
INVARIANTS
    StoppedIsQuiet
    SignalBeforeClose
PROPERTIES
    NoAddAfterWait
    AcceptedIsStarted
    StopEnds
CHECK_DEADLOCK FALSE
