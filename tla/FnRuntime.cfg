SPECIFICATION FairRuntimeSpec
CONSTANTS
    c1 = c1
    c2 = c2
    Call <- MCCall
    Functions <- MCFunctions
    MaxChanges = 2
INVARIANTS
    CheckedFirst
PROPERTIES
    OutputIsFinal
    CallsEnd
CHECK_DEADLOCK FALSE
