SPECIFICATION Spec
CONSTANTS
    Configs <- MCConfigs
INVARIANTS
    OuterProducersFirst
CHECK_DEADLOCK FALSE
