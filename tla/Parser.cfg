SPECIFICATION Spec
CONSTANTS
    Configs <- MCConfigs
INVARIANTS
    ProducersFirst
    BlocksReached
    OneProducer
    ExecutorReady
    CrashesExplained
CHECK_DEADLOCK FALSE
