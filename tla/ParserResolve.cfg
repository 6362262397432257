SPECIFICATION Spec
CONSTANTS
    Configs <- MCConfigs
INVARIANTS
    DependenciesResolve
CHECK_DEADLOCK FALSE
