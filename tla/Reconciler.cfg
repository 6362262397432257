SPECIFICATION FairSpec
CONSTANTS
    Child = {a, b}
    Self = self
    MaxUid = 2
    MaxSpec = 2
    MaxFail = 1
INVARIANTS
    CleanedBeforeGone
PROPERTIES
    Converges
    DeletionEnds
CHECK_DEADLOCK FALSE
