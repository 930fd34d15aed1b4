SPECIFICATION FairSpec
CONSTANTS
    Worker = {w1, w2}
    Job = {j1, j2}
    MinSize = 2
    MaxSize = 2
    Nobody = Nobody
CHECK_DEADLOCK FALSE
INVARIANTS
    CleanDrain
PROPERTIES
    JobsComplete
    DestroyReturns
