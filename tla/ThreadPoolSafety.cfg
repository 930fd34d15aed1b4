SPECIFICATION Spec
CONSTANTS
    Worker = {w1, w2, w3}
    Job = {j1, j2, j3, j4}
    MinSize = 1
    MaxSize = 2
    Nobody = Nobody
SYMMETRY Symmetry
CHECK_DEADLOCK FALSE
INVARIANTS
    TypeOK
    AllMarked
    NoLostWakeup
    JobsConserved
PROPERTIES
    NoNewJobsAfterShutdown
