SPECIFICATION Spec
CONSTANTS
    Object = {o1, o2}
    Bucket = {b1, b2}
    BucketOf <- OneBucket
    NTypes = 1
    TypeOf <- OneType
    Thread = {t1, t2}
    MaxRefs = 2
    Raw = {}
    HasReaper = {TRUE}
    o1 = o1
    o2 = o2
    b1 = b1
    b2 = b2
SYMMETRY ObjectSymmetry
CHECK_DEADLOCK FALSE
INVARIANTS
    Registered
