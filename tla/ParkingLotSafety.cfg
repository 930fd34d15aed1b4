SPECIFICATION Spec
CONSTANTS
    d1 = d1
    d2 = d2
    ph1 = ph1
    ph2 = ph2
    cl1 = cl1
    cl2 = cl2
    c1 = c1
    Nobody = Nobody
    Device = {d1}
    Phone = {ph1}
    Cleaner = {cl1}
    Parker = {k1}
    Worker = {w1, w2}
    DeviceOf <- Devices
    Context = {c1}
    ContextOf <- OneName
    Slot = {z1}
    Address = {a1, a2}
    MaxWatch = 1
    MaxJobs = 2
SYMMETRY Swaps
CHECK_DEADLOCK FALSE
INVARIANTS
    TypeOK
    StillListed
    OneLotPerContext
    NoLockCircle
    NoChangeMissed
