SPECIFICATION Spec
CONSTANTS
    Calls = {"ringing"}
    Keys = {"answer", "hold", "resume", "endcall"}
    PbxOps = {}
    Statuses = {"ok"}
    MayFail = FALSE
    p1 = p1
    p2 = p2
    Port = {p1, p2}
    MaxKeys = 4
    MaxOps = 0
    Nobody = Nobody
SYMMETRY Ports
INVARIANT TypeOK
INVARIANT Silent
INVARIANT TwoWay
INVARIANT Agreement
INVARIANT AddressKnown
CHECK_DEADLOCK FALSE
