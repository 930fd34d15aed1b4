SPECIFICATION FairSpec
CONSTANTS
    Calls = {"ringing", "dialing"}
    Keys = {"answer", "endcall"}
    PbxOps = {"progress", "remote", "peer"}
    Statuses = {"ok", "full"}
    MayFail = TRUE
    p1 = p1
    p2 = p2
    Port = {p1, p2}
    MaxKeys = 1
    MaxOps = 2
    Nobody = Nobody
INVARIANT TwoWay
PROPERTY HangupReturns
PROPERTY AnswerEnds
CHECK_DEADLOCK FALSE
