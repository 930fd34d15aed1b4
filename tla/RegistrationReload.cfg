CONSTANTS
    s1 = s1
    s2 = s2
    s3 = s3
    Admin = Admin
    None = None
    Session <- TwoSessions
    Reloads <- AnyReloads
    MaxReloads = 1
    Unloads = FALSE
    Timeouts = {Admin}
    World = {"failures"}
SPECIFICATION Spec
SYMMETRY Swaps
CHECK_DEADLOCK FALSE
INVARIANTS
    TypeOK
    NoDangling
    OneEnder
    NoCircle
