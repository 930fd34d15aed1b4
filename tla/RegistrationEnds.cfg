CONSTANTS
    s1 = s1
    s2 = s2
    s3 = s3
    Admin = Admin
    None = None
    Session <- TwoSessions
    Reloads <- AnyReloads
    MaxReloads = 2
    Unloads = TRUE
    Timeouts = {Admin}
    World = {"calls", "vanish", "impatience"}
SPECIFICATION FairSpec
CONSTRAINT Calm
CHECK_DEADLOCK FALSE
PROPERTIES
    StoppedEnds
    SilentEnds
    ReloadEnds
    UnloadEnds
    Postponed
