CONSTANTS
    s1 = s1
    s2 = s2
    s3 = s3
    Admin = Admin
    None = None
    Session <- OneSession
    Reloads <- CliReloads
    MaxReloads = 2
    Unloads = FALSE
    Timeouts = {Admin}
    World = {"calls"}
SPECIFICATION FairSpec
CHECK_DEADLOCK FALSE
PROPERTIES
    Restarted
