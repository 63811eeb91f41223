CONSTANTS
    Users <- MCUsers
    RvUsers <- MCRvUsers
    Lsn = Lsn
    SidBits = 2
    Listener = "late"
    MayUnlisten = TRUE
    DestZeroTraffic = FALSE
SPECIFICATION Spec
INVARIANT NoPanic
CHECK_DEADLOCK FALSE
