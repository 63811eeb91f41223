CONSTANTS
    Users <- MCUsers
    RvUsers <- MCRvUsers
    Lsn = Lsn
    SidBits = 2
    Listener = "none"
    MayUnlisten = FALSE
    DestZeroTraffic = TRUE
SPECIFICATION Spec
INVARIANT NoLockLeak
CHECK_DEADLOCK FALSE
