CONSTANTS
    Users <- MCUsers
    RvUsers <- MCRvUsers
    Lsn = Lsn
    SidBits = 2
    Listener = "initial"
    MayUnlisten = FALSE
    DestZeroTraffic = TRUE
SPECIFICATION Spec
INVARIANT NoLockLeak
PROPERTY CloseCompletes
CHECK_DEADLOCK FALSE
