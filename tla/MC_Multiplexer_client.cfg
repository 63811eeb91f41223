CONSTANTS
    Users <- MCUsers
    RvUsers <- MCRvUsers
    Lsn = Lsn
    SidBits = 1
    Listener = "late"
    MayUnlisten = TRUE
    DestZeroTraffic = FALSE
SPECIFICATION Spec
INVARIANT NoEndpointLeak
CHECK_DEADLOCK FALSE
