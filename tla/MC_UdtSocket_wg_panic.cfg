\* accept and handshake timeout both releasing connectWait
CONSTANTS
    A = A
    B = B
    NoSock = NoSock
    Mode = "dial"
    InitSeqs <- MCInitSeqs
    MTUs <- MCMTUs
    ListenerRefuses = FALSE
SPECIFICATION Spec
INVARIANT NoWaitGroupPanic
CHECK_DEADLOCK FALSE
