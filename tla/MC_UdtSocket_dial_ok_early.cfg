\* startConnect returning nil while the handshake timed out
CONSTANTS
    A = A
    B = B
    NoSock = NoSock
    Mode = "dial"
    InitSeqs <- MCInitSeqs
    MTUs <- MCMTUs
    ListenerRefuses = FALSE
SPECIFICATION Spec
PROPERTY DialOkOnlyWhenConnected
CHECK_DEADLOCK FALSE
