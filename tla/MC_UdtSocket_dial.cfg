\* Dial handshake with a listener that may accept or refuse: safety.
CONSTANTS
    A = A
    B = B
    NoSock = NoSock
    Mode = "dial"
    InitSeqs <- MCInitSeqs
    MTUs <- MCMTUs
    ListenerRefuses = TRUE
SPECIFICATION Spec
INVARIANT MtuAgree
CHECK_DEADLOCK FALSE
