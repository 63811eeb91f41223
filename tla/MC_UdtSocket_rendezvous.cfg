\* Rendezvous between two sockets: startRendezvous returns and the manager exits
CONSTANTS
    A = A
    B = B
    NoSock = NoSock
    Mode = "rendezvous"
    InitSeqs <- MCInitSeqs
    MTUs <- MCMTUs
    ListenerRefuses = FALSE
SPECIFICATION Spec

PROPERTY DialReturns ManageExits
CHECK_DEADLOCK FALSE
