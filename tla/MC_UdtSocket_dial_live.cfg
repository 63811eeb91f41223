\* Dial handshake with a listener that accepts: liveness of the dialler.
\* Refusal is left out: after an HsRefused neither property holds (the
\* dialler and the manager wait for ever, UdtSocket_proofs RefusedDialBlocks).
CONSTANTS
    A = A
    B = B
    NoSock = NoSock
    Mode = "dial"
    InitSeqs <- MCInitSeqs
    MTUs <- MCMTUs
    ListenerRefuses = FALSE
SPECIFICATION Spec
PROPERTY DialReturns ManageExits
CHECK_DEADLOCK FALSE
