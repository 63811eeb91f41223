\* A stream Read that spans two packets and ends inside the second one
CONSTANTS
    MaxMsgs = 2
    MaxReads = 2
    MsgLens = {1, 2}
    BufLens = {2}
    MsgCap = 2
SPECIFICATION Spec
INVARIANT StreamIntact
CHECK_DEADLOCK FALSE
