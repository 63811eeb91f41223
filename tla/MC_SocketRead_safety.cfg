\* Three messages of one or two bytes against three Reads of one or two bytes,
\* in stream and in datagram mode, with a shutdown at any point
CONSTANTS
    MaxMsgs = 3
    MaxReads = 3
    MsgLens = {1, 2}
    BufLens = {1, 2}
    MsgCap = 2
SPECIFICATION Spec
INVARIANT DeliveredInOrder
PROPERTY ReadReturnsOnceCopied
CHECK_DEADLOCK FALSE
