\* Read deadline: four SetReadDeadline calls against a looping reader
CONSTANTS
    MaxCalls = 4
    MaxMsgs = 2
    TimerChan = "buffered"
SPECIFICATION Spec
PROPERTY TimeoutOnlyAfterExpiry DeadlineRefines
CHECK_DEADLOCK FALSE
