CONSTANTS
    Commands = {"LF_SIM"}
    PayloadLengths = {2}
    CMD_BUFFER_SIZE = 3
    NoReply = NoReply
    MaxRequests = 5
    MaxPlugs = 1
    MaxInFlight = 1
SPECIFICATION FairSpec
PROPERTY CloseReturns
CHECK_DEADLOCK FALSE
