CONSTANTS
    Commands = {"LF_SIM"}
    PayloadLengths = {2}
    CMD_BUFFER_SIZE = 3
    NoReply = NoReply
    MaxRequests = 4
    MaxPlugs = 2
    MaxInFlight = 2
SPECIFICATION FairSpec
INVARIANTS TypeOK WaitersAgree PortBelongsToThread DeadThreadIsFlagged
PROPERTIES CommandsOnceInOrder StaleReplyOnlyAfterTimeout SenderWaitsForLiveThread DeadThreadIsClosed
CHECK_DEADLOCK FALSE
