CONSTANTS
    EP_OUT_SIZE = 3
    OldLen = 4
    Payloads = {0, 1, 4}
    HostZlp = FALSE
    MaxFrames = 3
    MaxTimeouts = 2
    MaxResets = 1
SPECIFICATION FairSpec
INVARIANTS TypeOK PathIsFifo
PROPERTIES AcceptedWasSent EveryFrameDispatched
CHECK_DEADLOCK FALSE
