CONSTANTS
    CMD_BUFFER_SIZE = 4
    Reply <- Frames
    NoReply = NoReply
    PM3_CMD_DATA_SIZE = 2
    MemTypes = {"BIG_BUF", "FLASH_MEM", "SPIFFS"}
    Starts = {0, 1}
    Sizes = {0, 2, 5}
    MaxSize = 5
    MaxDownloads = 2
    MaxLost = 1
SPECIFICATION DownloadSpec
INVARIANTS TypeOK DownloadTypeOK TrueMeansComplete NoWriteBehindDest
PROPERTIES ImplementsQueue DownloadEnds
