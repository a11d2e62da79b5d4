CONSTANTS
    BigBufSize = 28
    WORD = 65536
    CARD_MEMORY_SIZE = 6
    TOSEND_BUFFER_SIZE = 4
    DMA_BUFFER_SIZE = 3
    TRACELOG_HDR_LEN = 3
    ChunkSizes = {1, 8}
    FrameLengths = {0, 9}
    TraceLengths = {12}
    NULL = NULL
SPECIFICATION Spec
INVARIANTS HighMarkAligned ChunksDisjoint NoStalePointer TraceClearOfChunks
