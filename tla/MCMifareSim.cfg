CONSTANTS
    Sectors = {0, 1}
    Block128 = {1}
    Trailers <- MCTrailers
    Plain <- MCPlain
    WORD = 3
    Operands = {1}
    UidLevels = 2
    exitAfterNReads = 1
    MaxWrites = 2
SPECIFICATION Spec
INVARIANTS TypeOK AuthBeforeAccess
PROPERTIES OnlyProvenSector WritesHonourAccessCodes
