CONSTANTS
    BLOCK_SIZE = 4
    FLASH_START = 4
    BOOTLOADER_END = 8
    FlashEnd = 16
    PhdrAddrs = {3, 4, 5, 7, 8, 9, 10, 11, 12, 13, 15}
    PhdrSizes = {0, 1, 3, 5}
    FLASH_MAX_FILES = 2
    MaxPhdrs = 3
SPECIFICATION Spec
INVARIANTS TypeOK ImageWritten NothingElseTouched SegmentsShareNoBlock
