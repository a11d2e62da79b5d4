CONSTANTS
    FLASH_START = 4
    PAGE = 2
    BOOTROM_PAGES = 2
    FLASH_PAGES = 8
    WORD = 64
    Data = {1, 2}
    Factory = Factory
    Erased = Erased
    Torn = Torn
    Delivered = {Erased}
    MaxLinks = 3
    Images = {{1}}
    MaxRuns = 2
    MaxPending = 1
SPECIFICATION FairSpec
PROPERTY UndisturbedRunEnds
CHECK_DEADLOCK FALSE
