CONSTANTS
    FLASH_START = 4
    PAGE = 2
    BOOTROM_PAGES = 2
    FLASH_PAGES = 8
    WORD = 64
    Data = {1, 2}
    Factory = Factory
    Erased = Erased
    Torn = Torn
    Delivered = {Factory}
    MaxLinks = 3
    Images = {{0}, {1, 2}}
    MaxRuns = 2
    MaxPending = 1
SPECIFICATION Spec
INVARIANT AckedBlocksAreWritten
PROPERTIES ResetGoesWhereMeant FlasherIsAHost
CHECK_DEADLOCK FALSE
