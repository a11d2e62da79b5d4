CONSTANTS
    FLASH_START = 4
    PAGE = 2
    BOOTROM_PAGES = 1
    FLASH_PAGES = 4
    WORD = 32
    Data = {d}
    Factory = Factory
    Erased = Erased
    Torn = Torn
    Delivered = {Factory, Erased}
    MaxLinks = 2
    Addresses = {4, 5, 6, 12, 31}
    MaxPending = 1
SPECIFICATION Spec
INVARIANTS BootTypeOK BootromLocked
PROPERTY WritesUnderCurrentRange
CHECK_DEADLOCK FALSE
