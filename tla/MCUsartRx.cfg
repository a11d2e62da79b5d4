CONSTANTS
    USART_BUFFLEN = 3
    USART_FIFOLEN = 6
    WORD = 16
    Garbage = Garbage
    MaxBytes = 12
SPECIFICATION Spec
INVARIANTS TypeOK StreamIntact NothingLost
CHECK_DEADLOCK FALSE
