SPECIFICATION Spec
CONSTANTS
    TXBUFSIZE = 3
    RXBUFSIZE = 2
    Calls = 6
INVARIANTS
    OrderKept
    AtMostOneStranded
PROPERTY WriteStringReturns
