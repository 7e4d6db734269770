SPECIFICATION FairSpec
CONSTANTS
    k1 = k1
    k2 = k2
    NULL = NULL
    Card = {k1, k2}
    CardMax = 2
    BufferSize = 2
    Period <- MCBigPeriod
    Bytes = 3
    LocksWork = TRUE
INVARIANTS TypeOK ListIsTrue HeldPcmIsOpen ReadFits WriteFits
PROPERTIES FanoutSpec RequestsReturn FifoIsDrained
CHECK_DEADLOCK FALSE
