SPECIFICATION FairSpec
CONSTANTS
    Thread = {t1, t2}
    NULL = NULL
    Frames = 2
    FrameBytes = 2
    BufferSize = 3
    Overlap = FALSE
INVARIANTS TypeOK UsedIsOpen OneThread ConnectIsTrue ReadFits
PROPERTIES StopEnds
CHECK_DEADLOCK FALSE
