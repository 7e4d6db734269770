SPECIFICATION FairSpec
CONSTANTS
    MayFail = TRUE
    EnableDsp = TRUE
    Threads = {"main", "ipc"}
    MaxSignals = 1
    LocksWork = FALSE
INVARIANTS TypeOK ListsOutliveThreads HookedIsPatched
PROPERTIES SignalKeepsSettings SignalEnds
