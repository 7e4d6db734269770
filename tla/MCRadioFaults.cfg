SPECIFICATION Spec
CONSTANTS
    Default <- MCDefault
    Min <- MCDefault
    Max <- MCMax
    Step <- MCStep
    Stations <- MCStations
    Presets <- MCPresets
    StartFreq = 21
    Grid = 2
    MaxBand = 1
    MaxCh = 1
    Asked = {23}
    MayFail = TRUE
    Early = TRUE
    Careful = TRUE
INVARIANTS ReceiverFits
PROPERTIES DeathNeedsFault TypeFollowsBand FreqIsTuned
