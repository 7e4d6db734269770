SPECIFICATION Spec
CONSTANTS
    Default <- MCDefault
    Min <- MCDefault
    Max <- MCMax
    Step <- MCStep
    Stations <- MCStations
    Presets <- MCPresets
    StartFreq = 21
    Grid = 2
    MaxBand = 2
    MaxCh = 2
    Asked = {23}
    MayFail = FALSE
    Early = FALSE
    Careful = FALSE
INVARIANTS IndexesInRange
