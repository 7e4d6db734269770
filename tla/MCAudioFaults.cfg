SPECIFICATION Spec
CONSTANTS
    Usb = usb
    Unswitched = ipod
    Channel = {usb, radio}
    Tone = {}
    MaxVol = 3
    DefaultVol = 1
    Steps = 61
    MaxTone = 2
    ToneSide = 1
    CharMod = 10
    CharIsSigned = FALSE
    MayFail = TRUE
    Early = TRUE
    Careful = FALSE
INVARIANTS MutedIsFlagged VolumeFollows
PROPERTIES UnmuteIsAsked
