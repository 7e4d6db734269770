SPECIFICATION Spec
CONSTANTS
    Usb = usb
    Unswitched = ipod
    Channel = {usb, radio}
    Tone = {}
    MaxVol = 2
    DefaultVol = 1
    Steps = 61
    MaxTone = 2
    ToneSide = 1
    CharMod = 8
    CharIsSigned = FALSE
    MayFail = FALSE
    Early = FALSE
    Careful = FALSE
INVARIANTS VolumeInRange
