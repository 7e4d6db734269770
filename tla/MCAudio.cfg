SPECIFICATION Spec
CONSTANTS
    Usb = usb
    Unswitched = ipod
    Channel = {usb}
    Tone = {fade}
    MaxVol = 1
    DefaultVol = 1
    Steps = 3
    MaxTone = 2
    ToneSide = 1
    CharMod = 6
    CharIsSigned = FALSE
    MayFail = TRUE
    Early = FALSE
    Careful = FALSE
INVARIANTS TypeOK DriverKnowsMute TonesFollow
PROPERTIES SettingsSpec
