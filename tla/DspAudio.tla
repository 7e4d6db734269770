------------------------------ MODULE DspAudio ------------------------------
(***************************************************************************)
(* The audio part of the DSP extension, from the request of a client down  *)
(* to the registers of the SAF7741: the state the daemon keeps (audio),    *)
(* the one the driver keeps (gsAudioState), the registers, and the         *)
(* settings file that carries the state over a restart.  Requests come on  *)
(* the IPC receive thread, which is open before the main thread has set up *)
(* the DSP; a handler is one step.                                         *)
(*                                                                         *)
(* A tone is one of fade, balance, bass, middle and treble: five copies of *)
(* the same code.  A message that sets two or three of them is two or      *)
(* three steps.                                                            *)
(***************************************************************************)
EXTENDS Integers

CONSTANTS
    Tone,          \* the tones
    Channel,       \* the channels of the DSP
    Usb,           \* QDSP_CH_USB, which saf7741_StartUp selects
    Unswitched,    \* a source for which qext_dsp_audio_source switches nothing
    MaxVol,        \* QEXT_DSP_AUDIO_MAX_VOL
    DefaultVol,    \* QEXT_ADSP_DEFAULT_VOLUME
    Steps,         \* SAF7741_VOL_MAX, the last entry of vol_table
    MaxTone,       \* QEXT_DSP_AUDIO_MAX_FAD and its like
    ToneSide,      \* SAF7741_FADE_SIDE and its like: the positions to each side
    CharMod,       \* the values of a char
    CharIsSigned,  \* FALSE for the ARM toolchain of daemon/Makefile
    MayFail,       \* I2C transfers may fail
    Early,         \* requests and signals may come before the DSP is set up
    Careful        \* clients do not turn down the volume below 0

ASSUME DspAudioAssumption ==
    /\ Usb \in Channel /\ Unswitched \notin Channel
    /\ MaxVol \in Nat \ {0} /\ DefaultVol \in 0..MaxVol
    /\ Steps \in Nat \ {0} /\ Steps <= 100
    /\ MaxTone \in Nat \ {0} /\ ToneSide \in 0..MaxTone
    /\ CharMod \in Nat /\ CharMod % 2 = 0 /\ CharMod > 2 * MaxVol + 2 /\ CharMod > 2 * MaxTone
    /\ {CharIsSigned, MayFail, Early, Careful} \subseteq BOOLEAN

VARIABLES
    phase,  \* how far the start of the daemon has come
    open,   \* qdsp.open
    save,   \* who is between the truncation and the write of the settings file
    audio,  \* struct qext_dsp_audio; mute is kept as its user and app bits
    dsp,    \* gsAudioState (mute, percentVol), the registers of the SAF7741, and whether an I2C
            \* write has failed since the start
    file    \* the settings file: whether it is full, and then an image of audio

vars == <<phase, open, save, audio, dsp, file>>

Byte      == IF CharIsSigned THEN -(CharMod \div 2)..(CharMod \div 2 - 1) ELSE 0..(CharMod - 1)
Position  == -ToneSide..ToneSide
Percents  == 0..100
Source    == Channel \cup {Unswitched}

\* 0 dB, which is no entry of vol_table: the main volumes after the start-up.
ZeroDb    == Steps + 1
MainLevel == 0..ZeroDb

Image     == [full : BOOLEAN, source : Source, vol : Byte, tone : [Tone -> Byte]]

TypeOK ==
    /\ phase \in {"down", "listening", "opened", "started", "up", "failed"}
    /\ open \in BOOLEAN
    /\ save \in {"no", "request", "stop"}
    /\ audio \in [source : Source, user : BOOLEAN, app : BOOLEAN, vol : Byte,
                  tone : [Tone -> Byte]]
    /\ dsp \in [mute : BOOLEAN, percentVol : Percents, muteP : BOOLEAN, source : Channel,
                main1 : MainLevel, main2 : MainLevel, tone : [Tone -> Position], fault : BOOLEAN]
    /\ file \in Image

-----------------------------------------------------------------------------
(* Numbers. *)

\* An int or a short stored in a char.
Char(n) ==
    LET m == n % CharMod
    IN  IF CharIsSigned /\ m >= CharMod \div 2 THEN m - CharMod ELSE m

Clipped(n, low, high) == IF n < low THEN low ELSE IF n > high THEN high ELSE n

\* The percentage that the extension asks for, as qdsp_audio_set_vol clips it.
Percent(vol) == Clipped(IF vol < 0 THEN 0 ELSE (vol * 100) \div MaxVol, 0, 100)

\* The entry of vol_table.
Level(percent) == (percent * Steps) \div 100

-----------------------------------------------------------------------------
(* The driver: what a call makes of its state and of the registers, d, given which of the
   I2C writes it does succeed. *)

Ok == IF MayFail THEN BOOLEAN ELSE {TRUE}

\* What a call makes of d unless all its writes succeed.
Unless(ok, d) == [d EXCEPT !.fault = @ \/ ~ok]

\* Bug: the state is changed before the write is known to succeed.
SetMute_Early(d, mute, ok) == Unless(ok, [d EXCEPT !.mute = mute, !.muteP = IF ok THEN mute ELSE @])

SetMute(d, mute, ok) == Unless(ok, IF ok THEN [d EXCEPT !.mute = mute, !.muteP = mute] ELSE d)

\* Bug: the driver does not remember the percentage.
SetVol_Forgotten(d, percent, ok1, ok2) ==
    Unless(ok1 /\ ok2, [d EXCEPT !.main1 = IF ok1 THEN Level(percent) ELSE @,
                                !.main2 = IF ok2 THEN Level(percent) ELSE @])

\* The result of the second write is the result of the call.
SetVol(d, percent, ok1, ok2) ==
    Unless(ok1 /\ ok2, [d EXCEPT !.main1 = IF ok1 THEN Level(percent) ELSE @,
                                !.main2 = IF ok2 THEN Level(percent) ELSE @,
                                !.percentVol = IF ok2 THEN percent ELSE @])

\* Bug: the switch is muted and unmuted whatever the state was.
SetSource_Unmutes(d, channel, ok) ==
    LET muted    == SetMute(d, TRUE, ok[1])
        switched == IF ok[2]
                    THEN SetVol([muted EXCEPT !.source = channel],
                                muted.percentVol, ok[3], ok[4])
                    ELSE Unless(FALSE, muted)
    IN  SetMute(switched, FALSE, ok[5])

\* Bug: a switch to the source that is on is cut short after the mute.
SetSource_Same(d, channel, ok) ==
    LET quiet    == d.mute
        muted    == IF quiet THEN d ELSE SetMute(d, TRUE, ok[1])
        switched == SetVol([muted EXCEPT !.source = channel], muted.percentVol, ok[3], ok[4])
    IN  IF quiet \/ channel = d.source THEN muted ELSE SetMute(switched, FALSE, ok[5])

\* The primary channel is muted while the source is switched, unless it is muted already.
SetSource(d, channel, ok) ==
    LET quiet    == d.mute
        muted    == IF quiet THEN d ELSE SetMute(d, TRUE, ok[1])
        switched == IF ok[2]
                    THEN SetVol([muted EXCEPT !.source = channel],
                                muted.percentVol, ok[3], ok[4])
                    ELSE Unless(FALSE, muted)
    IN  IF quiet THEN switched ELSE SetMute(switched, FALSE, ok[5])

\* Bug: the position is not clipped to the table.
SetTone_Unclipped(d, t, n, ok) == Unless(ok, IF ok THEN [d EXCEPT !.tone[t] = n] ELSE d)

SetTone(d, t, n, ok) ==
    Unless(ok, IF ok THEN [d EXCEPT !.tone[t] = Clipped(n, -ToneSide, ToneSide)] ELSE d)

-----------------------------------------------------------------------------
(* The daemon starts: la_ipc_open, then qext_dsp_init on the main thread. *)

Zero == [source |-> Usb, user |-> FALSE, app |-> FALSE, vol |-> 0, tone |-> [t \in Tone |-> 0]]

\* no settings file, or an empty one
Blank == [full |-> FALSE, source |-> Usb, vol |-> 0, tone |-> [t \in Tone |-> 0]]

\* saf7741_StartUp writes 0 dB to the main volumes.  It writes no tones: they are taken to be flat
\* once the DSP is reset.
Reset(d) ==
    [d EXCEPT !.muteP = TRUE, !.main1 = ZeroDb, !.main2 = ZeroDb, !.tone = [t \in Tone |-> 0]]

Init ==
    /\ phase = "down" /\ open = FALSE /\ save = "no"
    /\ audio = Zero
    /\ dsp = [mute |-> FALSE, percentVol |-> 0, muteP |-> TRUE, source |-> Usb,
              main1 |-> ZeroDb, main2 |-> ZeroDb, tone |-> [t \in Tone |-> 0], fault |-> FALSE]
    /\ file = Blank

Start ==
    /\ phase = "down"
    /\ phase' = "listening" /\ open' = FALSE
    /\ audio' = Zero
    /\ dsp' = [dsp EXCEPT !.mute = FALSE, !.percentVol = 0, !.fault = FALSE]
    /\ UNCHANGED <<save, file>>

\* qdsp_open
OpenDsp ==
    /\ phase = "listening"
    /\ \E ok \in Ok : phase' = (IF ok THEN "opened" ELSE "failed") /\ open' = ok
    /\ UNCHANGED <<save, audio, dsp, file>>

\* qdsp_reset: the registers are reset; what fails after the release of the mute goes unnoticed.
StartUp ==
    /\ phase = "opened"
    /\ \/ \E ok \in [1..5 -> Ok] :
             /\ dsp' = SetSource([Reset(dsp) EXCEPT !.muteP = FALSE], Usb, ok)
             /\ phase' = "started"
       \/ /\ MayFail
          /\ dsp' = Unless(FALSE, Reset(dsp))
          /\ phase' = "failed"
    /\ UNCHANGED <<open, save, audio, file>>

\* Bug: the tones of the file are restored in audio only.
Load_Toneless ==
    /\ phase = "started"
    /\ phase' = "up"
    /\ \E ok \in [1..3 -> Ok] :
          IF file.full
          THEN /\ audio' = [source |-> file.source, user |-> FALSE, app |-> FALSE,
                            vol |-> file.vol, tone |-> file.tone]
               /\ dsp' = SetVol(SetMute(dsp, FALSE, ok[1]), Percent(file.vol), ok[2], ok[3])
          ELSE /\ audio' = [audio EXCEPT !.user = FALSE, !.app = FALSE, !.vol = DefaultVol]
               /\ dsp' = SetMute(SetVol(dsp, Percent(DefaultVol), ok[2], ok[3]), FALSE, ok[1])
    /\ UNCHANGED <<open, save, file>>

\* qext_dsp_audio_load: the source is restored in audio only.
Load ==
    /\ phase = "started"
    /\ phase' = "up"
    /\ \E ok \in [1..3 -> Ok], heard \in [Tone -> Ok] :
          IF file.full
          THEN /\ audio' = [source |-> file.source, user |-> FALSE, app |-> FALSE,
                            vol |-> file.vol, tone |-> file.tone]
               /\ LET d == SetVol(SetMute(dsp, FALSE, ok[1]), Percent(file.vol), ok[2], ok[3])
                  IN  dsp' = [Unless(\A t \in Tone : heard[t], d) EXCEPT !.tone =
                                 [t \in Tone |-> SetTone(d, t, file.tone[t], heard[t]).tone[t]]]
          ELSE /\ audio' = [audio EXCEPT !.user = FALSE, !.app = FALSE, !.vol = DefaultVol]
               /\ dsp' = SetMute(SetVol(dsp, Percent(DefaultVol), ok[2], ok[3]), FALSE, ok[1])
    /\ UNCHANGED <<open, save, file>>

-----------------------------------------------------------------------------
(* The requests. *)

Serving ==
    /\ save = "no"
    /\ phase \in IF Early THEN {"listening", "opened", "started", "up", "failed"}
                 ELSE {"up", "failed"}

\* qext_dsp_audio_source, a source with a channel: saf7741_audioSetSource always reports success.
SwitchSource(channel) ==
    /\ Serving /\ open
    /\ \E ok \in [1..5 -> Ok] : dsp' = SetSource(dsp, channel, ok)
    /\ audio' = [audio EXCEPT !.source = channel]
    /\ UNCHANGED <<phase, open, save, file>>

\* qext_dsp_audio_source, any other
NameSource ==
    /\ Serving
    /\ audio' = [audio EXCEPT !.source = Unswitched]
    /\ UNCHANGED <<phase, open, save, dsp, file>>

\* qext_dsp_audio_mute: a flag that changes takes the DSP with it, whatever the other one is,
\* and qdsp_audio_mute reports success.  A request that changes none does nothing.
Mute(flag) ==
    /\ Serving /\ open
    /\ audio' = [audio EXCEPT ![flag] = ~@]
    /\ \E ok \in Ok : dsp' = SetMute(dsp, ~audio[flag], ok)
    /\ UNCHANGED <<phase, open, save, file>>

\* qext_dsp_audio_volume; v is the volume the request asks for, one more or one less for INC
\* and DEC.
Volume(v) ==
    /\ Serving /\ open
    /\ v <= MaxVol
    /\ \E ok \in [1..2 -> Ok] :
          /\ dsp' = SetVol(dsp, Percent(v), ok[1], ok[2])
          /\ audio' = IF ok[2] THEN [audio EXCEPT !.vol = Char(v)] ELSE audio
    /\ UNCHANGED <<phase, open, save, file>>

Volumes ==
    (0..MaxVol \cup {audio.vol + 1, audio.vol - 1})
        \ (IF Careful THEN {-1, audio.vol} ELSE {audio.vol})

\* qext_dsp_audio_fad_bal and qext_dsp_audio_bas_mid_tre for one of the tones: the first of the
\* writes may fail unnoticed.
ChangeTone(t, n) ==
    /\ Serving /\ open
    /\ n # audio.tone[t]
    /\ \E written, reported \in Ok :
          /\ dsp' = Unless(reported, SetTone(dsp, t, n, written))
          /\ audio' = IF reported THEN [audio EXCEPT !.tone[t] = Char(n)] ELSE audio
    /\ UNCHANGED <<phase, open, save, file>>

-----------------------------------------------------------------------------
(* The settings file. *)

\* LA_IPC_CMD_DSP_BACKUP, or the signal handler with enable_dsp: O_TRUNC
Truncate(who) ==
    /\ who = "request" => Serving
    /\ who = "stop" => /\ save # "stop"
                       /\ phase \in IF Early THEN {"listening", "opened", "started", "up"}
                                    ELSE {"up"}
    /\ save' = who
    /\ file' = Blank
    /\ UNCHANGED <<phase, open, audio, dsp>>

\* Bug: the volume is left out of the image.
WriteFile_NoVolume ==
    /\ save # "no"
    /\ file' = [full |-> TRUE, source |-> audio.source, vol |-> 0, tone |-> audio.tone]
    /\ phase' = IF save = "stop" THEN "down" ELSE phase
    /\ save' = "no"
    /\ UNCHANGED <<open, audio, dsp>>

\* write; a daemon that stops then closes the device and exits
WriteFile ==
    /\ save # "no"
    /\ file' = [full |-> TRUE, source |-> audio.source, vol |-> audio.vol, tone |-> audio.tone]
    /\ phase' = IF save = "stop" THEN "down" ELSE phase
    /\ save' = "no"
    /\ UNCHANGED <<open, audio, dsp>>

\* The daemon is killed, or is stopped after its DSP failed.
Exit ==
    /\ phase # "down"
    /\ phase' = "down" /\ save' = "no"
    /\ UNCHANGED <<open, audio, dsp, file>>

-----------------------------------------------------------------------------
Next ==
    \/ Start \/ OpenDsp \/ StartUp \/ Load
    \/ (\E c \in Channel : SwitchSource(c)) \/ NameSource
    \/ \E flag \in {"user", "app"} : Mute(flag)
    \/ \E v \in Volumes : Volume(v)
    \/ \E t \in Tone : \E n \in -MaxTone..MaxTone : ChangeTone(t, n)
    \/ (\E who \in {"request", "stop"} : Truncate(who)) \/ WriteFile \/ Exit

Spec == Init /\ [][Next]_vars

-----------------------------------------------------------------------------
(* Properties. *)

\* Unless a transfer has failed, both main volumes are those of the volume that clients are told,
\* through every switch of the source, which sends the volume that the driver remembers, and
\* however early requests come.  (A volume that has left its range is VolumeInRange's matter.)
VolumeFollows ==
    phase = "up" /\ ~dsp.fault /\ audio.vol \in 0..MaxVol =>
        dsp.main1 = Level(Percent(audio.vol)) /\ dsp.main2 = dsp.main1

\* Unless a transfer has failed, the DSP has the tones that clients are told, also those that a
\* restart brings back.  (A tone that an unsigned char has changed is TonesInRange's matter.)
TonesFollow ==
    phase = "up" /\ ~dsp.fault =>
        \A t \in Tone : audio.tone[t] \in -MaxTone..MaxTone =>
            dsp.tone[t] = Clipped(audio.tone[t], -ToneSide, ToneSide)

\* Unless a transfer has failed, a DSP that is muted is flagged muted, so that there is a request
\* that unmutes it.
MutedIsFlagged == phase = "up" /\ dsp.muteP /\ ~dsp.fault => audio.user \/ audio.app

\* The mute of the driver and that of the DSP agree, whichever writes fail: a source is only
\* ever switched back to the mute it found.
DriverKnowsMute == phase = "up" => dsp.mute = dsp.muteP

\* Once the DSP is set up, only a request that changes a mute flag unmutes it: a switch of the
\* source does not.
UnmuteIsAsked ==
    [][phase = "up" /\ dsp.muteP /\ ~dsp'.muteP
          => <<audio.user, audio.app>>' # <<audio.user, audio.app>>]_vars

\* The volume a client sets is in the range that qext_dsp_audio_volume checks.
VolumeInRange == audio.vol \in 0..MaxVol

\* A tone that was accepted is kept as a value that qext_dsp_audio_fad_bal would accept.
TonesInRange == \A t \in Tone : audio.tone[t] \in -MaxTone..MaxTone

-----------------------------------------------------------------------------
(* The settings over restarts. *)

SettingOf(vol, tone) ==
    [level |-> Level(Percent(vol)),
     tone  |-> [t \in Tone |-> Clipped(tone[t], -ToneSide, ToneSide)]]

DefaultSetting == SettingOf(DefaultVol, [t \in Tone |-> 0])

Kept == IF file.full THEN SettingOf(file.vol, file.tone) ELSE DefaultSetting

Current == IF phase = "up" THEN SettingOf(audio.vol, audio.tone) ELSE Kept

Settings == INSTANCE AudioSettings WITH
    Setting <- [level : 0..Steps, tone : [Tone -> Position]],
    Default <- DefaultSetting,
    live    <- phase = "up",
    saving  <- save # "no",
    setting <- Current,
    kept    <- Kept

\* The settings survive a restart of the daemon, as AudioSettings says; VolumeFollows and
\* TonesFollow say what is heard of them.
SettingsSpec == Settings!SettingsSpec

=============================================================================
