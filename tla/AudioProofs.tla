----------------------------- MODULE AudioProofs ----------------------------
(***************************************************************************)
(* What DspAudio keeps true for any tables, ranges and channels.  First    *)
(* what the driver's calls make of its state; then the types, in every     *)
(* configuration; then the mutes, whichever transfers fail; then the       *)
(* settings.                                                               *)
(***************************************************************************)
EXTENDS DspAudio, TLAPS

-----------------------------------------------------------------------------
(* Numbers. *)

\* A clipped number is in its range, and one in the range is kept.
LEMMA ClippedFacts ==
    ASSUME NEW n \in Int, NEW low \in Int, NEW high \in Int, low <= high
    PROVE  /\ Clipped(n, low, high) \in low..high
           /\ n \in low..high => Clipped(n, low, high) = n
BY DEF Clipped

\* A volume is asked for as a percentage.
LEMMA PercentType == ASSUME NEW vol \in Int PROVE Percent(vol) \in Percents
<1>. DEFINE p == IF vol < 0 THEN 0 ELSE (vol * 100) \div MaxVol
<1>1. p \in Int
  BY DspAudioAssumption, Z3
<1>2. Percent(vol) = Clipped(p, 0, 100)
  BY DEF Percent
<1>. HIDE DEF p
<1>3. Clipped(p, 0, 100) \in 0..100
  BY <1>1 DEF Clipped
<1>. QED
  BY <1>2, <1>3 DEF Percents

\* A percentage has an entry in the table.
LEMMA LevelType ==
    ASSUME NEW percent \in Percents
    PROVE  Level(percent) \in 0..Steps
<1>1. \A p \in 0..100, s \in Nat : (p * s) \div 100 \in 0..s
  BY Z3
<1>. QED
  BY <1>1, DspAudioAssumption DEF Level, Percents

\* What a char holds after an assignment is a value of a char.
LEMMA CharType == ASSUME NEW n \in Int PROVE Char(n) \in Byte
<1>1. CharMod \in Nat \ {0} /\ CharMod % 2 = 0
  BY DspAudioAssumption
<1>2. n % CharMod \in 0..(CharMod - 1)
  BY <1>1, Z3
<1>3. CharMod = (CharMod \div 2) + (CharMod \div 2) /\ CharMod \div 2 \in Nat
  BY <1>1, Z3
<1>. DEFINE h == CharMod \div 2
<1>. HIDE DEF h
<1>. QED
  BY <1>1, <1>2, <1>3 DEF Char, Byte, h

\* A volume or a tone that the extension accepts is kept as it is: a volume always, a tone
\* where a char is signed.  Another one that a char holds is out of range.
LEMMA CharKeeps ==
    /\ \A n \in 0..MaxVol : Char(n) = n
    /\ CharIsSigned => \A n \in -MaxTone..MaxTone : Char(n) = n
    /\ \A n \in (-(CharMod \div 2) - 1)..MaxVol : Char(n) \in 0..MaxVol => Char(n) = n
    /\ \A n \in -MaxTone..MaxTone : Char(n) \in -MaxTone..MaxTone => Char(n) = n
<1>1. CharMod \in Nat \ {0} /\ CharMod % 2 = 0 /\ CharMod > 2 * MaxVol + 2
      /\ CharMod > 2 * MaxTone /\ MaxVol \in Nat /\ MaxTone \in Nat
  BY DspAudioAssumption
<1>2. \A c \in Nat \ {0}, n \in Int :
         /\ n \in 0..(c - 1) => n % c = n
         /\ n \in -c..-1 => n % c = n + c
  BY Z3
<1>3. CharMod = (CharMod \div 2) + (CharMod \div 2) /\ CharMod \div 2 \in Nat
  BY <1>1, Z3
<1>. DEFINE h == CharMod \div 2
<1>. HIDE DEF h
<1>4. h \in Nat /\ CharMod = h + h /\ h > MaxVol + 1 /\ h > MaxTone
  BY <1>1, <1>3 DEF h
<1>5. ASSUME NEW n \in Int, n >= 0, n < h
      PROVE  Char(n) = n
  BY <1>1, <1>2, <1>4, <1>5 DEF Char, h
<1>6. ASSUME NEW n \in Int, n < 0, n >= -h - 1, h > 1
      PROVE  IF CharIsSigned /\ n >= -h THEN Char(n) = n ELSE Char(n) = n + CharMod
  <2>1. n % CharMod = n + CharMod
    <3>1. n \in -CharMod..-1
      BY <1>1, <1>4, <1>6
    <3>. QED
      BY <1>1, <1>2, <3>1
  <2>2. Char(n) = IF CharIsSigned /\ n + CharMod >= h THEN n + CharMod - CharMod ELSE n + CharMod
    BY <1>1, <1>4, <1>6, <2>1 DEF Char, h
  <2>. QED
    BY <1>1, <1>4, <1>6, <2>2
<1>7. \A n \in 0..MaxVol : Char(n) = n
  BY <1>1, <1>4, <1>5
<1>8. CharIsSigned => \A n \in -MaxTone..MaxTone : Char(n) = n
  BY <1>1, <1>4, <1>5, <1>6
<1>9. \A n \in (-h - 1)..MaxVol : Char(n) \in 0..MaxVol => Char(n) = n
  BY <1>1, <1>4, <1>5, <1>6
<1>10. \A n \in -MaxTone..MaxTone : Char(n) \in -MaxTone..MaxTone => Char(n) = n
  BY <1>1, <1>4, <1>5, <1>6
<1>. QED
  BY <1>7, <1>8, <1>9, <1>10 DEF h

\* Zero is a value of a char, a position and a percentage.
LEMMA Zeros ==
    /\ 0 \in Byte /\ 0 \in Position /\ 0 \in Percents /\ DefaultVol \in Byte
    /\ ZeroDb \in MainLevel /\ 0..Steps \subseteq MainLevel
    /\ Byte \subseteq Int /\ Position \subseteq Int /\ Percents \subseteq Int
<1>1. CharMod = (CharMod \div 2) + (CharMod \div 2) /\ CharMod \div 2 \in Nat
  BY DspAudioAssumption, Z3
<1>. DEFINE h == CharMod \div 2
<1>. HIDE DEF h
<1>. QED
  BY <1>1, DspAudioAssumption DEF Byte, Position, Percents, ZeroDb, MainLevel, h

-----------------------------------------------------------------------------
(* The driver. *)

DspRecord == [mute : BOOLEAN, percentVol : Percents, muteP : BOOLEAN, source : Channel,
              main1 : MainLevel, main2 : MainLevel, tone : [Tone -> Position], fault : BOOLEAN]

\* What saf7741_audioSetMute makes of d: it mutes the DSP and remembers it, or does neither.
Muted(d, e, mute, ok) ==
    /\ e \in DspRecord
    /\ e.percentVol = d.percentVol /\ e.source = d.source /\ e.tone = d.tone
    /\ e.main1 = d.main1 /\ e.main2 = d.main2
    /\ e.mute <=> IF ok THEN mute ELSE d.mute
    /\ e.muteP <=> IF ok THEN mute ELSE d.muteP
    /\ e.fault <=> d.fault \/ ~ok

\* What saf7741_audioSetVol makes of d: the mute is left alone, and the second write reports.
Turned(d, e, percent, ok1, ok2) ==
    /\ e \in DspRecord
    /\ e.source = d.source /\ e.tone = d.tone
    /\ e.mute <=> d.mute
    /\ e.muteP <=> d.muteP
    /\ e.main1 = IF ok1 THEN Level(percent) ELSE d.main1
    /\ e.main2 = IF ok2 THEN Level(percent) ELSE d.main2
    /\ e.percentVol = IF ok2 THEN percent ELSE d.percentVol
    /\ e.fault <=> d.fault \/ ~ok1 \/ ~ok2

\* What saf7741_audioSetSource makes of d: the mute it found is back unless a transfer fails, and
\* a muted DSP stays muted even then.
Switched(d, e, ok) ==
    /\ e \in DspRecord
    /\ e.tone = d.tone
    /\ (d.mute <=> d.muteP) => (e.mute <=> e.muteP)
    /\ (d.muteP => d.mute) => (e.muteP => e.mute)
    /\ d.mute /\ d.muteP => e.muteP
    /\ ~e.fault => ~d.fault /\ (e.muteP => d.muteP)
    /\ ~e.fault =>
          /\ e.percentVol = d.percentVol
          /\ e.main1 = Level(d.percentVol) /\ e.main2 = Level(d.percentVol)

\* What the setting of a tone makes of d: the tone goes to the position next to it.
Tuned(d, e, t, n, ok) ==
    /\ e \in DspRecord
    /\ e.percentVol = d.percentVol /\ e.source = d.source
    /\ e.main1 = d.main1 /\ e.main2 = d.main2
    /\ e.mute <=> d.mute
    /\ e.muteP <=> d.muteP
    /\ e.tone = IF ok THEN [d.tone EXCEPT ![t] = Clipped(n, -ToneSide, ToneSide)] ELSE d.tone
    /\ e.fault <=> d.fault \/ ~ok

\* saf7741_audioSetMute
LEMMA SetMuteFacts ==
    ASSUME NEW d \in DspRecord, NEW mute \in BOOLEAN, NEW ok \in BOOLEAN
    PROVE  Muted(d, SetMute(d, mute, ok), mute, ok)
BY DEF Muted, SetMute, Unless, DspRecord

\* saf7741_audioSetVol
LEMMA SetVolFacts ==
    ASSUME NEW d \in DspRecord, NEW percent \in Percents, NEW ok1 \in BOOLEAN, NEW ok2 \in BOOLEAN
    PROVE  Turned(d, SetVol(d, percent, ok1, ok2), percent, ok1, ok2)
BY LevelType, Zeros DEF Turned, SetVol, Unless, DspRecord

\* saf7741_audioSetFade and its like
LEMMA SetToneFacts ==
    ASSUME NEW d \in DspRecord, NEW t \in Tone, NEW n \in Int, NEW ok \in BOOLEAN
    PROVE  Tuned(d, SetTone(d, t, n, ok), t, n, ok)
<1>1. Clipped(n, -ToneSide, ToneSide) \in Position
  BY ClippedFacts, DspAudioAssumption DEF Position
<1>. QED
  BY <1>1 DEF Tuned, SetTone, Unless, DspRecord

\* saf7741_audioSetSource
LEMMA SetSourceFacts ==
    ASSUME NEW d \in DspRecord, NEW channel \in Channel, NEW ok \in [1..5 -> BOOLEAN]
    PROVE  Switched(d, SetSource(d, channel, ok), ok)
<1>. DEFINE quiet == d.mute
            muted == IF quiet THEN d ELSE SetMute(d, TRUE, ok[1])
            tuned == [muted EXCEPT !.source = channel]
            heard == SetVol(tuned, muted.percentVol, ok[3], ok[4])
            switched == IF ok[2] THEN heard ELSE Unless(FALSE, muted)
            back  == SetMute(switched, FALSE, ok[5])
            e     == IF quiet THEN switched ELSE back
<1>1. e = SetSource(d, channel, ok)
  BY DEF SetSource
<1>2. quiet \in BOOLEAN /\ ok[1] \in BOOLEAN /\ ok[2] \in BOOLEAN /\ ok[3] \in BOOLEAN
      /\ ok[4] \in BOOLEAN /\ ok[5] \in BOOLEAN
  BY DEF DspRecord
<1>3. /\ muted \in DspRecord /\ muted.percentVol = d.percentVol /\ muted.tone = d.tone
      /\ (muted.mute <=> quiet \/ ok[1])
      /\ (muted.muteP <=> d.muteP \/ (~quiet /\ ok[1]))
      /\ (muted.fault <=> d.fault \/ (~quiet /\ ~ok[1]))
  <2>1. CASE quiet
    BY <2>1
  <2>2. CASE ~quiet
    <3>1. Muted(d, muted, TRUE, ok[1])
      BY <1>2, <2>2, SetMuteFacts
    <3>. QED
      BY <2>2, <3>1 DEF Muted
  <2>. QED
    BY <2>1, <2>2
<1>. HIDE DEF muted
<1>4. /\ tuned \in DspRecord /\ (tuned.mute <=> muted.mute) /\ (tuned.muteP <=> muted.muteP)
      /\ tuned.percentVol = muted.percentVol /\ tuned.tone = muted.tone
      /\ (tuned.fault <=> muted.fault)
  BY <1>3 DEF DspRecord
<1>. HIDE DEF tuned
<1>5. muted.percentVol \in Percents
  BY <1>3 DEF DspRecord
<1>6. /\ heard \in DspRecord /\ (heard.mute <=> muted.mute) /\ (heard.muteP <=> muted.muteP)
      /\ heard.tone = d.tone
      /\ (heard.fault <=> muted.fault \/ ~ok[3] \/ ~ok[4])
      /\ ok[3] /\ ok[4] => /\ heard.percentVol = d.percentVol
                           /\ heard.main1 = Level(d.percentVol)
                           /\ heard.main2 = Level(d.percentVol)
  <2>1. Turned(tuned, heard, muted.percentVol, ok[3], ok[4])
    BY <1>2, <1>4, <1>5, SetVolFacts
  <2>. QED
    BY <1>3, <1>4, <2>1 DEF Turned
<1>7. /\ Unless(FALSE, muted) \in DspRecord /\ (Unless(FALSE, muted).mute <=> muted.mute)
      /\ (Unless(FALSE, muted).muteP <=> muted.muteP) /\ Unless(FALSE, muted).tone = d.tone
      /\ Unless(FALSE, muted).fault
  BY <1>3 DEF Unless, DspRecord
<1>. HIDE DEF heard
<1>8. /\ switched \in DspRecord
      /\ (switched.mute <=> muted.mute) /\ (switched.muteP <=> muted.muteP)
      /\ switched.tone = d.tone
      /\ ~switched.fault => ~muted.fault /\ ok[2] /\ ok[3] /\ ok[4]
      /\ ok[2] /\ ok[3] /\ ok[4] => /\ switched.percentVol = d.percentVol
                                    /\ switched.main1 = Level(d.percentVol)
                                    /\ switched.main2 = Level(d.percentVol)
  BY <1>2, <1>6, <1>7
<1>. HIDE DEF switched
<1>9. /\ back \in DspRecord /\ back.tone = switched.tone
      /\ back.percentVol = switched.percentVol
      /\ back.main1 = switched.main1 /\ back.main2 = switched.main2
      /\ (back.mute <=> ~ok[5] /\ switched.mute)
      /\ (back.muteP <=> ~ok[5] /\ switched.muteP)
      /\ (back.fault <=> switched.fault \/ ~ok[5])
  <2>1. Muted(switched, back, FALSE, ok[5])
    BY <1>2, <1>8, SetMuteFacts
  <2>. QED
    BY <1>2, <2>1 DEF Muted
<1>. HIDE DEF back
<1>10. CASE quiet
  BY <1>1, <1>3, <1>8, <1>10 DEF Switched
<1>11. CASE ~quiet
  BY <1>1, <1>2, <1>3, <1>8, <1>9, <1>11 DEF Switched
<1>. QED
  BY <1>10, <1>11


-----------------------------------------------------------------------------
(* The types. *)

AudioRecord == [source : Source, user : BOOLEAN, app : BOOLEAN, vol : Byte, tone : [Tone -> Byte]]

\* Where a request is served.
LEMMA ServingPhase ==
    Serving => /\ save = "no" /\ phase \notin {"down"}
               /\ ~Early => phase \in {"up", "failed"}
BY DEF Serving

\* What the I2C transfers of a step may do.
LEMMA OkFacts == Ok \subseteq BOOLEAN
BY DspAudioAssumption DEF Ok

\* The outcomes of a set of transfers.
LEMMA OkFunctions == ASSUME NEW S, NEW ok \in [S -> Ok] PROVE ok \in [S -> BOOLEAN]
BY OkFacts

\* What the load of a volume and of a mute that is off makes of the driver, but for the tones.
Restored(e, vol) ==
    /\ e \in DspRecord
    /\ (dsp.mute <=> dsp.muteP) => (e.mute <=> e.muteP)
    /\ (dsp.muteP => dsp.mute) => (e.muteP => e.mute)
    /\ ~e.fault =>
          /\ ~e.mute /\ ~e.muteP
          /\ e.percentVol = Percent(vol)
          /\ e.main1 = Level(Percent(vol)) /\ e.main2 = e.main1

\* qext_dsp_audio_load without a file: the default volume, then the mute.
LoadedDefault(ok) == SetMute(SetVol(dsp, Percent(DefaultVol), ok[2], ok[3]), FALSE, ok[1])

\* qext_dsp_audio_load: the mute and the volume of the file, then the tones.
Loaded(ok) == SetVol(SetMute(dsp, FALSE, ok[1]), Percent(file.vol), ok[2], ok[3])

LoadedTones(ok, heard) ==
    [Unless(\A t \in Tone : heard[t], Loaded(ok)) EXCEPT !.tone =
        [t \in Tone |-> SetTone(Loaded(ok), t, file.tone[t], heard[t]).tone[t]]]

\* Without a file the defaults are set: of the tones, only what the start has reset.
LEMMA DefaultFacts ==
    ASSUME dsp \in DspRecord, NEW ok \in [1..3 -> BOOLEAN]
    PROVE  Restored(LoadedDefault(ok), DefaultVol) /\ LoadedDefault(ok).tone = dsp.tone
<1>. DEFINE p == Percent(DefaultVol)
            d == SetVol(dsp, p, ok[2], ok[3])
            e == SetMute(d, FALSE, ok[1])
<1>1. ok[1] \in BOOLEAN /\ ok[2] \in BOOLEAN /\ ok[3] \in BOOLEAN
  OBVIOUS
<1>2. p \in Percents
  BY Zeros, PercentType
<1>. HIDE DEF p
<1>3. Turned(dsp, d, p, ok[2], ok[3])
  BY <1>1, <1>2, SetVolFacts
<1>. HIDE DEF d
<1>4. Muted(d, e, FALSE, ok[1])
  BY <1>1, <1>3, SetMuteFacts DEF Turned
<1>5. e = LoadedDefault(ok)
  BY DEF LoadedDefault, d, p
<1>. HIDE DEF e
<1>6. Restored(e, DefaultVol) /\ e.tone = dsp.tone
  BY <1>1, <1>3, <1>4 DEF Muted, Turned, Restored, p
<1>. QED
  BY <1>5, <1>6

\* What the file holds is set, but for the tones.
LEMMA LoadedFacts ==
    ASSUME dsp \in DspRecord, file \in Image, NEW ok \in [1..3 -> BOOLEAN]
    PROVE  Restored(Loaded(ok), file.vol) /\ Loaded(ok).tone = dsp.tone
<1>. DEFINE p == Percent(file.vol)
            d == SetMute(dsp, FALSE, ok[1])
            e == SetVol(d, p, ok[2], ok[3])
<1>1. ok[1] \in BOOLEAN /\ ok[2] \in BOOLEAN /\ ok[3] \in BOOLEAN
  OBVIOUS
<1>2. p \in Percents
  <2>1. file.vol \in Int
    BY Zeros DEF Image
  <2>. QED
    BY <2>1, PercentType
<1>. HIDE DEF p
<1>3. Muted(dsp, d, FALSE, ok[1])
  BY <1>1, SetMuteFacts
<1>. HIDE DEF d
<1>4. Turned(d, e, p, ok[2], ok[3])
  BY <1>1, <1>2, <1>3, SetVolFacts DEF Muted
<1>5. e = Loaded(ok)
  BY DEF Loaded, d, p
<1>. HIDE DEF e
<1>6. Restored(e, file.vol) /\ e.tone = dsp.tone
  BY <1>1, <1>3, <1>4 DEF Muted, Turned, Restored, p
<1>. QED
  BY <1>5, <1>6

\* The tones of the file whose transfers succeed are set as well.
LEMMA LoadedTonesFacts ==
    ASSUME dsp \in DspRecord, file \in Image, NEW ok \in [1..3 -> BOOLEAN],
           NEW heard \in [Tone -> BOOLEAN]
    PROVE  /\ Restored(LoadedTones(ok, heard), file.vol)
           /\ LoadedTones(ok, heard).tone =
                 [t \in Tone |-> IF heard[t] THEN Clipped(file.tone[t], -ToneSide, ToneSide)
                                 ELSE dsp.tone[t]]
           /\ ~LoadedTones(ok, heard).fault => \A t \in Tone : heard[t] = TRUE
<1>. DEFINE d == Loaded(ok)
            all == \A t \in Tone : heard[t]
            tones == [t \in Tone |-> SetTone(d, t, file.tone[t], heard[t]).tone[t]]
            e == [Unless(all, d) EXCEPT !.tone = tones]
<1>1. Restored(d, file.vol) /\ d.tone = dsp.tone
  BY LoadedFacts
<1>2. e = LoadedTones(ok, heard)
  BY DEF LoadedTones
<1>. HIDE DEF d
<1>3. d \in DspRecord
  BY <1>1 DEF Restored
<1>4. ASSUME NEW t \in Tone
      PROVE  /\ tones[t] \in Position
             /\ tones[t] = IF heard[t] THEN Clipped(file.tone[t], -ToneSide, ToneSide)
                           ELSE dsp.tone[t]
  <2>. DEFINE u == SetTone(d, t, file.tone[t], heard[t])
  <2>1. file.tone[t] \in Int /\ heard[t] \in BOOLEAN
    BY Zeros DEF Image
  <2>2. Tuned(d, u, t, file.tone[t], heard[t])
    BY <1>3, <2>1, SetToneFacts
  <2>. HIDE DEF u
  <2>3. u.tone[t] \in Position
        /\ u.tone[t] = IF heard[t] THEN Clipped(file.tone[t], -ToneSide, ToneSide)
                       ELSE d.tone[t]
    BY <1>3, <2>1, <2>2 DEF Tuned, DspRecord
  <2>. QED
    BY <1>1, <2>3 DEF u
<1>5. tones = [t \in Tone |-> IF heard[t] THEN Clipped(file.tone[t], -ToneSide, ToneSide)
                              ELSE dsp.tone[t]]
      /\ tones \in [Tone -> Position]
  BY <1>4
<1>6. all \in BOOLEAN
  OBVIOUS
<1>. HIDE DEF tones, all
<1>7. /\ e \in DspRecord /\ e.tone = tones
      /\ e.percentVol = d.percentVol /\ e.main1 = d.main1 /\ e.main2 = d.main2
      /\ e.mute <=> d.mute
      /\ e.muteP <=> d.muteP
      /\ e.fault <=> d.fault \/ ~all
  BY <1>3, <1>5, <1>6 DEF Unless, DspRecord
<1>. HIDE DEF e
<1>8. Restored(e, file.vol)
  BY <1>1, <1>7 DEF Restored
<1>9. ~e.fault => \A t \in Tone : heard[t] = TRUE
  BY <1>7 DEF all
<1>. QED
  BY <1>2, <1>5, <1>7, <1>8, <1>9

\* saf7741_StartUp resets the registers and releases the mute.
Fresh == [Reset(dsp) EXCEPT !.muteP = FALSE]

\* What the start of the DSP leaves: tones at zero, and a mute that is told apart.
LEMMA ResetFacts ==
    ASSUME dsp \in DspRecord
    PROVE  /\ Reset(dsp) \in DspRecord /\ Unless(FALSE, Reset(dsp)) \in DspRecord
           /\ Fresh \in DspRecord /\ Fresh.tone = [t \in Tone |-> 0]
           /\ ~Fresh.muteP
           /\ Fresh.mute <=> dsp.mute
           /\ Fresh.percentVol = dsp.percentVol
<1>1. Reset(dsp) \in DspRecord
  BY Zeros DEF Reset, DspRecord
<1>2. Unless(FALSE, Reset(dsp)) \in DspRecord
  BY <1>1 DEF Unless, DspRecord
<1>3. Fresh \in DspRecord /\ Fresh.tone = Reset(dsp).tone /\ Fresh.muteP = FALSE
      /\ Fresh.mute = Reset(dsp).mute /\ Fresh.percentVol = Reset(dsp).percentVol
  BY <1>1 DEF Fresh, DspRecord
<1>4. Reset(dsp).tone = [t \in Tone |-> 0] /\ Reset(dsp).mute = dsp.mute
      /\ Reset(dsp).percentVol = dsp.percentVol
  BY DEF Reset, DspRecord
<1>. QED
  BY <1>1, <1>2, <1>3, <1>4

\* A request for a volume is for an integer.
LEMMA VolumesType ==
    ASSUME audio \in AudioRecord
    PROVE  /\ Volumes \subseteq Int
           /\ \A v \in Volumes : v >= -(CharMod \div 2) - 1
           /\ Careful /\ audio.vol \in 0..MaxVol => Volumes \subseteq Nat
<1>. DEFINE h == CharMod \div 2
<1>1. h \in Nat
  BY DspAudioAssumption, Z3
<1>. HIDE DEF h
<1>2. audio.vol \in Int /\ audio.vol >= -h
  <2>1. Byte \subseteq Int /\ \A b \in Byte : b >= -h
    BY <1>1, Zeros DEF Byte, h
  <2>. QED
    BY <2>1 DEF AudioRecord
<1>. QED
  BY <1>1, <1>2, DspAudioAssumption DEF Volumes, h

-----------------------------------------------------------------------------
(* What the steps make of the driver and of audio. *)

Typed == dsp \in DspRecord /\ audio \in AudioRecord /\ file \in Image

Agree(d) == d.mute <=> d.muteP

\* The driver knows at least that the DSP is muted.
Known(d) == d.muteP => d.mute

\* A start-up with the mute off leaves the driver and the DSP in agreement, and the tones at 0.
LEMMA StartUpEffect ==
    ASSUME Typed, StartUp
    PROVE  /\ dsp' \in DspRecord /\ phase' \in {"started", "failed"}
           /\ phase' = "started" =>
                 /\ dsp'.tone = [t \in Tone |-> 0]
                 /\ Known(dsp') /\ (~dsp.mute => Agree(dsp'))
<1>1. dsp \in DspRecord
  BY DEF Typed
<1>2. ASSUME NEW ok \in [1..5 -> Ok], dsp' = SetSource(Fresh, Usb, ok)
      PROVE  /\ dsp' \in DspRecord /\ dsp'.tone = [t \in Tone |-> 0]
             /\ Known(dsp') /\ (~dsp.mute => Agree(dsp'))
  <2>1. Switched(Fresh, dsp', ok)
    BY <1>1, <1>2, ResetFacts, OkFunctions, SetSourceFacts, DspAudioAssumption
  <2>. QED
    BY <1>1, <2>1, ResetFacts DEF Switched, Agree, Known
<1>. QED
  BY <1>1, <1>2, ResetFacts DEF StartUp, Fresh

\* The load of the settings.
LEMMA LoadEffect ==
    ASSUME Typed, Load
    PROVE  /\ dsp' \in DspRecord /\ audio' \in AudioRecord
           /\ Agree(dsp) => Agree(dsp')
           /\ Known(dsp) => Known(dsp')
           /\ ~dsp'.fault => ~dsp'.muteP
           /\ audio'.vol = IF file.full THEN file.vol ELSE DefaultVol
           /\ audio'.tone = IF file.full THEN file.tone ELSE audio.tone
           /\ ~dsp'.fault =>
                 /\ dsp'.percentVol = Percent(audio'.vol)
                 /\ dsp'.main1 = Level(Percent(audio'.vol)) /\ dsp'.main2 = dsp'.main1
                 /\ dsp'.tone = IF file.full
                                THEN [t \in Tone |-> Clipped(file.tone[t], -ToneSide, ToneSide)]
                                ELSE dsp.tone
<1>1. dsp \in DspRecord /\ audio \in AudioRecord /\ file \in Image
  BY DEF Typed
<1>2. PICK ok \in [1..3 -> Ok], heard \in [Tone -> Ok] :
        IF file.full
        THEN /\ audio' = [source |-> file.source, user |-> FALSE, app |-> FALSE,
                          vol |-> file.vol, tone |-> file.tone]
             /\ dsp' = LoadedTones(ok, heard)
        ELSE /\ audio' = [audio EXCEPT !.user = FALSE, !.app = FALSE, !.vol = DefaultVol]
             /\ dsp' = LoadedDefault(ok)
  BY DEF Load, LoadedTones, LoadedDefault, Loaded
<1>3. ok \in [1..3 -> BOOLEAN] /\ heard \in [Tone -> BOOLEAN]
  BY OkFunctions
<1>4. CASE file.full
  <2>. DEFINE a == [source |-> file.source, user |-> FALSE, app |-> FALSE, vol |-> file.vol,
                    tone |-> file.tone]
  <2>1. audio' \in AudioRecord /\ audio'.vol = file.vol /\ audio'.tone = file.tone
    <3>1. file.source \in Source /\ file.vol \in Byte /\ file.tone \in [Tone -> Byte]
      BY <1>1 DEF Image
    <3>2. a \in AudioRecord /\ a.vol = file.vol /\ a.tone = file.tone
      BY <3>1 DEF AudioRecord
    <3>3. audio' = a
      BY <1>2, <1>4
    <3>. QED
      BY <3>2, <3>3
  <2>2. /\ Restored(dsp', file.vol)
        /\ dsp'.tone = [t \in Tone |-> IF heard[t] THEN Clipped(file.tone[t], -ToneSide, ToneSide)
                                       ELSE dsp.tone[t]]
        /\ ~dsp'.fault => \A t \in Tone : heard[t] = TRUE
    BY <1>1, <1>2, <1>3, <1>4, LoadedTonesFacts
  <2>3. ~dsp'.fault => dsp'.tone = [t \in Tone |-> Clipped(file.tone[t], -ToneSide, ToneSide)]
    BY <2>2
  <2>. QED
    BY <1>3, <1>4, <2>1, <2>2, <2>3 DEF Restored, Agree, Known
<1>5. CASE ~file.full
  <2>1. audio' \in AudioRecord /\ audio'.vol = DefaultVol /\ audio'.tone = audio.tone
    BY <1>1, <1>2, <1>5, Zeros DEF AudioRecord
  <2>2. Restored(dsp', DefaultVol) /\ dsp'.tone = dsp.tone
    BY <1>1, <1>2, <1>3, <1>5, DefaultFacts
  <2>. QED
    BY <1>3, <1>5, <2>1, <2>2 DEF Restored, Agree, Known
<1>. QED
  BY <1>4, <1>5

\* Another source leaves the rest of audio, and a mute as it is.
LEMMA SwitchEffect ==
    ASSUME Typed, NEW c \in Channel, SwitchSource(c)
    PROVE  /\ dsp' \in DspRecord /\ audio' \in AudioRecord
           /\ audio'.user = audio.user /\ audio'.app = audio.app
           /\ audio'.vol = audio.vol /\ audio'.tone = audio.tone
           /\ dsp'.tone = dsp.tone
           /\ Agree(dsp) => Agree(dsp')
           /\ Known(dsp) => Known(dsp') /\ (dsp.muteP => dsp'.muteP)
           /\ ~dsp'.fault => ~dsp.fault /\ (dsp'.muteP => dsp.muteP)
           /\ ~dsp'.fault => /\ dsp'.percentVol = dsp.percentVol
                             /\ dsp'.main1 = Level(dsp.percentVol)
                             /\ dsp'.main2 = Level(dsp.percentVol)
<1>1. dsp \in DspRecord /\ audio \in AudioRecord
  BY DEF Typed
<1>2. PICK ok \in [1..5 -> Ok] : dsp' = SetSource(dsp, c, ok)
  BY DEF SwitchSource
<1>3. ok \in [1..5 -> BOOLEAN]
  BY OkFunctions
<1>4. Switched(dsp, dsp', ok)
  BY <1>1, <1>2, <1>3, SetSourceFacts
<1>5. audio' = [audio EXCEPT !.source = c]
  BY DEF SwitchSource
<1>6. audio' \in AudioRecord /\ audio'.user = audio.user /\ audio'.app = audio.app
      /\ audio'.vol = audio.vol /\ audio'.tone = audio.tone
  BY <1>1, <1>5 DEF AudioRecord, Source
<1>. QED
  BY <1>3, <1>4, <1>6 DEF Switched, Agree, Known

\* A flag that changes takes the mute with it.
LEMMA MuteEffect ==
    ASSUME Typed, NEW flag \in {"user", "app"}, Mute(flag)
    PROVE  /\ dsp' \in DspRecord /\ audio' \in AudioRecord
           /\ <<audio'.user, audio'.app>> # <<audio.user, audio.app>>
           /\ audio'.vol = audio.vol /\ audio'.tone = audio.tone
           /\ dsp'.tone = dsp.tone /\ dsp'.percentVol = dsp.percentVol
           /\ dsp'.main1 = dsp.main1 /\ dsp'.main2 = dsp.main2
           /\ Agree(dsp) => Agree(dsp')
           /\ Known(dsp) => Known(dsp')
           /\ ~dsp'.fault => ~dsp.fault
           /\ ~dsp'.fault /\ dsp'.muteP => audio'.user \/ audio'.app
<1>1. dsp \in DspRecord /\ audio \in AudioRecord
  BY DEF Typed
<1>. DEFINE m == ~audio[flag]
<1>2. PICK ok \in Ok : dsp' = SetMute(dsp, m, ok)
  BY DEF Mute
<1>3. audio' = [audio EXCEPT ![flag] = m] /\ m \in BOOLEAN /\ (m <=> ~audio[flag])
  BY DEF Mute
<1>. HIDE DEF m
<1>4. ok \in BOOLEAN
  BY OkFacts
<1>5. Muted(dsp, dsp', m, ok)
  BY <1>1, <1>2, <1>3, <1>4, SetMuteFacts
<1>6. /\ audio' \in AudioRecord /\ audio'.vol = audio.vol /\ audio'.tone = audio.tone
      /\ m => audio'.user \/ audio'.app
      /\ <<audio'.user, audio'.app>> # <<audio.user, audio.app>>
  <2>1. CASE flag = "user"
    BY <1>1, <1>3, <2>1 DEF AudioRecord
  <2>2. CASE flag = "app"
    BY <1>1, <1>3, <2>2 DEF AudioRecord
  <2>. QED
    BY <2>1, <2>2
<1>. QED
  BY <1>4, <1>5, <1>6 DEF Muted, Agree, Known

\* A new volume is that of audio unless a transfer fails.
LEMMA VolumeEffect ==
    ASSUME Typed, NEW v \in Volumes, Volume(v)
    PROVE  /\ dsp' \in DspRecord /\ audio' \in AudioRecord
           /\ audio'.user = audio.user /\ audio'.app = audio.app /\ audio'.tone = audio.tone
           /\ audio'.vol \in {audio.vol, Char(v)}
           /\ dsp'.tone = dsp.tone
           /\ dsp'.mute <=> dsp.mute
           /\ dsp'.muteP <=> dsp.muteP
           /\ ~dsp'.fault => /\ ~dsp.fault
                             /\ audio'.vol = Char(v) /\ dsp'.percentVol = Percent(v)
                             /\ dsp'.main1 = Level(Percent(v)) /\ dsp'.main2 = dsp'.main1
<1>1. dsp \in DspRecord /\ audio \in AudioRecord
  BY DEF Typed
<1>2. v \in Int /\ Percent(v) \in Percents /\ Char(v) \in Byte
  BY <1>1, VolumesType, PercentType, CharType
<1>3. PICK ok \in [1..2 -> Ok] :
        /\ dsp' = SetVol(dsp, Percent(v), ok[1], ok[2])
        /\ audio' = IF ok[2] THEN [audio EXCEPT !.vol = Char(v)] ELSE audio
  BY DEF Volume
<1>4. ok[1] \in BOOLEAN /\ ok[2] \in BOOLEAN
  BY OkFacts
<1>5. Turned(dsp, dsp', Percent(v), ok[1], ok[2])
  BY <1>1, <1>2, <1>3, <1>4, SetVolFacts
<1>6. /\ audio' \in AudioRecord
      /\ audio'.user = audio.user /\ audio'.app = audio.app /\ audio'.tone = audio.tone
      /\ audio'.vol = IF ok[2] THEN Char(v) ELSE audio.vol
  BY <1>1, <1>2, <1>3 DEF AudioRecord
<1>. QED
  BY <1>4, <1>5, <1>6 DEF Turned

\* So is a new tone.
LEMMA ToneEffect ==
    ASSUME Typed, NEW t \in Tone, NEW n \in -MaxTone..MaxTone, ChangeTone(t, n)
    PROVE  /\ dsp' \in DspRecord /\ audio' \in AudioRecord
           /\ audio'.user = audio.user /\ audio'.app = audio.app /\ audio'.vol = audio.vol
           /\ audio'.tone \in {audio.tone, [audio.tone EXCEPT ![t] = Char(n)]}
           /\ dsp'.percentVol = dsp.percentVol
           /\ dsp'.main1 = dsp.main1 /\ dsp'.main2 = dsp.main2
           /\ dsp'.mute <=> dsp.mute
           /\ dsp'.muteP <=> dsp.muteP
           /\ ~dsp'.fault =>
                 /\ ~dsp.fault
                 /\ audio'.tone = [audio.tone EXCEPT ![t] = Char(n)]
                 /\ dsp'.tone = [dsp.tone EXCEPT ![t] = Clipped(n, -ToneSide, ToneSide)]
<1>1. dsp \in DspRecord /\ audio \in AudioRecord
  BY DEF Typed
<1>2. n \in Int /\ Char(n) \in Byte
  BY CharType, DspAudioAssumption
<1>3. PICK written \in Ok, reported \in Ok :
        /\ dsp' = Unless(reported, SetTone(dsp, t, n, written))
        /\ audio' = IF reported THEN [audio EXCEPT !.tone[t] = Char(n)] ELSE audio
  BY DEF ChangeTone
<1>4. written \in BOOLEAN /\ reported \in BOOLEAN
  BY OkFacts
<1>. DEFINE d == SetTone(dsp, t, n, written)
<1>5. Tuned(dsp, d, t, n, written)
  BY <1>1, <1>2, <1>4, SetToneFacts
<1>. HIDE DEF d
<1>6. /\ dsp' \in DspRecord /\ dsp'.tone = d.tone
      /\ dsp'.percentVol = d.percentVol /\ dsp'.main1 = d.main1 /\ dsp'.main2 = d.main2
      /\ dsp'.mute = d.mute /\ dsp'.muteP = d.muteP
      /\ dsp'.fault <=> d.fault \/ ~reported
  <2>1. d \in DspRecord
    BY <1>5 DEF Tuned
  <2>2. dsp' = [d EXCEPT !.fault = d.fault \/ ~reported]
    BY <1>3, <2>1 DEF Unless, d
  <2>. QED
    BY <1>4, <2>1, <2>2 DEF DspRecord
<1>7. /\ audio' \in AudioRecord
      /\ audio'.user = audio.user /\ audio'.app = audio.app /\ audio'.vol = audio.vol
      /\ audio'.tone = IF reported THEN [audio.tone EXCEPT ![t] = Char(n)] ELSE audio.tone
  BY <1>1, <1>2, <1>3 DEF AudioRecord
<1>8. (dsp'.mute <=> dsp.mute) /\ (dsp'.muteP <=> dsp.muteP)
  BY <1>5, <1>6 DEF Tuned, DspRecord
<1>9. ~dsp'.fault => ~dsp.fault /\ written /\ reported
  BY <1>4, <1>5, <1>6 DEF Tuned
<1>10. /\ dsp'.percentVol = dsp.percentVol /\ dsp'.main1 = dsp.main1 /\ dsp'.main2 = dsp.main2
       /\ written => dsp'.tone = [dsp.tone EXCEPT ![t] = Clipped(n, -ToneSide, ToneSide)]
  BY <1>5, <1>6 DEF Tuned
<1>. QED
  BY <1>6, <1>7, <1>8, <1>9, <1>10

-----------------------------------------------------------------------------
(* The types. *)

\* The steps of the daemon that are not calls of the driver.
LEMMA StartEffect ==
    ASSUME Typed, Start
    PROVE  /\ dsp' \in DspRecord /\ ~dsp'.mute
           /\ audio' = Zero /\ Zero \in AudioRecord /\ phase' = "listening"
<1>1. Zero \in AudioRecord
  BY Zeros, DspAudioAssumption DEF Zero, AudioRecord, Source
<1>2. dsp' \in DspRecord /\ dsp'.mute = FALSE
  BY Zeros DEF Typed, Start, DspRecord
<1>. QED
  BY <1>1, <1>2 DEF Start

\* The types hold at first.
LEMMA TypeInit == Init => TypeOK
<1>. SUFFICES ASSUME Init PROVE TypeOK
  OBVIOUS
<1>1. Usb \in Channel /\ Usb \in Source
  BY DspAudioAssumption DEF Source
<1>2. audio \in AudioRecord
  BY <1>1, Zeros DEF Init, Zero, AudioRecord
<1>3. dsp \in DspRecord
  BY <1>1, Zeros DEF Init, DspRecord
<1>4. file \in Image
  BY <1>1, Zeros DEF Init, Blank, Image
<1>. QED
  BY <1>2, <1>3, <1>4 DEF Init, TypeOK, AudioRecord, DspRecord

\* The types are kept by every step.
LEMMA TypeStep == ASSUME TypeOK, [Next]_vars PROVE TypeOK'
<1>1. Typed
  BY DEF Typed, TypeOK, DspRecord, AudioRecord
<1>2. dsp \in DspRecord /\ audio \in AudioRecord /\ file \in Image
  BY <1>1 DEF Typed
<1>3. ASSUME phase' \in {"down", "listening", "opened", "started", "up", "failed"},
             open' \in BOOLEAN, save' \in {"no", "request", "stop"},
             dsp' \in DspRecord, audio' \in AudioRecord, file' \in Image
      PROVE  TypeOK'
  BY <1>3 DEF TypeOK, DspRecord, AudioRecord
<1>4. /\ phase \in {"down", "listening", "opened", "started", "up", "failed"}
      /\ open \in BOOLEAN /\ save \in {"no", "request", "stop"}
  BY DEF TypeOK
<1>5. CASE Start
  BY <1>1, <1>2, <1>3, <1>4, <1>5, StartEffect DEF Start
<1>6. CASE OpenDsp
  BY <1>2, <1>3, <1>4, <1>6, OkFacts DEF OpenDsp
<1>7. CASE StartUp
  BY <1>1, <1>2, <1>3, <1>4, <1>7, StartUpEffect DEF StartUp
<1>8. CASE Load
  BY <1>1, <1>2, <1>3, <1>4, <1>8, LoadEffect DEF Load
<1>9. ASSUME NEW c \in Channel, SwitchSource(c)
      PROVE  TypeOK'
  BY <1>1, <1>2, <1>3, <1>4, <1>9, SwitchEffect DEF SwitchSource
<1>10. CASE NameSource
  <2>1. audio' \in AudioRecord
    BY <1>2, <1>10 DEF NameSource, AudioRecord, Source
  <2>. QED
    BY <1>2, <1>3, <1>4, <1>10, <2>1 DEF NameSource
<1>11. ASSUME NEW flag \in {"user", "app"}, Mute(flag)
       PROVE  TypeOK'
  BY <1>1, <1>2, <1>3, <1>4, <1>11, MuteEffect DEF Mute
<1>12. ASSUME NEW v \in Volumes, Volume(v)
       PROVE  TypeOK'
  BY <1>1, <1>2, <1>3, <1>4, <1>12, VolumeEffect DEF Volume
<1>13. ASSUME NEW t \in Tone, NEW n \in -MaxTone..MaxTone, ChangeTone(t, n)
       PROVE  TypeOK'
  BY <1>1, <1>2, <1>3, <1>4, <1>13, ToneEffect DEF ChangeTone
<1>14. ASSUME NEW who \in {"request", "stop"}, Truncate(who)
       PROVE  TypeOK'
  <2>1. Blank \in Image
    BY Zeros, DspAudioAssumption DEF Blank, Image, Source
  <2>. QED
    BY <1>2, <1>3, <1>4, <1>14, <2>1 DEF Truncate
<1>15. CASE WriteFile
  <2>1. file' \in Image
    BY <1>2, <1>15 DEF WriteFile, Image, AudioRecord
  <2>. QED
    BY <1>2, <1>3, <1>4, <1>15, <2>1 DEF WriteFile
<1>16. CASE Exit
  BY <1>2, <1>3, <1>4, <1>16 DEF Exit
<1>17. CASE UNCHANGED vars
  BY <1>2, <1>3, <1>4, <1>17 DEF vars
<1>. QED
  BY <1>5, <1>6, <1>7, <1>8, <1>9, <1>10, <1>11, <1>12, <1>13, <1>14, <1>15, <1>16, <1>17 DEF Next

\* The driver's indexes stay within its tables and what a char holds within a char, whatever
\* clients send, transfers fail and settings are loaded.
THEOREM TypeAlways == Spec => []TypeOK
BY TypeInit, TypeStep, PTL DEF Spec

-----------------------------------------------------------------------------
(* The mutes. *)

\* Once the DSP is set up it is never muted without the knowledge of the driver, so that a source
\* switch leaves a muted one alone; and a flag is set if it is muted, unless a transfer has failed.
FlagInv ==
    /\ phase \in {"started", "up"} => Known(dsp)
    /\ phase = "up" /\ dsp.muteP /\ ~dsp.fault => audio.user \/ audio.app

\* What UnmuteIsAsked says of a step.
AsksUnmute ==
    phase = "up" /\ dsp.muteP /\ ~dsp'.muteP
        => <<audio.user, audio.app>>' # <<audio.user, audio.app>>

\* Every step keeps it, and unmutes only with a flag: one case per action.
LEMMA FlagStep ==
    ASSUME TypeOK, FlagInv, [Next]_vars
    PROVE  FlagInv' /\ AsksUnmute
<1>1. Typed /\ dsp \in DspRecord /\ dsp' \in DspRecord
  BY TypeStep DEF Typed, TypeOK, DspRecord, AudioRecord
<1>2. CASE Start
  BY <1>1, <1>2, StartEffect DEF Start, FlagInv, AsksUnmute
<1>3. CASE OpenDsp
  BY <1>3 DEF OpenDsp, FlagInv, AsksUnmute
<1>4. CASE StartUp
  BY <1>1, <1>4, StartUpEffect DEF StartUp, FlagInv, AsksUnmute
<1>5. CASE Load
  BY <1>1, <1>5, LoadEffect DEF Load, FlagInv, AsksUnmute
<1>6. ASSUME NEW c \in Channel, SwitchSource(c)
      PROVE  FlagInv' /\ AsksUnmute
  BY <1>1, <1>6, SwitchEffect DEF SwitchSource, FlagInv, AsksUnmute, Known
<1>7. CASE NameSource
  <2>1. audio'.user = audio.user /\ audio'.app = audio.app /\ dsp' = dsp /\ phase' = phase
    BY <1>1, <1>7 DEF NameSource, Typed, AudioRecord
  <2>. QED
    BY <2>1 DEF FlagInv, AsksUnmute, Known
<1>8. ASSUME NEW flag \in {"user", "app"}, Mute(flag)
      PROVE  FlagInv' /\ AsksUnmute
  BY <1>1, <1>8, MuteEffect DEF Mute, FlagInv, AsksUnmute
<1>9. ASSUME NEW v \in Volumes, Volume(v)
      PROVE  FlagInv' /\ AsksUnmute
  BY <1>1, <1>9, VolumeEffect DEF Volume, FlagInv, AsksUnmute, Known
<1>10. ASSUME NEW t \in Tone, NEW n \in -MaxTone..MaxTone, ChangeTone(t, n)
       PROVE  FlagInv' /\ AsksUnmute
  BY <1>1, <1>10, ToneEffect DEF ChangeTone, FlagInv, AsksUnmute, Known
<1>11. ASSUME NEW who \in {"request", "stop"}, Truncate(who)
       PROVE  FlagInv' /\ AsksUnmute
  BY <1>11 DEF Truncate, FlagInv, AsksUnmute
<1>12. CASE WriteFile
  BY <1>12 DEF WriteFile, FlagInv, AsksUnmute
<1>13. CASE Exit
  BY <1>13 DEF Exit, FlagInv, AsksUnmute
<1>14. CASE UNCHANGED vars
  BY <1>14 DEF vars, FlagInv, AsksUnmute, Known
<1>. QED
  BY <1>2, <1>3, <1>4, <1>5, <1>6, <1>7, <1>8, <1>9, <1>10, <1>11, <1>12, <1>13, <1>14 DEF Next

\* The flags are right from the first state on, however early requests come.
LEMMA FlagAlways == Spec => [](TypeOK /\ FlagInv)
<1>1. Init => FlagInv
  BY DEF Init, FlagInv
<1>2. TypeOK /\ FlagInv /\ [Next]_vars => (TypeOK /\ FlagInv)'
  BY TypeStep, FlagStep
<1>. QED
  BY <1>1, <1>2, TypeInit, PTL DEF Spec

\* Unless a transfer has failed, there is a request that unmutes a muted DSP.
THEOREM MuteAlwaysFlagged == Spec => []MutedIsFlagged
<1>1. FlagInv => MutedIsFlagged
  BY DEF FlagInv, MutedIsFlagged
<1>. QED
  BY <1>1, FlagAlways, PTL

\* Whichever writes fail and however early requests come, only a request that changes a mute flag
\* unmutes the DSP.
THEOREM UnmuteAlwaysAsked == Spec => UnmuteIsAsked
<1>1. TypeOK /\ FlagInv /\ [Next]_vars =>
        [phase = "up" /\ dsp.muteP /\ ~dsp'.muteP
            => <<audio.user, audio.app>>' # <<audio.user, audio.app>>]_vars
  BY FlagStep DEF AsksUnmute
<1>. QED
  BY <1>1, FlagAlways, PTL DEF Spec, UnmuteIsAsked

\* In a daemon that takes no request before the DSP is set up the driver starts with the mute off,
\* which StartUp relies on; from there on the driver and the DSP agree.
MuteInv ==
    /\ phase \in {"listening", "opened"} => ~dsp.mute
    /\ phase \in {"started", "up"} => Agree(dsp)

\* Every step keeps the mute known: one case per action.
LEMMA MuteStep ==
    ASSUME Early = FALSE, TypeOK, MuteInv, [Next]_vars
    PROVE  MuteInv'
<1>. USE ServingPhase
<1>1. Typed /\ dsp \in DspRecord /\ dsp' \in DspRecord
  BY TypeStep DEF Typed, TypeOK, DspRecord, AudioRecord
<1>2. CASE Start
  BY <1>1, <1>2, StartEffect DEF Start, MuteInv
<1>3. CASE OpenDsp
  BY <1>3 DEF OpenDsp, MuteInv
<1>4. CASE StartUp
  BY <1>1, <1>4, StartUpEffect DEF StartUp, MuteInv
<1>5. CASE Load
  BY <1>1, <1>5, LoadEffect DEF Load, MuteInv
<1>6. ASSUME NEW c \in Channel, SwitchSource(c)
      PROVE  MuteInv'
  BY <1>1, <1>6, SwitchEffect DEF SwitchSource, MuteInv
<1>7. CASE NameSource
  BY <1>7 DEF NameSource, MuteInv, Agree
<1>8. ASSUME NEW flag \in {"user", "app"}, Mute(flag)
      PROVE  MuteInv'
  BY <1>1, <1>8, MuteEffect DEF Mute, MuteInv
<1>9. ASSUME NEW v \in Volumes, Volume(v)
      PROVE  MuteInv'
  BY <1>1, <1>9, VolumeEffect DEF Volume, MuteInv, Agree
<1>10. ASSUME NEW t \in Tone, NEW n \in -MaxTone..MaxTone, ChangeTone(t, n)
       PROVE  MuteInv'
  BY <1>1, <1>10, ToneEffect DEF ChangeTone, MuteInv, Agree
<1>11. ASSUME NEW who \in {"request", "stop"}, Truncate(who)
       PROVE  MuteInv'
  BY <1>11 DEF Truncate, MuteInv
<1>12. CASE WriteFile
  BY <1>12 DEF WriteFile, MuteInv
<1>13. CASE Exit
  BY <1>13 DEF Exit, MuteInv
<1>14. CASE UNCHANGED vars
  BY <1>14 DEF vars, MuteInv, Agree
<1>. QED
  BY <1>2, <1>3, <1>4, <1>5, <1>6, <1>7, <1>8, <1>9, <1>10, <1>11, <1>12, <1>13, <1>14 DEF Next

\* Whichever writes fail, the mute of the driver and that of the DSP agree, where no request comes
\* too early.
THEOREM MuteAlwaysKnown == ASSUME Early = FALSE PROVE Spec => []DriverKnowsMute
<1>1. Init => MuteInv
  BY DEF Init, MuteInv
<1>2. TypeOK /\ MuteInv /\ [Next]_vars => MuteInv'
  BY MuteStep
<1>3. TypeOK /\ MuteInv => DriverKnowsMute
  BY DEF TypeOK, MuteInv, Agree, DriverKnowsMute
<1>. QED
  BY <1>1, <1>2, <1>3, TypeAlways, PTL DEF Spec

-----------------------------------------------------------------------------
(* The ranges. *)

\* Where no request turns the volume down below 0, neither audio nor the file holds another
\* volume than the extension accepts.
VolumesInv == Careful => audio.vol \in 0..MaxVol /\ file.vol \in 0..MaxVol

\* Where a char is signed, neither holds another tone than the extension accepts.
TonesInv ==
    CharIsSigned =>
        \A t \in Tone : audio.tone[t] \in -MaxTone..MaxTone /\ file.tone[t] \in -MaxTone..MaxTone

\* Every step keeps the volumes in range: only a load and a request write them.
LEMMA VolumesStep == ASSUME TypeOK, VolumesInv, [Next]_vars PROVE VolumesInv'
<1>. SUFFICES ASSUME Careful PROVE audio'.vol \in 0..MaxVol /\ file'.vol \in 0..MaxVol
  BY DEF VolumesInv
<1>1. Typed /\ audio.vol \in 0..MaxVol /\ file.vol \in 0..MaxVol
  BY DEF Typed, TypeOK, DspRecord, AudioRecord, VolumesInv
<1>2. Zero.vol = 0 /\ Blank.vol = 0 /\ 0 \in 0..MaxVol /\ DefaultVol \in 0..MaxVol
  BY DspAudioAssumption DEF Zero, Blank
<1>3. CASE Start
  BY <1>1, <1>2, <1>3, StartEffect DEF Start
<1>4. CASE Load
  BY <1>1, <1>2, <1>4, LoadEffect DEF Load
<1>5. ASSUME NEW c \in Channel, SwitchSource(c)
      PROVE  audio'.vol = audio.vol /\ file' = file
  BY <1>1, <1>5, SwitchEffect DEF SwitchSource
<1>6. ASSUME NEW flag \in {"user", "app"}, Mute(flag)
      PROVE  audio'.vol = audio.vol /\ file' = file
  BY <1>1, <1>6, MuteEffect DEF Mute
<1>7. ASSUME NEW v \in Volumes, Volume(v)
      PROVE  audio'.vol \in 0..MaxVol /\ file' = file
  <2>1. v \in Nat /\ v <= MaxVol
    BY <1>1, <1>7, VolumesType DEF Volume, Typed
  <2>2. Char(v) = v /\ v \in 0..MaxVol
    BY <2>1, CharKeeps, DspAudioAssumption
  <2>. QED
    BY <1>1, <1>7, <2>2, VolumeEffect DEF Volume
<1>8. ASSUME NEW t \in Tone, NEW n \in -MaxTone..MaxTone, ChangeTone(t, n)
      PROVE  audio'.vol = audio.vol /\ file' = file
  BY <1>1, <1>8, ToneEffect DEF ChangeTone
<1>9. CASE NameSource
  <2>1. audio'.vol = audio.vol /\ file' = file
    BY <1>1, <1>9 DEF NameSource, Typed, AudioRecord
  <2>. QED
    BY <1>1, <2>1
<1>10. ASSUME NEW who \in {"request", "stop"}, Truncate(who)
       PROVE  audio' = audio /\ file' = Blank
  BY <1>10 DEF Truncate
<1>11. CASE WriteFile
  <2>1. audio' = audio /\ file'.vol = audio.vol
    BY <1>11 DEF WriteFile
  <2>. QED
    BY <1>1, <2>1
<1>12. CASE OpenDsp \/ StartUp \/ Exit \/ UNCHANGED vars
  BY <1>1, <1>12 DEF OpenDsp, StartUp, Exit, vars
<1>. QED
  BY <1>1, <1>2, <1>3, <1>4, <1>5, <1>6, <1>7, <1>8, <1>9, <1>10, <1>11, <1>12 DEF Next

\* Every step keeps the tones in range: only a load and a request write them.
LEMMA TonesStep == ASSUME TypeOK, TonesInv, [Next]_vars PROVE TonesInv'
<1>. SUFFICES ASSUME CharIsSigned, NEW u \in Tone
              PROVE  audio'.tone[u] \in -MaxTone..MaxTone /\ file'.tone[u] \in -MaxTone..MaxTone
  BY DEF TonesInv
<1>1. Typed /\ audio.tone[u] \in -MaxTone..MaxTone /\ file.tone[u] \in -MaxTone..MaxTone
  BY DEF Typed, TypeOK, DspRecord, AudioRecord, TonesInv
<1>2. Zero.tone[u] = 0 /\ Blank.tone[u] = 0 /\ 0 \in -MaxTone..MaxTone
  BY DspAudioAssumption DEF Zero, Blank
<1>3. CASE Start
  BY <1>1, <1>2, <1>3, StartEffect DEF Start
<1>4. CASE Load
  BY <1>1, <1>4, LoadEffect DEF Load
<1>5. ASSUME NEW c \in Channel, SwitchSource(c)
      PROVE  audio'.tone = audio.tone /\ file' = file
  BY <1>1, <1>5, SwitchEffect DEF SwitchSource
<1>6. ASSUME NEW flag \in {"user", "app"}, Mute(flag)
      PROVE  audio'.tone = audio.tone /\ file' = file
  BY <1>1, <1>6, MuteEffect DEF Mute
<1>7. ASSUME NEW v \in Volumes, Volume(v)
      PROVE  audio'.tone = audio.tone /\ file' = file
  BY <1>1, <1>7, VolumeEffect DEF Volume
<1>8. ASSUME NEW t \in Tone, NEW n \in -MaxTone..MaxTone, ChangeTone(t, n)
      PROVE  audio'.tone[u] \in -MaxTone..MaxTone /\ file' = file
  <2>1. Char(n) \in -MaxTone..MaxTone /\ file' = file
    BY <1>8, CharKeeps DEF ChangeTone
  <2>2. audio'.tone \in {audio.tone, [audio.tone EXCEPT ![t] = Char(n)]}
    BY <1>1, <1>8, ToneEffect
  <2>. QED
    BY <1>1, <2>1, <2>2 DEF Typed, AudioRecord
<1>9. CASE NameSource
  <2>1. audio'.tone = audio.tone /\ file' = file
    BY <1>1, <1>9 DEF NameSource, Typed, AudioRecord
  <2>. QED
    BY <1>1, <2>1
<1>10. ASSUME NEW who \in {"request", "stop"}, Truncate(who)
       PROVE  audio' = audio /\ file' = Blank
  BY <1>10 DEF Truncate
<1>11. CASE WriteFile
  <2>1. audio' = audio /\ file'.tone = audio.tone
    BY <1>11 DEF WriteFile
  <2>. QED
    BY <1>1, <2>1
<1>12. CASE OpenDsp \/ StartUp \/ Exit \/ UNCHANGED vars
  BY <1>1, <1>12 DEF OpenDsp, StartUp, Exit, vars
<1>. QED
  BY <1>1, <1>2, <1>3, <1>4, <1>5, <1>6, <1>7, <1>8, <1>9, <1>10, <1>11, <1>12 DEF Next

\* Types and ranges hold in every state.
LEMMA RangesAlways == Spec => [](TypeOK /\ VolumesInv /\ TonesInv)
<1>1. Init => VolumesInv /\ TonesInv
  BY DspAudioAssumption DEF Init, Zero, Blank, VolumesInv, TonesInv
<1>2. TypeOK /\ VolumesInv /\ TonesInv /\ [Next]_vars => (TypeOK /\ VolumesInv /\ TonesInv)'
  BY TypeStep, VolumesStep, TonesStep
<1>. QED
  BY <1>1, <1>2, TypeInit, PTL DEF Spec

\* The range check of qext_dsp_audio_volume is only missed by a request that turns the volume
\* down below 0: without one, and whatever transfers fail, the volume stays in its range.
THEOREM VolumeAlwaysInRange == ASSUME Careful = TRUE PROVE Spec => []VolumeInRange
<1>1. VolumesInv => VolumeInRange
  BY DEF VolumesInv, VolumeInRange
<1>. QED
  BY <1>1, RangesAlways, PTL

\* A tone that was accepted is only changed by an unsigned char.
THEOREM TonesAlwaysInRange == ASSUME CharIsSigned = TRUE PROVE Spec => []TonesInRange
<1>1. TonesInv => TonesInRange
  BY DEF TonesInv, TonesInRange
<1>. QED
  BY <1>1, RangesAlways, PTL

-----------------------------------------------------------------------------
(* The volume. *)

\* Unless a transfer has failed or the volume has left its range, the driver and the DSP have the
\* volume of audio.
VolumeInv ==
    phase = "up" /\ ~dsp.fault /\ audio.vol \in 0..MaxVol =>
        /\ dsp.percentVol = Percent(audio.vol)
        /\ dsp.main1 = Level(Percent(audio.vol)) /\ dsp.main2 = dsp.main1

\* Every step keeps it: a switch of the source sends what the driver remembers, and a volume that
\* a char has changed is out of range.
LEMMA VolumeStep == ASSUME TypeOK, VolumeInv, [Next]_vars PROVE VolumeInv'
<1>1. Typed
  BY DEF Typed, TypeOK, DspRecord, AudioRecord
<1>2. CASE Start \/ OpenDsp \/ StartUp \/ Exit
  BY <1>2 DEF Start, OpenDsp, StartUp, Exit, VolumeInv
<1>3. CASE Load
  BY <1>1, <1>3, LoadEffect DEF VolumeInv
<1>4. ASSUME NEW c \in Channel, SwitchSource(c)
      PROVE  VolumeInv'
  BY <1>1, <1>4, SwitchEffect DEF SwitchSource, VolumeInv
<1>5. CASE NameSource
  <2>1. audio'.vol = audio.vol
    BY <1>1, <1>5 DEF NameSource, Typed, AudioRecord
  <2>. QED
    BY <1>5, <2>1 DEF NameSource, VolumeInv
<1>6. ASSUME NEW flag \in {"user", "app"}, Mute(flag)
      PROVE  VolumeInv'
  BY <1>1, <1>6, MuteEffect DEF Mute, VolumeInv
<1>7. ASSUME NEW v \in Volumes, Volume(v)
      PROVE  VolumeInv'
  <2>1. v \in Int /\ v >= -(CharMod \div 2) - 1 /\ v <= MaxVol
    BY <1>1, <1>7, VolumesType DEF Volume, Typed
  <2>2. v \in (-(CharMod \div 2) - 1)..MaxVol
    <3>1. CharMod \div 2 \in Nat /\ MaxVol \in Nat
      BY DspAudioAssumption, Z3
    <3>. QED
      BY <2>1, <3>1
  <2>3. Char(v) \in 0..MaxVol => Char(v) = v
    BY <2>2, CharKeeps
  <2>. QED
    BY <1>1, <1>7, <2>3, VolumeEffect DEF VolumeInv
<1>8. ASSUME NEW t \in Tone, NEW n \in -MaxTone..MaxTone, ChangeTone(t, n)
      PROVE  VolumeInv'
  BY <1>1, <1>8, ToneEffect DEF ChangeTone, VolumeInv
<1>9. ASSUME NEW who \in {"request", "stop"}, Truncate(who)
      PROVE  VolumeInv'
  BY <1>9 DEF Truncate, VolumeInv
<1>10. CASE WriteFile
  BY <1>10 DEF WriteFile, VolumeInv
<1>11. CASE UNCHANGED vars
  BY <1>11 DEF vars, VolumeInv
<1>. QED
  BY <1>2, <1>3, <1>4, <1>5, <1>6, <1>7, <1>8, <1>9, <1>10, <1>11 DEF Next

\* Unless a transfer has failed, the DSP is at the volume that clients are told, for a char of
\* either sign, whatever volumes clients ask for and however early.
THEOREM VolumeAlwaysFollows == Spec => []VolumeFollows
<1>1. Init => VolumeInv
  BY DEF Init, VolumeInv
<1>2. TypeOK /\ VolumeInv /\ [Next]_vars => VolumeInv'
  BY VolumeStep
<1>3. VolumeInv => VolumeFollows
  BY DEF VolumeInv, VolumeFollows
<1>. QED
  BY <1>1, <1>2, <1>3, TypeAlways, PTL DEF Spec

-----------------------------------------------------------------------------
(* The tones. *)

ZeroTones == [t \in Tone |-> 0]

Setup == {"listening", "opened", "started"}

Heard(t) ==
    audio.tone[t] \in -MaxTone..MaxTone => dsp.tone[t] = Clipped(audio.tone[t], -ToneSide, ToneSide)

\* A load without a file leaves the tones alone: they are 0 since the start.
HeardInv ==
    /\ phase \in Setup => audio.tone = ZeroTones
    /\ phase = "started" => dsp.tone = ZeroTones
    /\ phase = "up" /\ ~dsp.fault => \A t \in Tone : Heard(t)

\* Every step keeps it: of the requests, only that for a tone disturbs it.
LEMMA HeardStep ==
    ASSUME Early = FALSE, TypeOK, HeardInv, [Next]_vars
    PROVE  HeardInv'
<1>. USE ServingPhase DEF Setup
<1>1. Typed
  BY DEF Typed, TypeOK, DspRecord, AudioRecord
<1>2. ASSUME phase' = phase, phase \notin Setup, audio'.tone = audio.tone, dsp'.tone = dsp.tone,
             ~dsp'.fault => ~dsp.fault
      PROVE  HeardInv'
  BY <1>2 DEF HeardInv, Heard
<1>3. CASE Start
  BY <1>1, <1>3, StartEffect DEF Start, HeardInv, Zero, ZeroTones
<1>4. CASE OpenDsp
  BY <1>4 DEF OpenDsp, HeardInv
<1>5. CASE StartUp
  BY <1>1, <1>5, StartUpEffect DEF StartUp, HeardInv, ZeroTones
<1>6. CASE Load
  <2>1. ASSUME ~dsp'.fault, NEW t \in Tone
        PROVE  dsp'.tone[t] = Clipped(audio'.tone[t], -ToneSide, ToneSide)
    <3>1. CASE file.full
      BY <1>1, <1>6, <2>1, <3>1, LoadEffect
    <3>2. CASE ~file.full
      <4>1. audio'.tone = ZeroTones /\ dsp'.tone = ZeroTones
        BY <1>1, <1>6, <2>1, <3>2, LoadEffect DEF Load, HeardInv
      <4>. QED
        BY <4>1, DspAudioAssumption DEF ZeroTones, Clipped
    <3>. QED
      BY <3>1, <3>2
  <2>. QED
    BY <1>6, <2>1 DEF Load, HeardInv, Heard
<1>7. ASSUME NEW c \in Channel, SwitchSource(c)
      PROVE  HeardInv'
  BY <1>1, <1>2, <1>7, SwitchEffect DEF SwitchSource
<1>8. CASE NameSource
  <2>1. audio'.tone = audio.tone
    BY <1>1, <1>8 DEF NameSource, Typed, AudioRecord
  <2>. QED
    BY <1>2, <1>8, <2>1 DEF NameSource
<1>9. ASSUME NEW flag \in {"user", "app"}, Mute(flag)
      PROVE  HeardInv'
  BY <1>1, <1>2, <1>9, MuteEffect DEF Mute
<1>10. ASSUME NEW v \in Volumes, Volume(v)
       PROVE  HeardInv'
  BY <1>1, <1>2, <1>10, VolumeEffect DEF Volume
<1>11. ASSUME NEW t \in Tone, NEW n \in -MaxTone..MaxTone, ChangeTone(t, n)
       PROVE  HeardInv'
  <2>1. phase' = phase /\ phase \notin Setup
    BY <1>11 DEF ChangeTone
  <2>2. ASSUME ~dsp'.fault, phase = "up", NEW u \in Tone
        PROVE  Heard(u)'
    <3>1. /\ audio'.tone = [audio.tone EXCEPT ![t] = Char(n)]
          /\ dsp'.tone = [dsp.tone EXCEPT ![t] = Clipped(n, -ToneSide, ToneSide)]
          /\ ~dsp.fault
      BY <1>1, <1>11, <2>2, ToneEffect
    <3>2. audio.tone \in [Tone -> Byte] /\ dsp.tone \in [Tone -> Position] /\ Heard(u)
      BY <1>1, <2>2, <3>1 DEF Typed, AudioRecord, DspRecord, HeardInv
    <3>3. Char(n) \in -MaxTone..MaxTone => Char(n) = n
      BY CharKeeps
    <3>4. CASE u = t
      BY <3>1, <3>2, <3>3, <3>4 DEF Heard
    <3>5. CASE u # t
      BY <3>1, <3>2, <3>5 DEF Heard
    <3>. QED
      BY <3>4, <3>5
  <2>. QED
    BY <2>1, <2>2 DEF HeardInv
<1>12. ASSUME NEW who \in {"request", "stop"}, Truncate(who)
       PROVE  HeardInv'
  BY <1>12 DEF Truncate, HeardInv, Heard
<1>13. CASE WriteFile
  BY <1>13 DEF WriteFile, HeardInv, Heard
<1>14. CASE Exit
  BY <1>14 DEF Exit, HeardInv
<1>15. CASE UNCHANGED vars
  BY <1>15 DEF vars, HeardInv, Heard
<1>. QED
  BY <1>3, <1>4, <1>5, <1>6, <1>7, <1>8, <1>9, <1>10, <1>11, <1>12, <1>13, <1>14, <1>15 DEF Next

\* The tones of a daemon that starts are 0 and those of the DSP follow.
LEMMA HeardAlways == ASSUME Early = FALSE PROVE Spec => [](TypeOK /\ HeardInv)
<1>1. Init => HeardInv
  BY DEF Init, HeardInv, Setup
<1>2. TypeOK /\ HeardInv /\ [Next]_vars => HeardInv'
  BY HeardStep
<1>. QED
  BY <1>1, <1>2, TypeAlways, PTL DEF Spec

\* Unless a transfer has failed, the DSP has the tones that clients are told, for a char of either
\* sign, where no request comes before the DSP is set up.
THEOREM TonesAlwaysFollow == ASSUME Early = FALSE PROVE Spec => []TonesFollow
<1>1. HeardInv => TonesFollow
  BY DEF HeardInv, Heard, TonesFollow
<1>. QED
  BY <1>1, HeardAlways, PTL

-----------------------------------------------------------------------------
(* DspAudio implements AudioSettings. *)

\* A save that a request has begun is ended by a daemon that has come up or whose DSP has failed;
\* the one of a daemon that stops, by one that has come up.
SaveInv ==
    /\ save # "no" => phase \in {"up", "failed"}
    /\ save = "stop" => phase = "up"

\* Every step keeps it: a daemon that starts is not saving.
LEMMA SaveStep == ASSUME Early = FALSE, TypeOK, SaveInv, [Next]_vars PROVE SaveInv'
<1>. USE ServingPhase DEF SaveInv
<1>1. CASE Start \/ OpenDsp \/ StartUp \/ Load
  BY <1>1 DEF Start, OpenDsp, StartUp, Load
<1>2. ASSUME NEW who \in {"request", "stop"}, Truncate(who)
      PROVE  SaveInv'
  BY <1>2 DEF Truncate
<1>3. CASE WriteFile \/ Exit
  BY <1>3 DEF WriteFile, Exit
<1>4. CASE NameSource \/ UNCHANGED vars
  BY <1>4 DEF NameSource, vars
<1>5. ASSUME NEW c \in Channel, SwitchSource(c)
      PROVE  SaveInv'
  BY <1>5 DEF SwitchSource
<1>6. ASSUME NEW flag \in {"user", "app"}, Mute(flag)
      PROVE  SaveInv'
  BY <1>6 DEF Mute
<1>7. ASSUME NEW v \in Volumes, Volume(v)
      PROVE  SaveInv'
  BY <1>7 DEF Volume
<1>8. ASSUME NEW t \in Tone, NEW n \in -MaxTone..MaxTone, ChangeTone(t, n)
      PROVE  SaveInv'
  BY <1>8 DEF ChangeTone
<1>. QED
  BY <1>1, <1>2, <1>3, <1>4, <1>5, <1>6, <1>7, <1>8 DEF Next

Setting == [level : 0..Steps, tone : [Tone -> Position]]

\* What is set of any volume and any tones that a char holds is a setting.
LEMMA SettingType ==
    ASSUME NEW vol \in Byte, NEW tone \in [Tone -> Byte]
    PROVE  SettingOf(vol, tone) \in Setting
<1>1. Level(Percent(vol)) \in 0..Steps
  BY Zeros, PercentType, LevelType
<1>. DEFINE clipped == [t \in Tone |-> Clipped(tone[t], -ToneSide, ToneSide)]
<1>2. clipped \in [Tone -> Position]
  <2>1. ASSUME NEW t \in Tone
        PROVE  Clipped(tone[t], -ToneSide, ToneSide) \in Position
    <3>1. tone[t] \in Int
      <4>1. tone[t] \in Byte
        OBVIOUS
      <4>. QED
        BY <4>1, Zeros
    <3>2. Clipped(tone[t], -ToneSide, ToneSide) \in -ToneSide..ToneSide
      BY <3>1, ClippedFacts, DspAudioAssumption
    <3>. QED
      BY <3>2 DEF Position
  <2>. QED
    BY <2>1
<1>3. SettingOf(vol, tone) = [level |-> Level(Percent(vol)), tone |-> clipped]
  BY DEF SettingOf
<1>. HIDE DEF clipped
<1>. QED
  BY <1>1, <1>2, <1>3 DEF Setting

\* Every step is one of AudioSettings, or leaves what that promises alone.
LEMMA SettingsRefined ==
    ASSUME Early = FALSE, TypeOK, TypeOK', HeardInv, SaveInv, [Next]_vars
    PROVE  [Settings!SettingsNext]_(<<phase = "up", save # "no", Current, Kept>>)
<1>. USE ServingPhase
<1>1. Typed /\ audio' \in AudioRecord
  BY DEF Typed, TypeOK, DspRecord, AudioRecord
<1>2. file' = file => Kept' = Kept
  BY DEF Kept
<1>3. SettingOf(audio.vol, audio.tone) \in Setting /\ SettingOf(audio'.vol, audio'.tone) \in Setting
  BY <1>1, SettingType DEF Typed, AudioRecord
<1>4. ASSUME UNCHANGED <<phase, save, file>>
      PROVE  [Settings!SettingsNext]_(<<phase = "up", save # "no", Current, Kept>>)
  <2>1. CASE phase = "up"
    <3>1. Current' \in Setting
      BY <1>3, <1>4, <2>1 DEF Current
    <3>. QED
      BY <1>2, <1>4, <2>1, <3>1 DEF Settings!SettingsNext, Settings!Adjust, Setting
  <2>2. CASE phase # "up"
    BY <1>2, <1>4, <2>2 DEF Current
  <2>. QED
    BY <2>1, <2>2
<1>5. ASSUME UNCHANGED <<save, file>>, phase # "up", phase' # "up"
      PROVE  UNCHANGED <<phase = "up", save # "no", Current, Kept>>
  BY <1>2, <1>5 DEF Current
<1>6. CASE Start \/ OpenDsp \/ StartUp
  BY <1>5, <1>6 DEF Start, OpenDsp, StartUp
<1>7. CASE Load
  <2>1. phase # "up" /\ phase' = "up" /\ UNCHANGED <<save, file>>
    BY <1>7 DEF Load
  <2>2. /\ audio'.vol = IF file.full THEN file.vol ELSE DefaultVol
        /\ audio'.tone = IF file.full THEN file.tone ELSE audio.tone
    BY <1>1, <1>7, LoadEffect
  <2>3. audio.tone = [t \in Tone |-> 0]
    BY <1>7 DEF Load, HeardInv, Setup, ZeroTones
  <2>4. Current' = Kept /\ Current = Kept
    BY <2>1, <2>2, <2>3 DEF Current, Kept, DefaultSetting
  <2>. QED
    BY <1>2, <2>1, <2>4 DEF Settings!SettingsNext, Settings!Restart
<1>8. ASSUME NEW c \in Channel, SwitchSource(c)
      PROVE  [Settings!SettingsNext]_(<<phase = "up", save # "no", Current, Kept>>)
  BY <1>4, <1>8 DEF SwitchSource
<1>9. CASE NameSource
  BY <1>4, <1>9 DEF NameSource
<1>10. ASSUME NEW flag \in {"user", "app"}, Mute(flag)
       PROVE  [Settings!SettingsNext]_(<<phase = "up", save # "no", Current, Kept>>)
  BY <1>4, <1>10 DEF Mute
<1>11. ASSUME NEW v \in Volumes, Volume(v)
       PROVE  [Settings!SettingsNext]_(<<phase = "up", save # "no", Current, Kept>>)
  BY <1>4, <1>11 DEF Volume
<1>12. ASSUME NEW t \in Tone, NEW n \in -MaxTone..MaxTone, ChangeTone(t, n)
       PROVE  [Settings!SettingsNext]_(<<phase = "up", save # "no", Current, Kept>>)
  BY <1>4, <1>12 DEF ChangeTone
<1>13. ASSUME NEW who \in {"request", "stop"}, Truncate(who)
       PROVE  Settings!SettingsNext
  <2>1. phase' = phase /\ save' # "no" /\ audio' = audio /\ file' = Blank
    BY <1>13 DEF Truncate
  <2>2. Kept' = DefaultSetting
    BY <2>1 DEF Kept, Blank
  <2>3. Current' = IF phase = "up" THEN Current ELSE DefaultSetting
    BY <2>1, <2>2 DEF Current
  <2>. QED
    BY <2>1, <2>2, <2>3 DEF Settings!SettingsNext, Settings!BeginSave
<1>14. CASE WriteFile
  <2>1. /\ phase \in {"up", "failed"} /\ save # "no" /\ save' = "no" /\ audio' = audio
        /\ phase' = phase \/ (phase = "up" /\ phase' = "down")
    BY <1>14 DEF WriteFile, SaveInv
  <2>2. Kept' = SettingOf(audio.vol, audio.tone)
    BY <1>14 DEF WriteFile, Kept
  <2>3. CASE phase = "up"
    <3>1. Current = SettingOf(audio.vol, audio.tone) /\ Current' = Current
      BY <2>1, <2>2, <2>3 DEF Current
    <3>. QED
      BY <2>1, <2>2, <2>3, <3>1 DEF Settings!SettingsNext, Settings!EndSave
  <2>4. CASE phase = "failed"
    <3>1. Current' = Kept' /\ Kept' \in Setting /\ phase' = phase
      BY <1>3, <2>1, <2>2, <2>4 DEF Current
    <3>. QED
      BY <2>1, <2>4, <3>1 DEF Settings!SettingsNext, Settings!EndBlindSave, Setting
  <2>. QED
    BY <2>1, <2>3, <2>4
<1>15. CASE Exit
  <2>1. phase' = "down" /\ save' = "no" /\ Kept' = Kept /\ Current' = Kept
    BY <1>2, <1>15 DEF Exit, Current
  <2>. QED
    BY <2>1 DEF Settings!SettingsNext, Settings!Die
<1>16. CASE UNCHANGED vars
  BY <1>4, <1>16 DEF vars
<1>. QED
  BY <1>6, <1>7, <1>8, <1>9, <1>10, <1>11, <1>12, <1>13, <1>14, <1>15, <1>16 DEF Next

\* The settings of a daemon that stops are those of the next one, and a daemon that dies goes back
\* to its last save, for a char of either sign and whichever transfers fail; no request comes
\* before the DSP is set up.
THEOREM SettingsImplemented == ASSUME Early = FALSE PROVE Spec => SettingsSpec
<1>1. Init => SaveInv
  BY DEF Init, SaveInv
<1>2. TypeOK /\ SaveInv /\ [Next]_vars => SaveInv'
  BY SaveStep
<1>3. Init => Settings!SettingsInit
  BY DEF Init, Settings!SettingsInit, Current, Kept, Blank
<1>4. /\ TypeOK /\ HeardInv /\ SaveInv /\ TypeOK' /\ [Next]_vars
         => [Settings!SettingsNext]_(<<phase = "up", save # "no", Current, Kept>>)
  BY SettingsRefined
<1>. QED
  BY <1>1, <1>2, <1>3, <1>4, HeardAlways, PTL DEF Spec, SettingsSpec, Settings!SettingsSpec

=============================================================================
