------------------------------ MODULE DspRadio ------------------------------
(***************************************************************************)
(* The radio part of the DSP extension, qExtDspRadio.c, on top of the      *)
(* radio driver.  A handler calls the driver several times, and what it    *)
(* does next depends on the results; a handler maps a state of the daemon  *)
(* to the set of states it can end in.  The requests come one after        *)
(* another on the IPC receive thread, which is open before the main thread *)
(* has set up the DSP, and stays open when that fails.                     *)
(*                                                                         *)
(* Seek, scan and AST are requests without an effect in this version.      *)
(***************************************************************************)
EXTENDS RadioDriver, Sequences

CONSTANTS
    MaxBand,    \* max_band_num, one number for both types
    MaxCh,      \* max_ch_num
    Min, Max,   \* min_freq and max_freq of a type
    Step,       \* QEXT_DSP_FM_FREQ_STEP and its like
    Asked,      \* the frequencies that clients ask for
    Stations,   \* the stations they ask for: [type, num, ch, freq]
    Presets,    \* what they write into the preset table: [type, num, freq]
    Early,      \* requests and signals may come before the DSP is set up
    Careful     \* clients do not write the last preset of a band but the last

None == "none"
Type == Band \cup {None}

ASSUME DspRadioAssumption ==
    /\ MaxBand \in 1..30 /\ MaxCh \in Nat \ {0}
    /\ Min \in [Band -> Nat] /\ Max \in [Band -> Nat] /\ Step \in [Band -> Nat \ {0}]
    /\ \A b \in Band : Default[b] \in Min[b]..Max[b]
    /\ Asked \subseteq Nat
    /\ Stations \subseteq [type : Type, num : 0..31, ch : 0..255, freq : Nat]
    /\ Presets \subseteq [type : Band, num : 0..31, freq : Nat]
    /\ {Early, Careful} \subseteq BOOLEAN

VARIABLES
    phase,  \* how far the start of the daemon has come; "dead" once it has read through a null param
    radio,  \* struct qext_dsp_radio
    drv,    \* qdsp.open, gsRadioState, the commands of the tuner, and whether a transfer has failed
    file    \* RDSP_BACKUP, until it is loaded: whether it is full, and then an image of radio

vars == <<phase, radio, drv, file>>

BandIdx == 0..(MaxBand - 1)
ChIdx   == 0..(MaxCh - 1)

\* What the extension lets through to the tuner.
Freq == UNION {Min[b]..Max[b] : b \in Band}

Register == [mode : {"buffer", "load", "preset"}, band : Band, code : Nat]

Radio == [type : Type, param : Type, preset : BOOLEAN, freq : Freq \cup {0},
          curBand : [Band -> Nat], curCh : [Band -> [BandIdx -> Nat]],
          ch : [Band -> [BandIdx -> [ChIdx -> Nat]]]]

TypeOK ==
    /\ phase \in {"down", "listening", "opened", "started", "up", "failed", "dead"}
    /\ radio \in Radio
    /\ drv \in [open : BOOLEAN, band : Band, freq : [Band -> Freq], mode : Band \cup {"reset"},
                mix : Band \cup {"reset"}, reg : Register, fill : {Unset}, fault : BOOLEAN]
    /\ file \in [full : BOOLEAN, radio : Radio]

-----------------------------------------------------------------------------
(* Handlers: from a state of the daemon to the set of those it may end in. *)

State(r, d)  == [radio |-> r, drv |-> d, dead |-> FALSE]

\* radio.param-> of a radio that has never had a band
Dead(s)      == {[s EXCEPT !.dead = TRUE]}

\* Handlers one after the other, unless the daemon dies in the first.
AndThen(states, Handler(_)) ==
    UNION {IF s.dead THEN {s} ELSE Handler(s) : s \in states}

\* The table that get_cur_rdata returns.
Data(r)      == IF r.type \in Band THEN r.type ELSE FM

Station(r, b, i) == r.ch[b][i][r.curCh[b][i]]

\* Bug: the type changes whether or not the driver has followed.
SetType_Unchecked(s, t) ==
    IF s.radio.type = t \/ t \notin Band THEN {s}
    ELSE {[s EXCEPT !.radio.type = t, !.radio.param = t, !.drv = o.drv] : o \in SetBand(s.drv, t)}

\* It has succeeded when the type is t in the end.
SetType(s, t) ==
    IF s.radio.type = t \/ t \notin Band THEN {s}
    ELSE {IF o.ok THEN [s EXCEPT !.radio.type = t, !.radio.param = t, !.drv = o.drv]
                  ELSE [s EXCEPT !.drv = o.drv]
             : o \in SetBand(s.drv, t)}

\* qext_dsp_radio_get_cur_rdata: a radio without a band tries FM.
Settle(s) == IF s.radio.type \in Band THEN {s} ELSE SetType(s, FM)

\* Bug: the frequency is not checked against the limits of the type.
InRange_Unlimited(r, f) == r.param # None

InRange(r, f) == r.param # None /\ f \in Min[r.param]..Max[r.param]

\* qext_dsp_radio_set_freq, and what its caller does when it returns 0.
TuneTo(s, f, OnSuccess(_)) ==
    IF ~InRange(s.radio, f) THEN {s}
    ELSE {[s EXCEPT !.drv = o.drv,
                    !.radio = IF o.ok THEN OnSuccess([@ EXCEPT !.freq = f]) ELSE @]
             : o \in SetFreq(s.drv, f)}

Tune(s, f) == LET Keep(r) == r IN TuneTo(s, f, Keep)

Listed(r) == [r EXCEPT !.preset = TRUE]

-----------------------------------------------------------------------------
(* Bands. *)

\* qext_dsp_radio_set_band: the band counts as current whether or not its station is tuned to.
EnterBand(s, i) ==
    IF s.radio.param = None THEN Dead(s)
    ELSE IF i \notin BandIdx THEN {s}
    ELSE LET b == Data(s.radio)
         IN  {[x EXCEPT !.radio.curBand[b] = i] : x \in TuneTo(s, Station(s.radio, b, i), Listed)}

ChangeBand(s, t, i) ==
    LET Enter(x)  == EnterBand(x, i)
        Switched  == SetType(s, t)
    IN  {x \in Switched : x.radio.type # t}
            \cup AndThen(UNION {Settle(x) : x \in {y \in Switched : y.radio.type = t}}, Enter)

\* Above the last band the first of the type follows, below it one of FM, in AM too.
NextBand(s) ==
    LET Go(x) == LET n == x.radio.curBand[Data(x.radio)] + 1
                 IN  IF x.radio.param = None THEN Dead(x)
                     ELSE IF n + 1 > MaxBand THEN ChangeBand(x, x.radio.type, 0)
                     ELSE ChangeBand(x, FM, n)
    IN  AndThen(Settle(s), Go)

PrevBand(s) ==
    LET Go(x) == LET i == x.radio.curBand[Data(x.radio)]
                 IN  IF i # 0 THEN ChangeBand(x, x.radio.type, i - 1)
                     ELSE ChangeBand(x, IF x.radio.type = FM THEN AM ELSE FM, MaxBand - 1)
    IN  AndThen(Settle(s), Go)

SwitchBand(s, t) == ChangeBand(s, t, s.radio.curBand[t])

-----------------------------------------------------------------------------
(* Channels and frequencies. *)

SwitchChannel(s, i) ==
    LET Go(x) == LET b      == Data(x.radio)
                     n      == x.radio.curBand[b]
                     Set(r) == Listed([r EXCEPT !.curCh[b][n] = i])
                 IN  IF x.radio.param = None THEN Dead(x)
                     ELSE IF i \notin ChIdx THEN {x}
                     ELSE TuneTo(x, x.radio.ch[b][n][i], Set)
    IN  AndThen(Settle(s), Go)

CurCh(r) == r.curCh[Data(r)][r.curBand[Data(r)]]

\* Bug: the last channel is not wrapped.
StepChannel_Unwrapped(s) ==
    LET b == Data(s.radio)
        n == s.radio.curBand[b]
    IN  IF s.radio.param = None THEN Dead(s)
        ELSE {[s EXCEPT !.radio.curCh[b][n] = CurCh(s.radio) + 1]}

\* qext_dsp_radio_next_channel, and prev_channel, which does the same.
StepChannel(s) ==
    LET Go(x) == SwitchChannel(x, (CurCh(x.radio) + 1) % MaxCh)
    IN  IF s.radio.param = None THEN Dead(s) ELSE AndThen(Settle(s), Go)

NextFreq(s) ==
    LET p == s.radio.param
        f == s.radio.freq + Step[p]
    IN  IF p = None THEN Dead(s) ELSE Tune(s, IF f > Max[p] THEN Min[p] ELSE f)

PrevFreq(s) ==
    LET p == s.radio.param
        f == s.radio.freq - Step[p]
    IN  IF p = None THEN Dead(s) ELSE Tune(s, IF f < Min[p] THEN Max[p] ELSE f)

\* The channel of the current band that holds f, the current one before the others.
FoundPreset(r, f) ==
    LET b       == Data(r)
        n       == r.curBand[b]
        holders == {c \in ChIdx : r.ch[b][n][c] = f}
    IN  IF Station(r, b, n) = f THEN Listed(r)
        ELSE IF holders = {} THEN [r EXCEPT !.preset = FALSE]
        ELSE Listed([r EXCEPT !.curCh[b][n] =
                        CHOOSE c \in holders : \A other \in holders : c <= other])

\* qext_dsp_radio_freq, step 3: band num (counted from 1) of type t gets channel c.
ChooseChannel(s, t, num, c) ==
    LET Go(x) == LET n == IF c = 0 THEN CurCh(x.radio) + 1 ELSE c
                 IN  IF n > MaxCh THEN {[x EXCEPT !.radio.preset = FALSE]}
                     ELSE IF x.radio.param = None THEN Dead(x)
                     ELSE IF num - 1 \notin BandIdx THEN {x}
                     ELSE {[x EXCEPT !.radio.curCh[t][num - 1] = n - 1]}
    IN  IF c = 255 THEN {s} ELSE AndThen(IF c = 0 THEN Settle(s) ELSE {s}, Go)

\* Band 0 or 31 stands for the number of the current one, whatever its type.
SetStation(s, t, num, c, f) ==
    LET Current  == num \in {0, 31}
        Found(r) == FoundPreset(r, f)
        Last(x)  == TuneTo(x, f, Found)
        Go(x)    == LET n          == IF Current THEN x.radio.curBand[Data(x.radio)] + 1 ELSE num
                        y          == IF n > MaxBand THEN [x EXCEPT !.radio.preset = FALSE] ELSE x
                        Channel(z) == ChooseChannel(z, t, n, c)
                    IN  AndThen(AndThen(ChangeBand(y, t, n - 1), Channel), Last)
        First(x) == AndThen(IF Current THEN Settle(x) ELSE {x}, Go)
    IN  IF t \in Band THEN AndThen(SetType(s, t), First) ELSE {s}

-----------------------------------------------------------------------------
(* Presets. *)

\* band_num of the presets: what is no number of a band stands for the current one.
PresetBandIdx(r, t, num) == IF num \in 1..30 THEN num - 1 ELSE r.curBand[t]

\* Stations one after the other from the first channel of band num, or of the first band.
WriteBand(s, t, num, stations) ==
    LET At(i, c)   == (IF num = 0 THEN i * MaxCh ELSE 0) + c + 1
        Here(i, c) == (num = 0 \/ i = PresetBandIdx(s.radio, t, num)) /\ At(i, c) <= Len(stations)
    IN  IF s.radio.param = None THEN Dead(s)
        ELSE {[s EXCEPT !.radio.ch[t] = [i \in BandIdx |-> [c \in ChIdx |->
                  IF Here(i, c) THEN stations[At(i, c)] ELSE @[i][c]]]]}

\* ch[ch_num] is one past the channel: past the last one lies curCh of the next band.
WriteChannel(s, t, i, num, f) ==
    IF s.radio.param = None THEN Dead(s)
    ELSE IF i \notin BandIdx THEN {s}
    ELSE LET c == IF num \in 1..MaxCh THEN num ELSE s.radio.curCh[t][i] + 1
         IN  IF c < MaxCh THEN {[s EXCEPT !.radio.ch[t][i][c] = f]}
             ELSE IF i + 1 \notin BandIdx THEN {s}
             ELSE IF Careful THEN {} ELSE {[s EXCEPT !.radio.curCh[t][i + 1] = f]}

ReadPresets(s) == IF s.radio.param = None THEN Dead(s) ELSE {s}

-----------------------------------------------------------------------------
(* The daemon starts and stops. *)

Zero == [type |-> None, param |-> None, preset |-> FALSE, freq |-> 0,
         curBand |-> [b \in Band |-> 0], curCh |-> [b \in Band |-> [i \in BandIdx |-> 0]],
         ch |-> [b \in Band |-> [i \in BandIdx |-> [c \in ChIdx |-> 0]]]]

\* no file, or one that a save has truncated
NoFile == [full |-> FALSE, radio |-> Zero]

\* radio.param is saved as an address.  It is that of the same table in the next process if the
\* daemon is the same program, linked at fixed addresses: its Makefile asks for no other.
Saved(r) == [full |-> TRUE, radio |-> r]

Blank(r) ==
    [r EXCEPT !.ch = [b \in Band |-> [i \in BandIdx |-> [c \in ChIdx |-> Default[b]]]],
              !.preset = (r.freq = Default[AM])]

\* Bug: without a file no band is set.
Loaded_NoBand(s, f) ==
    LET First(x) == Tune(x, Default[FM])
        Again(x) == Tune(x, x.radio.freq)
    IN  IF f.full
        THEN AndThen(AndThen(SetType([s EXCEPT !.radio = f.radio], f.radio.type), Again), Settle)
        ELSE First([s EXCEPT !.radio = Blank(@)])

\* qext_dsp_radio_load: the file overwrites radio, so that its type is there already when it is
\* set, and the driver stays where it is.
Loaded(s, f) ==
    LET First(x) == Tune(x, Default[FM])
        Again(x) == Tune(x, x.radio.freq)
    IN  IF f.full
        THEN AndThen(AndThen(SetType([s EXCEPT !.radio = f.radio], f.radio.type), Again), Settle)
        ELSE AndThen(SetType([s EXCEPT !.radio = Blank(@)], FM), First)

Init == phase = "down" /\ radio = Zero /\ drv = Off(Unset) /\ file = NoFile

Start ==
    /\ phase = "down"
    /\ phase' = "listening"
    /\ UNCHANGED <<radio, drv, file>>

\* qdsp_open
OpenDsp ==
    /\ phase = "listening"
    /\ \/ phase' = "opened" /\ drv' = [drv EXCEPT !.open = TRUE]
       \/ MayFail /\ phase' = "failed" /\ UNCHANGED drv
    /\ UNCHANGED <<radio, file>>

\* qdsp_reset: it fails before or after the tuner has had its command.
StartUp ==
    /\ phase = "opened"
    /\ \/ phase' = "started" /\ drv' \in StartedUp(drv)
       \/ /\ MayFail
          /\ phase' = "failed"
          /\ \E d \in {drv} \cup StartedUp(drv) : drv' = [d EXCEPT !.fault = TRUE]
    /\ UNCHANGED <<radio, file>>

\* What the file holds from here on is of no account until the daemon stops.
Load ==
    /\ phase = "started"
    /\ phase' = "up"
    /\ \E s \in Loaded(State(radio, drv), file) : radio' = s.radio /\ drv' = s.drv
    /\ file' = NoFile

Serving ==
    phase \in IF Early THEN {"listening", "opened", "started", "up", "failed"}
             ELSE {"up", "failed"}

\* The daemon saves and ends, or ends without.  What an earlier save has left is the radio of an
\* earlier stop.
Stop ==
    /\ phase # "down"
    /\ phase' = "down"
    /\ radio' = Zero /\ drv' = Off(drv.reg)
    /\ file' \in {NoFile, file} \cup (IF Serving THEN {Saved(radio)} ELSE {})

-----------------------------------------------------------------------------
(* The requests. *)

Here == State(radio, drv)

\* qext_dsp_ipc_radio: whatever the request, the status is logged in the end.
Serve(states) ==
    /\ Serving
    /\ \E s \in AndThen(states, Settle) :
          /\ radio' = s.radio /\ drv' = s.drv
          /\ phase' = IF s.dead THEN "dead" ELSE phase
    /\ UNCHANGED file

\* The request asks for type 0 or 1 and for a number of four bits.
ChangeRequest ==
    \/ Serve(NextBand(Here)) \/ Serve(PrevBand(Here))
    \/ \E t \in Band : Serve(SwitchBand(Here, t))
    \/ \E t \in {None, FM}, i \in -1..MaxBand : Serve(ChangeBand(Here, t, i))

ChannelRequest ==
    \/ Serve(StepChannel(Here))
    \/ \E i \in 0..MaxCh : Serve(SwitchChannel(Here, i))

\* A frequency in the request is read one byte too far, so that it may be any.
FreqRequest ==
    \/ Serve(NextFreq(Here)) \/ Serve(PrevFreq(Here))
    \/ \E f \in Asked : Serve(Tune(Here, f))

StationRequest ==
    \E q \in Stations : Serve(SetStation(Here, q.type, q.num, q.ch, q.freq))

PresetRequest ==
    \E p \in Presets :
        \/ \E n \in 1..(MaxBand * MaxCh) :
              Serve(WriteBand(Here, p.type, p.num, [k \in 1..n |-> p.freq]))
        \/ \E c \in 0..MaxCh, f \in {p.freq, radio.freq} :
              Serve(WriteChannel(Here, p.type, PresetBandIdx(radio, p.type, p.num), c, f))

\* Run modes change nothing: seek, scan and AST are not there.
StatusRequest == Serve({Here})
ModeRequest   == Serve({Here})
ReadRequest   == Serve(ReadPresets(Here))

Next == Start \/ OpenDsp \/ StartUp \/ Load \/ Stop
        \/ ChangeRequest \/ ChannelRequest \/ FreqRequest \/ StationRequest
        \/ PresetRequest \/ StatusRequest \/ ModeRequest \/ ReadRequest

Spec == Init /\ [][Next]_vars

-----------------------------------------------------------------------------
(* Properties. *)

\* The step is that of a request, or none.
Running == phase' = phase

\* Whatever is restored and whatever clients ask for, but that they leave the last preset of a band
\* alone, the bands and channels that are current lie in the arrays.
IndexesInRange ==
    \A b \in Band : radio.curBand[b] \in BandIdx /\ \A i \in BandIdx : radio.curCh[b][i] \in ChIdx

\* Once the radio is loaded, no request reads through a null param unless a transfer has failed
\* since the start.
DeathNeedsFault == [][phase = "up" /\ phase' = "dead" => drv'.fault]_vars

\* Unless a transfer has failed, the DSP's mode and mixer are both those of the band that the
\* driver believes it is on, or both as the start-up left them, which is what a restart from a saved
\* file leaves until a client changes the band; and the tuner is tuned and not only loaded.
ReceiverFits ==
    phase = "up" /\ ~drv.fault =>
        drv.mode = drv.mix /\ drv.mode \in {drv.band, "reset"} /\ drv.reg.mode = "preset"

\* In a request the type that clients are told changes exactly with the band of the driver, and
\* to the same.
TypeFollowsBand ==
    [][Running =>
        /\ radio'.type # radio.type => drv'.band = radio'.type
        /\ drv'.band # drv.band => radio'.type = drv'.band]_vars

\* In a request the frequency that clients are told changes only to one that the tuner has been
\* sent last.
FreqIsTuned ==
    [][Running /\ radio'.freq # radio.freq =>
          drv'.reg = Command("preset", drv'.band, radio'.freq)]_vars

\* A change of the type that succeeds leaves the tuner on the band of that type.
SwitchIsTuned ==
    [][Running /\ radio'.type # radio.type => drv'.reg.band = radio'.type]_vars

=============================================================================
