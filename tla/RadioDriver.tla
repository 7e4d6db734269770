---------------------------- MODULE RadioDriver ----------------------------
(***************************************************************************)
(* The radio driver: qDspRadio.c, saf7741_radio.c and tef7000.c.  A call   *)
(* makes of the driver's state and of the registers, d, one of a set of    *)
(* outcomes, according to which of its I2C transfers succeed.              *)
(*                                                                         *)
(* Alignment values are left out, and so are registers that belong to one  *)
(* band: of those a call shows only that the transfer may fail.            *)
(***************************************************************************)
EXTENDS Integers

CONSTANTS
    Default,    \* DEFAULT_FM_FREQ and DEFAULT_AM_FREQ
    StartFreq,  \* the FM frequency that the start-up tunes to
    Grid,       \* the FM tuning step of the TEF7000, 5 times 10 kHz
    MayFail     \* I2C transfers may fail

FM == "FM"
AM == "AM"
Band == {FM, AM}

ASSUME RadioDriverAssumption ==
    /\ Default \in [Band -> Nat] /\ StartFreq \in Nat
    /\ Grid \in Nat \ {0}
    /\ MayFail \in BOOLEAN

-----------------------------------------------------------------------------
(* The registers of the tuner and of the radio part of the DSP. *)

Outcome(ok, d) == [ok |-> ok, drv |-> d]

\* A transfer that makes the chips of d those of new.
Write(d, new) ==
    {Outcome(TRUE, new)} \cup (IF MayFail THEN {Outcome(FALSE, [d EXCEPT !.fault = TRUE])} ELSE {})

\* if(call < 0) return -1
Then(outcomes, Call(_)) ==
    UNION {IF o.ok THEN Call(o.drv) ELSE {o} : o \in outcomes}

\* The call is made and its result dropped.
Dropped(outcomes) == {Outcome(TRUE, o.drv) : o \in outcomes}

Code(b, f) == IF b = FM THEN f \div Grid ELSE f

Command(mode, b, f) == [mode |-> mode, band |-> b, code |-> Code(b, f)]

Unset == Command("buffer", AM, 0)

\* Every call fills in its command anew, so that the last one need not be kept.
Returned(o) == [o EXCEPT !.drv.fill = Unset]

\* All of what was filled in last is sent; it stays filled in when it cannot be sent.
Commit(d) == Write(d, [d EXCEPT !.reg = d.fill])

SetParam(d, mode, b, f) == Commit([d EXCEPT !.fill = Command(mode, b, f)])

SetIfcf(d) == Commit([d EXCEPT !.fill.mode = "preset"])

-----------------------------------------------------------------------------
(* The calls of the extension. *)

\* int_check_status: a call before the device is open is refused.
IfOpen(d, outcomes) == IF d.open THEN outcomes ELSE {Outcome(FALSE, d)}

\* Bug: the frequency is remembered although the tuner did not take it.
SetFreq_Remembered(d, f) ==
    IF d.freq[d.band] = f
    THEN {Outcome(FALSE, d)}
    ELSE IfOpen(d, {[Returned(Outcome(TRUE, o.drv)) EXCEPT !.drv.freq[d.band] = f]
                       : o \in SetParam(d, "preset", d.band, f)})

\* A frequency that is set already is refused.
Tuned(d, f) ==
    IF d.freq[d.band] = f
    THEN {Outcome(FALSE, d)}
    ELSE {IF o.ok THEN [o EXCEPT !.drv.freq[d.band] = f] ELSE o
             : o \in SetParam(d, "preset", d.band, f)}

SetFreq(d, f) == IfOpen(d, {Returned(o) : o \in Tuned(d, f)})

\* the filters, antenna and de-emphasis, and the level alignment of one band
SetFilters(d) == Write(d, d)
SetLevel(d)   == Write(d, d)

SetMode(d, b) == Write(d, [d EXCEPT !.mode = b])
SetMix(d, b)  == Write(d, [d EXCEPT !.mix = b])

\* The frequency of the last visit, if it is another one: d is on the old band yet.
Recall(d, b) ==
    IF d.freq[b] = Default[b] THEN {Outcome(TRUE, d)} ELSE Dropped(Tuned(d, d.freq[b]))

\* Only the last of the transfers counts.
Align(d, b) == Then(Dropped(SetIfcf(d)), SetLevel)

Switch(d, b) ==
    LET Load(x)   == SetParam(x, "load", b, Default[b])
        Mode(x)   == SetMode(x, b)
        Preset(x) == SetParam(x, "preset", b, Default[b])
        Again(x)  == Recall(x, b)
        Mix(x)    == SetMix(x, b)
        Adjust(x) == Align(x, b)
    IN  {Returned(o) : o \in Then(Then(Then(Then(Then(Then(Then(
            Load(d), SetFilters), Mode), Preset), Again), SetLevel), Mix), Adjust)}

\* Bug: the mixer keeps the offsets of the other band.
SetBand_Unmixed(d, b) ==
    IfOpen(d, {[IF o.ok THEN [o EXCEPT !.drv.band = b] ELSE o EXCEPT !.drv.mix = d.mix]
                  : o \in Switch(d, b)})

SetBand(d, b) ==
    IfOpen(d, {IF o.ok THEN [o EXCEPT !.drv.band = b] ELSE o : o \in Switch(d, b)})

\* The driver of a new process, saf7741_radioGetOps; the tuner keeps its registers.
Off(reg) == [open |-> FALSE, band |-> AM, freq |-> Default, mode |-> "reset", mix |-> "reset",
             reg |-> reg, fill |-> Unset, fault |-> FALSE]

\* saf7741_StartUp resets the DSP and then sends the tuner a command, saf7741_radioStartUpTuner,
\* whose result is dropped; the driver does not take it for a change of the band.
StartedUp(d) ==
    {Returned(o).drv :
        o \in SetParam([d EXCEPT !.mode = "reset", !.mix = "reset"], "preset", FM, StartFreq)}

=============================================================================
