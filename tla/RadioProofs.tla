---------------------------- MODULE RadioProofs -----------------------------
(***************************************************************************)
(* What DspRadio keeps true for any bands, channels, limits and requests,  *)
(* whichever transfers fail.  First what a call of the driver makes of its *)
(* state; then what every handler of the extension makes of the daemon;    *)
(* then the requests.                                                      *)
(***************************************************************************)
EXTENDS DspRadio, WellFoundedInduction, TLAPS

-----------------------------------------------------------------------------
(* The driver. *)

DrvRecord == [open : BOOLEAN, band : Band, freq : [Band -> Freq], mode : Band \cup {"reset"},
              mix : Band \cup {"reset"}, reg : Register, fill : Register, fault : BOOLEAN]

OutcomeRecord == [ok : BOOLEAN, drv : DrvRecord]

\* The constants have the types that the records need.
LEMMA Limits ==
    /\ FM \in Band /\ AM \in Band /\ FM # AM /\ None \notin Band /\ Type = Band \cup {None}
    /\ \A b \in Band : Default[b] \in Freq /\ Min[b] \in Nat /\ Max[b] \in Nat
    /\ \A b \in Band : Min[b]..Max[b] \subseteq Freq
    /\ Freq \subseteq Nat
BY RadioDriverAssumption, DspRadioAssumption DEF Freq, Band, FM, AM, None, Type

\* A command has a code whatever the frequency.
LEMMA CommandType ==
    ASSUME NEW mode \in {"buffer", "load", "preset"}, NEW b \in Band, NEW f \in Nat
    PROVE  /\ Command(mode, b, f) \in Register
           /\ Command(mode, b, f).mode = mode /\ Command(mode, b, f).band = b
<1>1. \A n \in Nat, g \in Nat \ {0} : n \div g \in Nat
  BY Z3
<1>2. Code(b, f) \in Nat
  BY <1>1, RadioDriverAssumption DEF Code
<1>. HIDE DEF Code
<1>. QED
  BY <1>2 DEF Command, Register

\* Nothing is filled in between two calls.
LEMMA UnsetType == Unset \in Register
BY CommandType, Limits DEF Unset

\* A transfer writes new, or fails and says so.
LEMMA WriteFacts ==
    ASSUME NEW d \in DrvRecord, NEW new \in DrvRecord, NEW o \in Write(d, new),
           new.fault <=> d.fault
    PROVE  /\ o \in OutcomeRecord
           /\ o.ok => o.drv = new
           /\ ~o.ok => o.drv = [d EXCEPT !.fault = TRUE]
           /\ o.drv.fault <=> d.fault \/ ~o.ok
<1>1. o = Outcome(TRUE, new) \/ o = Outcome(FALSE, [d EXCEPT !.fault = TRUE])
  BY DEF Write
<1>2. [d EXCEPT !.fault = TRUE] \in DrvRecord /\ [d EXCEPT !.fault = TRUE].fault
  BY DEF DrvRecord
<1>3. CASE o = Outcome(TRUE, new)
  BY <1>3 DEF Outcome, OutcomeRecord
<1>4. CASE o = Outcome(FALSE, [d EXCEPT !.fault = TRUE])
  BY <1>2, <1>4 DEF Outcome, OutcomeRecord
<1>. QED
  BY <1>1, <1>3, <1>4

\* What is filled in is sent, and nothing else of the state changes.
LEMMA CommitFacts ==
    ASSUME NEW d \in DrvRecord, NEW o \in Commit(d)
    PROVE  /\ o \in OutcomeRecord
           /\ o.drv.open = d.open
           /\ o.drv.band = d.band /\ o.drv.freq = d.freq /\ o.drv.mode = d.mode
           /\ o.drv.mix = d.mix /\ o.drv.fill = d.fill
           /\ o.drv.reg = IF o.ok THEN d.fill ELSE d.reg
           /\ o.drv.fault <=> d.fault \/ ~o.ok
<1>. DEFINE new == [d EXCEPT !.reg = d.fill]
<1>1. /\ new \in DrvRecord /\ (new.fault <=> d.fault) /\ new.open = d.open
      /\ new.band = d.band /\ new.freq = d.freq /\ new.mode = d.mode
      /\ new.mix = d.mix /\ new.fill = d.fill /\ new.reg = d.fill
  BY DEF DrvRecord
<1>2. LET e == [d EXCEPT !.fault = TRUE]
      IN  /\ e.open = d.open /\ e.band = d.band /\ e.freq = d.freq /\ e.mode = d.mode
          /\ e.mix = d.mix /\ e.fill = d.fill /\ e.reg = d.reg
  BY DEF DrvRecord
<1>3. o \in Write(d, new)
  BY DEF Commit
<1>. HIDE DEF new
<1>4. /\ o \in OutcomeRecord
      /\ o.ok => o.drv = new
      /\ ~o.ok => o.drv = [d EXCEPT !.fault = TRUE]
      /\ o.drv.fault <=> d.fault \/ ~o.ok
  BY <1>1, <1>3, WriteFacts
<1>. QED
  BY <1>1, <1>2, <1>4

\* A command that is filled in and sent.
LEMMA SetParamFacts ==
    ASSUME NEW d \in DrvRecord, NEW mode \in {"buffer", "load", "preset"}, NEW b \in Band,
           NEW f \in Nat, NEW o \in SetParam(d, mode, b, f)
    PROVE  /\ o \in OutcomeRecord
           /\ o.drv.open = d.open
           /\ o.drv.band = d.band /\ o.drv.freq = d.freq /\ o.drv.mode = d.mode
           /\ o.drv.mix = d.mix
           /\ o.drv.reg = IF o.ok THEN Command(mode, b, f) ELSE d.reg
           /\ o.drv.fault <=> d.fault \/ ~o.ok
<1>. DEFINE c == Command(mode, b, f)
            e == [d EXCEPT !.fill = c]
<1>1. c \in Register
  BY CommandType
<1>2. o \in Commit(e)
  BY DEF SetParam
<1>. HIDE DEF c
<1>3. /\ e \in DrvRecord /\ (e.fault <=> d.fault) /\ e.fill = c /\ e.reg = d.reg
      /\ e.open = d.open
      /\ e.band = d.band /\ e.freq = d.freq /\ e.mode = d.mode /\ e.mix = d.mix
  BY <1>1 DEF DrvRecord
<1>. HIDE DEF e
<1>. QED
  BY <1>2, <1>3, CommitFacts DEF c

\* A call leaves the command as it was before the next one.
LEMMA ReturnedFacts ==
    ASSUME NEW o \in OutcomeRecord
    PROVE  /\ Returned(o) \in OutcomeRecord
           /\ Returned(o).ok = o.ok /\ Returned(o).drv.fill = Unset
           /\ Returned(o).drv.band = o.drv.band /\ Returned(o).drv.freq = o.drv.freq
           /\ Returned(o).drv.mode = o.drv.mode /\ Returned(o).drv.mix = o.drv.mix
           /\ Returned(o).drv.reg = o.drv.reg /\ Returned(o).drv.open = o.drv.open
           /\ Returned(o).drv.fault = o.drv.fault
<1>1. Returned(o) = [o EXCEPT !.drv = [o.drv EXCEPT !.fill = Unset]]
  BY DEF Returned
<1>. DEFINE e == [o.drv EXCEPT !.fill = Unset]
<1>2. o.drv \in DrvRecord
  BY DEF OutcomeRecord
<1>3. /\ e \in DrvRecord /\ e.fill = Unset /\ e.reg = o.drv.reg /\ e.fault = o.drv.fault
      /\ e.open = o.drv.open
      /\ e.band = o.drv.band /\ e.freq = o.drv.freq /\ e.mode = o.drv.mode /\ e.mix = o.drv.mix
  BY <1>2, UnsetType DEF DrvRecord
<1>4. Returned(o) = [o EXCEPT !.drv = e]
  BY <1>1
<1>. HIDE DEF e
<1>5. Returned(o) \in OutcomeRecord /\ Returned(o).ok = o.ok /\ Returned(o).drv = e
  BY <1>3, <1>4 DEF OutcomeRecord
<1>. QED
  BY <1>3, <1>5

\* A frequency is remembered when the tuner has taken it: then the register holds it.
LEMMA TunedFacts ==
    ASSUME NEW d \in DrvRecord, NEW f \in Freq, NEW o \in Tuned(d, f)
    PROVE  /\ o \in OutcomeRecord
           /\ o.drv.band = d.band /\ o.drv.mode = d.mode /\ o.drv.mix = d.mix
           /\ o.drv.open = d.open
           /\ d.fault => o.drv.fault
           /\ o.ok => o.drv.reg = Command("preset", d.band, f)
           /\ ~o.ok => o.drv.reg = d.reg
<1>1. CASE d.freq[d.band] = f
  <2>1. o = Outcome(FALSE, d)
    BY <1>1 DEF Tuned
  <2>. QED
    BY <2>1 DEF Outcome, OutcomeRecord
<1>2. CASE d.freq[d.band] # f
  <2>1. PICK q \in SetParam(d, "preset", d.band, f) :
           o = IF q.ok THEN [q EXCEPT !.drv.freq[d.band] = f] ELSE q
    BY <1>2 DEF Tuned
  <2>2. f \in Nat /\ d.band \in Band
    BY Limits DEF DrvRecord
  <2>3. /\ q \in OutcomeRecord
        /\ q.drv.band = d.band /\ q.drv.freq = d.freq /\ q.drv.mode = d.mode
        /\ q.drv.mix = d.mix /\ q.drv.open = d.open
        /\ q.drv.reg = IF q.ok THEN Command("preset", d.band, f) ELSE d.reg
        /\ q.drv.fault <=> d.fault \/ ~q.ok
    BY <2>2, SetParamFacts
  <2>4. CASE ~q.ok
    BY <2>1, <2>3, <2>4
  <2>5. CASE q.ok
    <3>. DEFINE e == [q.drv EXCEPT !.freq = [q.drv.freq EXCEPT ![d.band] = f]]
    <3>1. o = [q EXCEPT !.drv = e]
      BY <2>1, <2>5
    <3>2. q.drv \in DrvRecord
      BY <2>3 DEF OutcomeRecord
    <3>3. [q.drv.freq EXCEPT ![d.band] = f] \in [Band -> Freq]
      BY <3>2, <2>2 DEF DrvRecord
    <3>4. /\ e \in DrvRecord /\ e.reg = q.drv.reg /\ e.fault = q.drv.fault
          /\ e.band = q.drv.band /\ e.mode = q.drv.mode /\ e.mix = q.drv.mix
          /\ e.open = q.drv.open
      BY <3>2, <3>3 DEF DrvRecord
    <3>. HIDE DEF e
    <3>5. o \in OutcomeRecord /\ o.ok = q.ok /\ o.drv = e
      BY <3>1, <3>4, <2>3 DEF OutcomeRecord
    <3>. QED
      BY <3>4, <3>5, <2>3, <2>5
  <2>. QED
    BY <2>3, <2>4, <2>5 DEF OutcomeRecord
<1>. QED
  BY <1>1, <1>2

\* qdsp_radio_set_freq
LEMMA SetFreqFacts ==
    ASSUME NEW d \in DrvRecord, d.fill = Unset, NEW f \in Freq, NEW o \in SetFreq(d, f)
    PROVE  /\ o \in OutcomeRecord /\ o.drv.fill = Unset
           /\ o.drv.band = d.band /\ o.drv.mode = d.mode /\ o.drv.mix = d.mix
           /\ o.drv.open = d.open
           /\ d.fault => o.drv.fault
           /\ o.ok => o.drv.reg = Command("preset", d.band, f)
           /\ ~o.ok => o.drv.reg = d.reg
<1>1. CASE d.open
  <2>1. PICK q \in Tuned(d, f) : o = Returned(q)
    BY <1>1 DEF SetFreq, IfOpen
  <2>. QED
    BY <2>1, TunedFacts, ReturnedFacts
<1>2. CASE ~d.open
  <2>1. o = Outcome(FALSE, d)
    BY <1>2 DEF SetFreq, IfOpen, Tuned
  <2>. QED
    BY <2>1 DEF Outcome, OutcomeRecord
<1>. QED
  BY <1>1, <1>2

\* What every transfer of a change of the band keeps: a failure is a fault, and no fault is
\* forgotten; the driver believes it is on the old band.
Underway(d, o) ==
    /\ o \in OutcomeRecord
    /\ o.drv.band = d.band /\ o.drv.open = d.open
    /\ d.fault => o.drv.fault
    /\ ~o.ok => o.drv.fault

\* Registers of one band: only the transfer counts.
LEMMA SetFiltersFacts ==
    ASSUME NEW d \in DrvRecord, NEW o \in Write(d, d)
    PROVE  Underway(d, o) /\ o.drv.mode = d.mode /\ o.drv.mix = d.mix /\ o.drv.reg = d.reg
<1>1. LET e == [d EXCEPT !.fault = TRUE]
      IN  /\ e.open = d.open /\ e.band = d.band
          /\ e.mode = d.mode /\ e.mix = d.mix /\ e.reg = d.reg
  BY DEF DrvRecord
<1>. QED
  BY <1>1, WriteFacts DEF Underway

\* The mode of the DSP is that of b unless the transfer fails.
LEMMA SetModeFacts ==
    ASSUME NEW d \in DrvRecord, NEW b \in Band, NEW o \in SetMode(d, b)
    PROVE  Underway(d, o) /\ (o.drv.fault \/ o.drv.mode = b) /\ o.drv.mix = d.mix
<1>. DEFINE new == [d EXCEPT !.mode = b]
<1>1. /\ new \in DrvRecord /\ (new.fault <=> d.fault)
      /\ new.open = d.open /\ new.band = d.band /\ new.mode = b /\ new.mix = d.mix
  BY DEF DrvRecord
<1>2. LET e == [d EXCEPT !.fault = TRUE]
      IN  e.open = d.open /\ e.band = d.band /\ e.mix = d.mix
  BY DEF DrvRecord
<1>3. o \in Write(d, new)
  BY DEF SetMode
<1>. HIDE DEF new
<1>. QED
  BY <1>1, <1>2, <1>3, WriteFacts DEF Underway

\* The offsets of the mixer are those of b unless the transfer fails.
LEMMA SetMixFacts ==
    ASSUME NEW d \in DrvRecord, NEW b \in Band, NEW o \in SetMix(d, b)
    PROVE  Underway(d, o) /\ (o.drv.fault \/ o.drv.mix = b) /\ o.drv.mode = d.mode
<1>. DEFINE new == [d EXCEPT !.mix = b]
<1>1. /\ new \in DrvRecord /\ (new.fault <=> d.fault)
      /\ new.open = d.open /\ new.band = d.band /\ new.mix = b /\ new.mode = d.mode
  BY DEF DrvRecord
<1>2. LET e == [d EXCEPT !.fault = TRUE]
      IN  e.open = d.open /\ e.band = d.band /\ e.mode = d.mode
  BY DEF DrvRecord
<1>3. o \in Write(d, new)
  BY DEF SetMix
<1>. HIDE DEF new
<1>. QED
  BY <1>1, <1>2, <1>3, WriteFacts DEF Underway

\* The recall of a frequency reports no failure, which is a fault yet; it leaves the DSP alone.
LEMMA RecallFacts ==
    ASSUME NEW d \in DrvRecord, NEW b \in Band, NEW o \in Recall(d, b)
    PROVE  Underway(d, o) /\ o.drv.mode = d.mode /\ o.drv.mix = d.mix
<1>1. d.freq[b] \in Freq
  BY DEF DrvRecord
<1>2. CASE o = Outcome(TRUE, d)
  BY <1>2 DEF Outcome, OutcomeRecord, Underway
<1>3. CASE o \in Dropped(Tuned(d, d.freq[b]))
  <2>1. PICK q \in Tuned(d, d.freq[b]) : o = Outcome(TRUE, q.drv)
    BY <1>3 DEF Dropped
  <2>2. o.ok = TRUE /\ o.drv = q.drv /\ (q \in OutcomeRecord => o \in OutcomeRecord)
    BY <2>1 DEF Outcome, OutcomeRecord
  <2>. QED
    BY <1>1, <2>2, TunedFacts DEF Underway
<1>. QED
  BY <1>2, <1>3 DEF Recall

\* The alignment ends with a tuner that is tuned and not only loaded, unless a transfer fails.
LEMMA AlignFacts ==
    ASSUME NEW d \in DrvRecord, NEW b \in Band, NEW o \in Align(d, b)
    PROVE  /\ Underway(d, o) /\ o.drv.mode = d.mode /\ o.drv.mix = d.mix
           /\ o.drv.fault \/ o.drv.reg.mode = "preset"
<1>. DEFINE e == [d EXCEPT !.fill = [d.fill EXCEPT !.mode = "preset"]]
<1>1. PICK p \in Dropped(SetIfcf(d)) : IF p.ok THEN o \in Write(p.drv, p.drv) ELSE o = p
  BY DEF Align, Then, SetLevel
<1>2. PICK q \in Commit(e) : p = Outcome(TRUE, q.drv)
  BY <1>1 DEF Dropped, SetIfcf
<1>3. [d.fill EXCEPT !.mode = "preset"] \in Register
      /\ [d.fill EXCEPT !.mode = "preset"].mode = "preset"
  BY DEF DrvRecord, Register
<1>4. /\ e \in DrvRecord /\ (e.fault <=> d.fault) /\ e.fill.mode = "preset"
      /\ e.open = d.open
      /\ e.band = d.band /\ e.mode = d.mode /\ e.mix = d.mix
  BY <1>3 DEF DrvRecord
<1>. HIDE DEF e
<1>5. /\ q \in OutcomeRecord /\ q.drv \in DrvRecord
      /\ q.drv.band = d.band /\ q.drv.mode = d.mode /\ q.drv.mix = d.mix
      /\ q.drv.open = d.open
      /\ q.drv.fault \/ q.drv.reg.mode = "preset"
      /\ d.fault => q.drv.fault
  BY <1>2, <1>4, CommitFacts DEF OutcomeRecord
<1>6. p.ok = TRUE /\ p.drv = q.drv
  BY <1>2 DEF Outcome
<1>7. o \in Write(q.drv, q.drv)
  BY <1>1, <1>6
<1>. QED
  BY <1>5, <1>7, SetFiltersFacts DEF Underway

\* A change of the band that meets no fault leaves the DSP in the mode of b, with its mixer
\* offsets, and the tuner tuned; one that fails has met a fault.
LEMMA SwitchFacts ==
    ASSUME NEW d \in DrvRecord, NEW b \in Band, NEW o \in Switch(d, b)
    PROVE  /\ Underway(d, o) /\ o.drv.fill = Unset
           /\ ~o.drv.fault => o.drv.mode = b /\ o.drv.mix = b /\ o.drv.reg.mode = "preset"
<1>. DEFINE First(x)  == SetParam(x, "load", b, Default[b])
            Mode(x)   == SetMode(x, b)
            Preset(x) == SetParam(x, "preset", b, Default[b])
            Again(x)  == Recall(x, b)
            Mix(x)    == SetMix(x, b)
            Adjust(x) == Align(x, b)
            t1 == First(d)
            t2 == Then(t1, SetFilters)
            t3 == Then(t2, Mode)
            t4 == Then(t3, Preset)
            t5 == Then(t4, Again)
            t6 == Then(t5, SetLevel)
            t7 == Then(t6, Mix)
            t8 == Then(t7, Adjust)
<1>1. Switch(d, b) = {Returned(q) : q \in t8}
  BY DEF Switch
<1>2. /\ \A q \in t2 : \E p \in t1 : IF p.ok THEN q \in Write(p.drv, p.drv) ELSE q = p
      /\ \A q \in t3 : \E p \in t2 : IF p.ok THEN q \in SetMode(p.drv, b) ELSE q = p
      /\ \A q \in t4 : \E p \in t3 :
            IF p.ok THEN q \in SetParam(p.drv, "preset", b, Default[b]) ELSE q = p
      /\ \A q \in t5 : \E p \in t4 : IF p.ok THEN q \in Recall(p.drv, b) ELSE q = p
      /\ \A q \in t6 : \E p \in t5 : IF p.ok THEN q \in Write(p.drv, p.drv) ELSE q = p
      /\ \A q \in t7 : \E p \in t6 : IF p.ok THEN q \in SetMix(p.drv, b) ELSE q = p
      /\ \A q \in t8 : \E p \in t7 : IF p.ok THEN q \in Align(p.drv, b) ELSE q = p
  <2>1. \A q \in t2 : \E p \in t1 : IF p.ok THEN q \in Write(p.drv, p.drv) ELSE q = p
    <3>. HIDE DEF t1
    <3>. QED
      BY DEF Then, SetFilters
  <2>2. \A q \in t3 : \E p \in t2 : IF p.ok THEN q \in SetMode(p.drv, b) ELSE q = p
    <3>. HIDE DEF t2
    <3>. QED
      BY DEF Then
  <2>3. \A q \in t4 : \E p \in t3 :
            IF p.ok THEN q \in SetParam(p.drv, "preset", b, Default[b]) ELSE q = p
    <3>. HIDE DEF t3
    <3>. QED
      BY DEF Then
  <2>4. \A q \in t5 : \E p \in t4 : IF p.ok THEN q \in Recall(p.drv, b) ELSE q = p
    <3>. HIDE DEF t4
    <3>. QED
      BY DEF Then
  <2>5. \A q \in t6 : \E p \in t5 : IF p.ok THEN q \in Write(p.drv, p.drv) ELSE q = p
    <3>. HIDE DEF t5
    <3>. QED
      BY DEF Then, SetLevel
  <2>6. \A q \in t7 : \E p \in t6 : IF p.ok THEN q \in SetMix(p.drv, b) ELSE q = p
    <3>. HIDE DEF t6
    <3>. QED
      BY DEF Then
  <2>7. \A q \in t8 : \E p \in t7 : IF p.ok THEN q \in Align(p.drv, b) ELSE q = p
    <3>. HIDE DEF t7
    <3>. QED
      BY DEF Then
  <2>. QED
    BY <2>1, <2>2, <2>3, <2>4, <2>5, <2>6, <2>7
<1>3. \A q \in t1 : q \in SetParam(d, "load", b, Default[b])
  OBVIOUS
<1>. HIDE DEF t1, t2, t3, t4, t5, t6, t7, t8
<1>4. Default[b] \in Nat
  BY Limits
<1>5. \A q \in OutcomeRecord : q.drv \in DrvRecord
  BY DEF OutcomeRecord
<1>6. \A q \in t1 : Underway(d, q)
  BY <1>3, <1>4, SetParamFacts DEF Underway
<1>7. \A q \in t2 : Underway(d, q)
  BY <1>2, <1>5, <1>6, SetFiltersFacts DEF Underway
<1>8. \A q \in t3 : Underway(d, q) /\ (q.drv.fault \/ q.drv.mode = b)
  BY <1>2, <1>5, <1>7, SetModeFacts DEF Underway
<1>9. \A q \in t4 : Underway(d, q) /\ (q.drv.fault \/ q.drv.mode = b)
  BY <1>2, <1>4, <1>5, <1>8, SetParamFacts DEF Underway
<1>10. \A q \in t5 : Underway(d, q) /\ (q.drv.fault \/ q.drv.mode = b)
  BY <1>2, <1>5, <1>9, RecallFacts DEF Underway
<1>11. \A q \in t6 : Underway(d, q) /\ (q.drv.fault \/ q.drv.mode = b)
  BY <1>2, <1>5, <1>10, SetFiltersFacts DEF Underway
<1>12. \A q \in t7 : Underway(d, q) /\ (q.drv.fault \/ (q.drv.mode = b /\ q.drv.mix = b))
  BY <1>2, <1>5, <1>11, SetMixFacts DEF Underway
<1>13. \A q \in t8 : Underway(d, q)
          /\ (q.drv.fault \/ (q.drv.mode = b /\ q.drv.mix = b /\ q.drv.reg.mode = "preset"))
  BY <1>2, <1>5, <1>12, AlignFacts DEF Underway
<1>14. PICK q \in t8 : o = Returned(q)
  BY <1>1
<1>. QED
  BY <1>13, <1>14, ReturnedFacts DEF Underway

\* qdsp_radio_set_band: a refusal of a driver that is not open is no fault, and changes nothing.
LEMMA SetBandFacts ==
    ASSUME NEW d \in DrvRecord, d.fill = Unset, NEW b \in Band, NEW o \in SetBand(d, b)
    PROVE  /\ o \in OutcomeRecord /\ o.drv.fill = Unset
           /\ o.drv.open = d.open
           /\ o.drv.band = IF o.ok THEN b ELSE d.band
           /\ d.fault => o.drv.fault
           /\ ~d.open => ~o.ok /\ o.drv = d
           /\ d.open /\ ~o.ok => o.drv.fault
           /\ d.open /\ ~o.drv.fault =>
                 o.drv.mode = b /\ o.drv.mix = b /\ o.drv.reg.mode = "preset"
<1>1. CASE ~d.open
  <2>1. o = Outcome(FALSE, d)
    BY <1>1 DEF SetBand, IfOpen
  <2>2. o.ok = FALSE /\ o.drv = d /\ o \in OutcomeRecord
    BY <2>1 DEF Outcome, OutcomeRecord
  <2>. QED
    BY <1>1, <2>2
<1>2. CASE d.open
  <2>1. PICK q \in Switch(d, b) :
           o = IF q.ok THEN [q EXCEPT !.drv = [q.drv EXCEPT !.band = b]] ELSE q
    BY <1>2 DEF SetBand, IfOpen
  <2>2. /\ Underway(d, q) /\ q.drv.fill = Unset
        /\ ~q.drv.fault => q.drv.mode = b /\ q.drv.mix = b /\ q.drv.reg.mode = "preset"
    BY SwitchFacts
  <2>. DEFINE e == [q.drv EXCEPT !.band = b]
  <2>3. q \in OutcomeRecord /\ q.drv \in DrvRecord
    BY <2>2 DEF Underway, OutcomeRecord
  <2>4. /\ e \in DrvRecord /\ e.band = b /\ e.fill = q.drv.fill /\ e.mode = q.drv.mode
        /\ e.mix = q.drv.mix /\ e.reg = q.drv.reg /\ e.fault = q.drv.fault
        /\ e.open = q.drv.open
    BY <2>3 DEF DrvRecord
  <2>5. o = IF q.ok THEN [q EXCEPT !.drv = e] ELSE q
    BY <2>1
  <2>. HIDE DEF e
  <2>6. [q EXCEPT !.drv = e] \in OutcomeRecord /\ [q EXCEPT !.drv = e].ok = q.ok
        /\ [q EXCEPT !.drv = e].drv = e
    BY <2>3, <2>4 DEF OutcomeRecord
  <2>7. /\ o \in OutcomeRecord /\ o.drv.fill = Unset /\ o.drv.open = d.open
        /\ o.ok = q.ok /\ o.drv.fault = q.drv.fault
        /\ o.drv.mode = q.drv.mode /\ o.drv.mix = q.drv.mix /\ o.drv.reg = q.drv.reg
    BY <2>2, <2>3, <2>4, <2>5, <2>6 DEF Underway
  <2>8. o.drv.band = IF o.ok THEN b ELSE d.band
    BY <2>2, <2>3, <2>4, <2>5, <2>6 DEF Underway
  <2>9. (d.fault => q.drv.fault) /\ (~q.ok => q.drv.fault)
    BY <2>2 DEF Underway
  <2>. QED
    BY <1>2, <2>2, <2>7, <2>8, <2>9
<1>. QED
  BY <1>1, <1>2

\* The driver of a new process.
LEMMA OffFacts ==
    ASSUME NEW reg \in Register
    PROVE  Off(reg) \in DrvRecord /\ Off(reg).fill = Unset
BY UnsetType, Limits, RadioDriverAssumption DEF Off, DrvRecord

\* Without a fault, the DSP's mode and mixer are those of the driver's band, or none, and the
\* tuner is tuned.
Fits(d) ==
    ~d.fault => d.mode = d.mix /\ d.mode \in {d.band, "reset"} /\ d.reg.mode = "preset"

\* The tuner is tuned after the start-up, or a transfer has failed; the DSP is in no mode yet,
\* whatever requests have come before.
LEMMA StartedUpFacts ==
    ASSUME NEW d \in DrvRecord, NEW e \in StartedUp(d)
    PROVE  e \in DrvRecord /\ e.fill = Unset /\ e.open = d.open /\ Fits(e)
<1>. DEFINE c == [d EXCEPT !.mode = "reset", !.mix = "reset"]
<1>1. c \in DrvRecord /\ c.mode = "reset" /\ c.mix = "reset" /\ c.open = d.open
  BY DEF DrvRecord
<1>2. PICK q \in SetParam(c, "preset", FM, StartFreq) : e = Returned(q).drv
  BY DEF StartedUp
<1>. HIDE DEF c
<1>3. /\ q \in OutcomeRecord /\ q.drv.mode = "reset" /\ q.drv.mix = "reset"
      /\ q.drv.open = c.open
      /\ q.drv.fault \/ q.drv.reg = Command("preset", FM, StartFreq)
  BY <1>1, Limits, SetParamFacts, RadioDriverAssumption
<1>4. Command("preset", FM, StartFreq).mode = "preset"
  BY CommandType, Limits, RadioDriverAssumption
<1>. QED
  BY <1>1, <1>2, <1>3, <1>4, ReturnedFacts DEF OutcomeRecord, Fits

-----------------------------------------------------------------------------
(* The daemon between two steps of a handler. *)

RadioRecord == [type : Type, param : Type, preset : BOOLEAN, freq : Freq \cup {0},
                curBand : [Band -> BandIdx], curCh : [Band -> [BandIdx -> ChIdx]],
                ch : [Band -> [BandIdx -> [ChIdx -> Nat]]]]

StateRecord == [radio : RadioRecord, drv : DrvRecord, dead : BOOLEAN]

\* The parameters are those of the type.
Sound(s) ==
    /\ s \in StateRecord
    /\ s.drv.fill = Unset
    /\ s.radio.param = s.radio.type

\* Nothing has died, and there is a band to read the parameters of, unless a transfer has failed:
\* this is what a loaded radio keeps.  It holds only of a driver that is open.
Safe(s) ==
    /\ s.drv.open
    /\ s.dead => s.drv.fault
    /\ s.radio.type = None => s.drv.fault

\* How a handler may leave the daemon that it found as s: type and band change together, a new
\* frequency is the one in the tuner's register, and what is safe stays so.
Follows(s, x) ==
    /\ x.drv.open = s.drv.open
    /\ s.drv.fault => x.drv.fault
    /\ Safe(s) => Safe(x)
    /\ Fits(s.drv) => Fits(x.drv)
    /\ s.radio.type \in Band => x.radio.type \in Band
    /\ x.radio.type # s.radio.type => x.drv.band = x.radio.type
    /\ x.drv.band # s.drv.band => x.radio.type = x.drv.band
    /\ x.radio.freq # s.radio.freq =>
          /\ x.radio.type \in Band
          /\ x.drv.reg = Command("preset", x.drv.band, x.radio.freq)

\* A step that may come after the frequency has been set: it keeps what the tuner was sent, or
\* sends it anew.
Keeps(s, x) ==
    /\ Follows(s, x)
    /\ s.radio.type \in Band /\ x.radio.freq = s.radio.freq =>
          /\ x.drv.band = s.drv.band
          /\ \/ x.drv.reg = s.drv.reg
             \/ x.drv.reg = Command("preset", x.drv.band, x.radio.freq)

\* Only the tables and the preset mark of r change.
Alike(r, q) == q \in RadioRecord /\ q.type = r.type /\ q.param = r.param /\ q.freq = r.freq

\* The parts of a state, one by one.
LEMMA FieldsType ==
    ASSUME NEW s \in StateRecord
    PROVE  /\ s.radio \in RadioRecord /\ s.drv \in DrvRecord /\ s.dead \in BOOLEAN
           /\ s.radio.type \in Type /\ s.radio.param \in Type /\ s.radio.freq \in Freq \cup {0}
           /\ s.radio.freq \in Nat
<1>1. /\ s.radio \in RadioRecord /\ s.drv \in DrvRecord /\ s.dead \in BOOLEAN
  BY DEF StateRecord
<1>2. s.radio.type \in Type /\ s.radio.param \in Type /\ s.radio.freq \in Freq \cup {0}
  BY <1>1 DEF RadioRecord
<1>3. \A n \in Freq \cup {0} : n \in Nat
  BY Limits
<1>4. s.radio.freq \in Nat
  BY <1>2, <1>3
<1>. QED
  BY <1>1, <1>2, <1>4

\* A step after steps that have left the frequency alone.
LEMMA Chain ==
    ASSUME NEW s, NEW y, NEW x, Follows(s, y), y.radio.freq = s.radio.freq, Follows(y, x)
    PROVE  Follows(s, x)
BY DEF Follows

\* A step that keeps what the tuner was sent, after any others.
LEMMA ChainKeeps ==
    ASSUME NEW s, NEW y, NEW x, Follows(s, y), Keeps(y, x)
    PROVE  Follows(s, x)
BY DEF Follows, Keeps

\* Notes in the tables, the driver left alone.
LEMMA NotedFacts ==
    ASSUME NEW s, Sound(s), NEW r, Alike(s.radio, r), NEW x, x = [s EXCEPT !.radio = r]
    PROVE  /\ Sound(x) /\ Keeps(s, x)
           /\ x.drv = s.drv /\ x.radio = r
<1>1. /\ x \in StateRecord /\ x.drv = s.drv /\ x.dead = s.dead /\ x.radio = r
  BY DEF Sound, Alike, StateRecord
<1>2. Sound(x)
  BY <1>1 DEF Sound, Alike
<1>3. Keeps(s, x)
  BY <1>1 DEF Keeps, Follows, Alike, Safe
<1>. QED
  BY <1>1, <1>2, <1>3

\* A read through a null param.
LEMMA DeadFacts ==
    ASSUME NEW s, Sound(s), s.radio.param = None, NEW x \in Dead(s)
    PROVE  Sound(x) /\ Keeps(s, x) /\ x.radio = s.radio /\ x.drv = s.drv
<1>1. /\ x \in StateRecord /\ x.drv = s.drv /\ x.dead = TRUE /\ x.radio = s.radio
  BY DEF Sound, Dead, StateRecord
<1>. QED
  BY <1>1 DEF Sound, Keeps, Follows, Safe

\* qext_dsp_radio_set_type: the type changes with the band of the driver.
LEMMA SetTypeFacts ==
    ASSUME NEW s, Sound(s), NEW t \in Type, NEW x \in SetType(s, t)
    PROVE  /\ Sound(x) /\ Follows(s, x) /\ x.radio.freq = s.radio.freq
           /\ x.dead = s.dead
           /\ t \in Band /\ s.drv.open => x.radio.type = t \/ x.drv.fault
<1>1. CASE s.radio.type = t \/ t \notin Band
  BY <1>1 DEF Sound, Follows, SetType
<1>2. CASE s.radio.type # t /\ t \in Band
  <2>1. PICK o \in SetBand(s.drv, t) :
           x = IF o.ok THEN [s EXCEPT !.radio = [s.radio EXCEPT !.type = t, !.param = t],
                                      !.drv = o.drv]
                       ELSE [s EXCEPT !.drv = o.drv]
    BY <1>2 DEF SetType
  <2>2. s.radio \in RadioRecord /\ s.drv \in DrvRecord /\ s \in StateRecord
        /\ s.drv.fill = Unset
    BY FieldsType DEF Sound
  <2>. DEFINE d == o.drv
  <2>3. /\ d \in DrvRecord /\ d.fill = Unset /\ d.open = s.drv.open
        /\ d.band = IF o.ok THEN t ELSE s.drv.band
        /\ s.drv.fault => d.fault
        /\ ~s.drv.open => ~o.ok /\ d = s.drv
        /\ s.drv.open /\ ~o.ok => d.fault
        /\ s.drv.open /\ ~d.fault => d.mode = t /\ d.mix = t /\ d.reg.mode = "preset"
    BY <1>2, <2>2, SetBandFacts DEF OutcomeRecord
  <2>. DEFINE r == [s.radio EXCEPT !.type = t, !.param = t]
  <2>4. r \in RadioRecord /\ r.type = t /\ r.param = t /\ r.freq = s.radio.freq
    BY <2>2 DEF RadioRecord
  <2>5. x = IF o.ok THEN [s EXCEPT !.radio = r, !.drv = d] ELSE [s EXCEPT !.drv = d]
    BY <2>1
  <2>. HIDE DEF d, r
  <2>6. t # None
    BY <1>2, Limits
  <2>7. CASE o.ok
    <3>1. x \in StateRecord /\ x.radio = r /\ x.drv = d /\ x.dead = s.dead
      BY <2>2, <2>3, <2>4, <2>5, <2>7 DEF StateRecord
    <3>2. Fits(x.drv)
      BY <2>3, <2>7, <3>1 DEF Fits
    <3>. QED
      BY <1>2, <2>3, <2>4, <2>6, <2>7, <3>1, <3>2 DEF Sound, Follows, Safe
  <2>8. CASE ~o.ok
    <3>1. x \in StateRecord /\ x.radio = s.radio /\ x.drv = d /\ x.dead = s.dead
      BY <2>2, <2>3, <2>5, <2>8 DEF StateRecord
    <3>2. Fits(s.drv) => Fits(x.drv)
      BY <2>3, <2>8, <3>1 DEF Fits
    <3>. QED
      BY <1>2, <2>3, <2>8, <3>1, <3>2 DEF Sound, Follows, Safe
  <2>. QED
    BY <2>7, <2>8
<1>. QED
  BY <1>1, <1>2 DEF SetType

\* qext_dsp_radio_get_cur_rdata: afterwards there is a band, if the driver is open and no transfer
\* has failed.
LEMMA SettleFacts ==
    ASSUME NEW s, Sound(s), NEW x \in Settle(s)
    PROVE  /\ Sound(x) /\ Keeps(s, x) /\ x.radio.freq = s.radio.freq
           /\ s.drv.open /\ (s.dead => s.drv.fault) => Safe(x)
<1>1. CASE s.radio.type \in Band
  BY <1>1, Limits DEF Settle, Keeps, Follows, Safe
<1>2. CASE s.radio.type \notin Band
  <2>1. /\ Sound(x) /\ Follows(s, x) /\ x.radio.freq = s.radio.freq /\ x.dead = s.dead
        /\ s.drv.open => x.radio.type = FM \/ x.drv.fault
    BY <1>2, Limits, SetTypeFacts DEF Settle
  <2>. QED
    BY <1>2, <2>1, Limits DEF Keeps, Follows, Safe
<1>. QED
  BY <1>1, <1>2

\* qext_dsp_radio_set_freq with a frequency that passes; r is what its caller makes of radio.
LEMMA TunedStateFacts ==
    ASSUME NEW s, Sound(s), NEW f, InRange(s.radio, f), NEW o \in SetFreq(s.drv, f),
           NEW r \in RadioRecord, r.type = s.radio.type, r.param = s.radio.param, r.freq = f,
           NEW x, x = [s EXCEPT !.drv = o.drv, !.radio = IF o.ok THEN r ELSE s.radio]
    PROVE  Sound(x) /\ Keeps(s, x)
<1>1. s.radio \in RadioRecord /\ s.drv \in DrvRecord /\ s \in StateRecord /\ s.drv.fill = Unset
  BY FieldsType DEF Sound
<1>2. s.radio.type \in Band /\ f \in Freq /\ f \in Nat
  <2>1. s.radio.type \in Band
    BY <1>1, FieldsType, Limits DEF InRange, Sound
  <2>. QED
    BY <2>1, Limits DEF InRange, Sound
<1>. DEFINE d == o.drv
            q == IF o.ok THEN r ELSE s.radio
<1>3. /\ d \in DrvRecord /\ d.fill = Unset /\ s.drv.band \in Band
      /\ d.open = s.drv.open
      /\ d.band = s.drv.band /\ d.mode = s.drv.mode /\ d.mix = s.drv.mix
      /\ s.drv.fault => d.fault
      /\ o.ok => d.reg = Command("preset", s.drv.band, f)
      /\ ~o.ok => d.reg = s.drv.reg
  BY <1>1, <1>2, SetFreqFacts DEF OutcomeRecord, DrvRecord
<1>4. q \in RadioRecord
  BY <1>1
<1>5. x \in StateRecord /\ x.radio = q /\ x.drv = d /\ x.dead = s.dead
  <2>. HIDE DEF d, q
  <2>1. x = [s EXCEPT !.drv = d, !.radio = q]
    BY DEF d, q
  <2>. QED
    BY <1>1, <1>3, <1>4, <2>1 DEF StateRecord
<1>6. Command("preset", s.drv.band, f).mode = "preset"
  BY <1>2, <1>3, CommandType
<1>. HIDE DEF d
<1>7. CASE o.ok
  BY <1>2, <1>3, <1>5, <1>6, <1>7 DEF Sound, Safe, Fits, Keeps, Follows
<1>8. CASE ~o.ok
  BY <1>2, <1>3, <1>5, <1>8 DEF Sound, Safe, Fits, Keeps, Follows
<1>. QED
  BY <1>7, <1>8

-----------------------------------------------------------------------------
(* The tables. *)

\* The indexes are numbers, and there is a first band and a first channel.
LEMMA IdxFacts == BandIdx \subseteq Nat /\ 0 \in BandIdx /\ ChIdx \subseteq Nat /\ 0 \in ChIdx
BY DspRadioAssumption DEF BandIdx, ChIdx

\* What is current lies in the tables.
LEMMA TableFacts ==
    ASSUME NEW r \in RadioRecord
    PROVE  /\ Data(r) \in Band
           /\ \A b \in Band : r.curBand[b] \in BandIdx
           /\ \A b \in Band, i \in BandIdx : r.curCh[b][i] \in ChIdx
           /\ \A b \in Band, i \in BandIdx, c \in ChIdx : r.ch[b][i][c] \in Nat
           /\ CurCh(r) \in ChIdx /\ CurCh(r) \in Nat
<1>1. Data(r) \in Band
  BY Limits DEF Data
<1>2. /\ \A b \in Band : r.curBand[b] \in BandIdx
      /\ \A b \in Band, i \in BandIdx : r.curCh[b][i] \in ChIdx
      /\ \A b \in Band, i \in BandIdx, c \in ChIdx : r.ch[b][i][c] \in Nat
  BY DEF RadioRecord
<1>3. CurCh(r) \in ChIdx
  BY <1>1, <1>2 DEF CurCh
<1>. QED
  BY <1>1, <1>2, <1>3, IdxFacts

\* Notes after notes.
LEMMA AlikeTransitive ==
    ASSUME NEW r, NEW p, NEW q, Alike(r, p), Alike(p, q)
    PROVE  Alike(r, q)
BY DEF Alike

\* The notes that handlers make.
LEMMA AlikeFacts ==
    ASSUME NEW r \in RadioRecord
    PROVE  /\ Alike(r, r)
           /\ \A v \in BOOLEAN : Alike(r, [r EXCEPT !.preset = v])
           /\ \A b \in Band, i \in BandIdx :
                 Alike(r, [r EXCEPT !.curBand = [r.curBand EXCEPT ![b] = i]])
           /\ \A b \in Band, i \in BandIdx, c \in ChIdx :
                 Alike(r, [r EXCEPT !.curCh = [r.curCh EXCEPT ![b] = [r.curCh[b] EXCEPT ![i] = c]]])
           /\ \A t \in [Band -> [BandIdx -> [ChIdx -> Nat]]] : Alike(r, [r EXCEPT !.ch = t])
<1>1. Alike(r, r)
  BY DEF Alike
<1>2. ASSUME NEW v \in BOOLEAN
      PROVE  Alike(r, [r EXCEPT !.preset = v])
  BY DEF Alike, RadioRecord
<1>3. ASSUME NEW b \in Band, NEW i \in BandIdx
      PROVE  Alike(r, [r EXCEPT !.curBand = [r.curBand EXCEPT ![b] = i]])
  <2>. DEFINE t == [r.curBand EXCEPT ![b] = i]
  <2>1. t \in [Band -> BandIdx]
    BY DEF RadioRecord
  <2>. HIDE DEF t
  <2>. QED
    BY <2>1 DEF Alike, RadioRecord
<1>4. ASSUME NEW b \in Band, NEW i \in BandIdx, NEW c \in ChIdx
      PROVE  Alike(r, [r EXCEPT !.curCh = [r.curCh EXCEPT ![b] = [r.curCh[b] EXCEPT ![i] = c]]])
  <2>. DEFINE t == [r.curCh EXCEPT ![b] = [r.curCh[b] EXCEPT ![i] = c]]
  <2>1. t \in [Band -> [BandIdx -> ChIdx]]
    BY DEF RadioRecord
  <2>. HIDE DEF t
  <2>. QED
    BY <2>1 DEF Alike, RadioRecord
<1>5. ASSUME NEW t \in [Band -> [BandIdx -> [ChIdx -> Nat]]]
      PROVE  Alike(r, [r EXCEPT !.ch = t])
  BY DEF Alike, RadioRecord
<1>. QED
  BY <1>1, <1>2, <1>3, <1>4, <1>5

\* A channel that is marked as a preset.
LEMMA ListedFacts == ASSUME NEW r \in RadioRecord PROVE Alike(r, Listed(r))
BY AlikeFacts DEF Listed

\* A set of numbers has a least one.
LEMMA Minimum ==
    ASSUME NEW S \in SUBSET Nat, S # {}
    PROVE  \E n \in S : \A m \in S : n <= m
<1>1. PICK n \in S : \A m \in S : ~(<<m, n>> \in OpToRel(<, Nat))
  BY NatLessThanWellFounded, WFMin
<1>2. \A m \in S : ~(m < n)
  BY <1>1 DEF OpToRel
<1>. QED
  BY <1>2

\* The channel that check_preset finds is one of the table.
LEMMA FoundFacts ==
    ASSUME NEW r \in RadioRecord, NEW f
    PROVE  Alike(r, FoundPreset(r, f))
<1>. DEFINE b == Data(r)
            n == r.curBand[b]
            holders == {c \in ChIdx : r.ch[b][n][c] = f}
            least == CHOOSE c \in holders : \A other \in holders : c <= other
            q == [r EXCEPT !.curCh = [r.curCh EXCEPT ![b] = [r.curCh[b] EXCEPT ![n] = least]]]
<1>1. b \in Band /\ n \in BandIdx
  BY TableFacts
<1>2. FoundPreset(r, f) = IF Station(r, b, n) = f THEN Listed(r)
                          ELSE IF holders = {} THEN [r EXCEPT !.preset = FALSE]
                          ELSE Listed(q)
  BY DEF FoundPreset
<1>3. holders # {} => least \in ChIdx
  <2>1. holders \subseteq Nat
    BY IdxFacts
  <2>2. holders # {} => \E c \in holders : \A other \in holders : c <= other
    BY <2>1, Minimum
  <2>. QED
    BY <2>2
<1>. HIDE DEF least, holders, b, n
<1>4. CASE Station(r, b, n) = f
  BY <1>2, <1>4, ListedFacts
<1>5. CASE Station(r, b, n) # f /\ holders = {}
  BY <1>2, <1>5, AlikeFacts
<1>6. CASE Station(r, b, n) # f /\ holders # {}
  <2>1. Alike(r, q)
    BY <1>1, <1>3, <1>6, AlikeFacts
  <2>. HIDE DEF q
  <2>2. q \in RadioRecord
    BY <2>1 DEF Alike
  <2>3. Alike(q, Listed(q))
    BY <2>2, ListedFacts
  <2>. QED
    BY <1>2, <1>6, <2>1, <2>3, AlikeTransitive
<1>. QED
  BY <1>4, <1>5, <1>6

-----------------------------------------------------------------------------
(* The handlers. *)

\* The end of a handler that found the daemon as s.
Ends(s, x) == Sound(x) /\ Follows(s, x)

\* That of one that may come after the frequency has been set.
EndsKept(s, x) == Sound(x) /\ Keeps(s, x)

\* The second is the stronger one.
LEMMA KeptEnds == ASSUME NEW s, NEW x, EndsKept(s, x) PROVE Ends(s, x)
BY DEF Ends, EndsKept, Keeps

\* x is s with notes in the tables.
LEMMA NotedEnds ==
    ASSUME NEW s, Sound(s), NEW r, Alike(s.radio, r), NEW x, x = [s EXCEPT !.radio = r]
    PROVE  EndsKept(s, x) /\ x.radio.freq = s.radio.freq
<1>1. Sound(x) /\ Keeps(s, x) /\ x.radio = r
  BY NotedFacts
<1>. QED
  BY <1>1 DEF EndsKept, Keeps, Alike

\* A handler that returns early.
LEMMA SameEnds == ASSUME NEW s, Sound(s) PROVE EndsKept(s, s)
BY DEF EndsKept, Keeps, Follows

\* A step that keeps what the tuner was sent, after others; and any step after one that has left
\* the frequency alone.
LEMMA ChainEnds ==
    ASSUME NEW s, NEW y, NEW x, Ends(s, y)
    PROVE  /\ EndsKept(y, x) => Ends(s, x)
           /\ y.radio.freq = s.radio.freq /\ Ends(y, x) => Ends(s, x)
BY Chain, ChainKeeps DEF Ends, EndsKept

\* Two steps that keep what the tuner was sent, the first of which has left the frequency alone,
\* and what it was sent.
LEMMA ChainKept ==
    ASSUME NEW s, NEW y, NEW x, EndsKept(s, y), EndsKept(y, x), y.radio.freq = s.radio.freq
    PROVE  EndsKept(s, x)
BY DEF EndsKept, Keeps, Follows

\* set_freq and what its caller notes in r.
LEMMA TuneEnds ==
    ASSUME NEW s, Sound(s), NEW f, NEW r, NEW x,
           InRange(s.radio, f) => Alike([s.radio EXCEPT !.freq = f], r),
           \/ x = s
           \/ /\ InRange(s.radio, f)
              /\ \E o \in SetFreq(s.drv, f) :
                    x = [s EXCEPT !.drv = o.drv, !.radio = IF o.ok THEN r ELSE s.radio]
    PROVE  EndsKept(s, x)
<1>1. CASE x = s
  BY <1>1, SameEnds
<1>2. CASE InRange(s.radio, f)
  <2>1. CASE x = s
    BY <2>1, SameEnds
  <2>2. ASSUME NEW o \in SetFreq(s.drv, f),
               x = [s EXCEPT !.drv = o.drv, !.radio = IF o.ok THEN r ELSE s.radio]
        PROVE  EndsKept(s, x)
    <3>1. s.radio \in RadioRecord /\ Sound(s)
      BY FieldsType DEF Sound
    <3>2. LET q == [s.radio EXCEPT !.freq = f]
          IN  q.type = s.radio.type /\ q.param = s.radio.param /\ q.freq = f
      BY <3>1 DEF RadioRecord
    <3>3. r \in RadioRecord /\ r.type = s.radio.type /\ r.param = s.radio.param /\ r.freq = f
      BY <1>2, <3>2 DEF Alike
    <3>4. Sound(x) /\ Keeps(s, x)
      BY <1>2, <2>2, <3>1, <3>3, TunedStateFacts
    <3>. QED
      BY <3>4 DEF EndsKept, Keeps
  <2>. QED
    BY <1>2, <2>1, <2>2
<1>. QED
  BY <1>1, <1>2

\* A frequency that passes is one of the record.
LEMMA WithFreq ==
    ASSUME NEW s, Sound(s), NEW f, InRange(s.radio, f)
    PROVE  [s.radio EXCEPT !.freq = f] \in RadioRecord
<1>1. s.radio \in RadioRecord /\ s.radio.param \in Type
  BY FieldsType DEF Sound
<1>2. f \in Freq
  BY <1>1, Limits DEF InRange
<1>. QED
  BY <1>1, <1>2 DEF RadioRecord

\* set_freq, and then the mark of a preset.
LEMMA ListedEnds ==
    ASSUME NEW s, Sound(s), NEW f, NEW x \in TuneTo(s, f, Listed)
    PROVE  EndsKept(s, x)
<1>. DEFINE r == Listed([s.radio EXCEPT !.freq = f])
<1>1. InRange(s.radio, f) => Alike([s.radio EXCEPT !.freq = f], r)
  BY WithFreq, ListedFacts
<1>2. \/ x = s
      \/ /\ InRange(s.radio, f)
         /\ \E o \in SetFreq(s.drv, f) :
               x = [s EXCEPT !.drv = o.drv, !.radio = IF o.ok THEN r ELSE s.radio]
  BY DEF TuneTo
<1>. QED
  BY <1>1, <1>2, TuneEnds

\* qext_dsp_radio_set_freq
LEMMA TuneKeeps ==
    ASSUME NEW s, Sound(s), NEW f, NEW x \in Tune(s, f)
    PROVE  EndsKept(s, x)
<1>. DEFINE r == [s.radio EXCEPT !.freq = f]
<1>1. InRange(s.radio, f) => Alike([s.radio EXCEPT !.freq = f], r)
  BY WithFreq, AlikeFacts
<1>2. \/ x = s
      \/ /\ InRange(s.radio, f)
         /\ \E o \in SetFreq(s.drv, f) :
               x = [s EXCEPT !.drv = o.drv, !.radio = IF o.ok THEN r ELSE s.radio]
  BY DEF Tune, TuneTo
<1>. QED
  BY <1>1, <1>2, TuneEnds

\* It reads through no param.
LEMMA TuneDead ==
    ASSUME NEW s, Sound(s), NEW f, NEW x \in Tune(s, f)
    PROVE  x.dead = s.dead
<1>1. s \in StateRecord
  BY DEF Sound
<1>2. x = s \/ \E d, r : x = [s EXCEPT !.drv = d, !.radio = r]
  BY DEF Tune, TuneTo
<1>. QED
  BY <1>1, <1>2 DEF StateRecord

\* qext_dsp_radio_set_type, and a radio that is given its first band, in a handler.
LEMMA SetTypeEnds ==
    ASSUME NEW s, Sound(s), NEW t \in Type, NEW x \in SetType(s, t)
    PROVE  Ends(s, x) /\ x.radio.freq = s.radio.freq
<1>1. Sound(x) /\ Follows(s, x) /\ x.radio.freq = s.radio.freq
  BY SetTypeFacts
<1>. QED
  BY <1>1 DEF Ends

\* The same of a radio that is given its first band, after which the steps may go on.
LEMMA SettleEnds ==
    ASSUME NEW s, Sound(s), NEW x \in Settle(s)
    PROVE  EndsKept(s, x) /\ Ends(s, x) /\ x.radio.freq = s.radio.freq
BY SettleFacts, KeptEnds DEF EndsKept

\* A read through param in a handler.
LEMMA DeadEnds ==
    ASSUME NEW s, Sound(s), s.radio.param = None, NEW x \in Dead(s)
    PROVE  EndsKept(s, x)
BY DeadFacts DEF EndsKept

\* The radio of a state that handlers may rely on.
LEMMA SoundFields ==
    ASSUME NEW s, Sound(s)
    PROVE  s.radio \in RadioRecord /\ s.radio.type \in Type
BY FieldsType DEF Sound

\* qext_dsp_radio_set_band: a band that is noted as current is one of the table.
LEMMA EnterBandEnds ==
    ASSUME NEW s, Sound(s), NEW i, NEW x \in EnterBand(s, i)
    PROVE  EndsKept(s, x)
<1>1. CASE s.radio.param = None
  BY <1>1, DeadEnds DEF EnterBand
<1>2. CASE s.radio.param # None /\ i \notin BandIdx
  BY <1>2, SameEnds DEF EnterBand
<1>3. CASE s.radio.param # None /\ i \in BandIdx
  <2>. DEFINE b == Data(s.radio)
              f == Station(s.radio, b, i)
  <2>1. PICK y \in TuneTo(s, f, Listed) : x = [y EXCEPT !.radio.curBand[b] = i]
    BY <1>3 DEF EnterBand
  <2>2. b \in Band
    BY SoundFields, TableFacts
  <2>3. x = [y EXCEPT !.radio = [y.radio EXCEPT !.curBand = [y.radio.curBand EXCEPT ![b] = i]]]
    BY <2>1
  <2>. HIDE DEF b, f
  <2>4. EndsKept(s, y)
    BY <2>1, ListedEnds
  <2>5. Sound(y) /\ y.radio \in RadioRecord
    BY <2>4, SoundFields DEF EndsKept
  <2>. DEFINE r == [y.radio EXCEPT !.curBand = [y.radio.curBand EXCEPT ![b] = i]]
  <2>6. Alike(y.radio, r)
    BY <1>3, <2>2, <2>5, AlikeFacts
  <2>7. x.drv = y.drv /\ x.radio = r /\ Sound(x)
    <3>1. x = [y EXCEPT !.radio = r]
      BY <2>3
    <3>. HIDE DEF r
    <3>2. EndsKept(y, x)
      BY <2>5, <2>6, <3>1, NotedEnds
    <3>. QED
      BY <2>5, <2>6, <3>1, <3>2, NotedFacts DEF EndsKept
  <2>8. x.radio.type = y.radio.type /\ x.radio.freq = y.radio.freq
    BY <2>6, <2>7 DEF Alike
  <2>9. x.dead = y.dead
    <3>1. y \in StateRecord
      BY <2>5 DEF Sound
    <3>. QED
      BY <2>3, <3>1 DEF StateRecord
  <2>. QED
    BY <2>4, <2>7, <2>8, <2>9 DEF EndsKept, Keeps, Follows, Safe
<1>. QED
  BY <1>1, <1>2, <1>3

\* The type is set, and then the band is entered if the driver has followed.
LEMMA ChangeBandEnds ==
    ASSUME NEW s, Sound(s), NEW t \in Type, NEW i, NEW x \in ChangeBand(s, t, i)
    PROVE  Ends(s, x)
<1>1. CASE x \in SetType(s, t)
  BY <1>1, SetTypeEnds
<1>2. ASSUME NEW y \in SetType(s, t), NEW z \in Settle(y),
             IF z.dead THEN x = z ELSE x \in EnterBand(z, i)
      PROVE  Ends(s, x)
  <2>1. Ends(s, y) /\ y.radio.freq = s.radio.freq /\ Sound(y)
    BY SetTypeEnds DEF Ends
  <2>2. EndsKept(y, z) /\ z.radio.freq = y.radio.freq /\ Sound(z)
    BY <2>1, SettleEnds DEF EndsKept
  <2>3. EndsKept(z, x)
    BY <1>2, <2>2, SameEnds, EnterBandEnds
  <2>4. Ends(s, z)
    BY <2>1, <2>2, ChainEnds
  <2>. QED
    BY <2>3, <2>4, ChainEnds
<1>3. \/ x \in SetType(s, t)
      \/ \E y \in SetType(s, t) : \E z \in Settle(y) :
            IF z.dead THEN x = z ELSE x \in EnterBand(z, i)
  BY DEF ChangeBand, AndThen
<1>. QED
  BY <1>1, <1>2, <1>3

\* A handler that settles first.
LEMMA SettledEnds ==
    ASSUME NEW s, Sound(s), NEW y \in Settle(s), NEW x, Sound(y) => Ends(y, x)
    PROVE  Ends(s, x)
<1>1. Ends(s, y) /\ y.radio.freq = s.radio.freq /\ Sound(y)
  BY SettleEnds DEF EndsKept
<1>. QED
  BY <1>1, ChainEnds

\* qext_dsp_radio_next_band
LEMMA NextBandEnds == ASSUME NEW s, Sound(s), NEW x \in NextBand(s) PROVE Ends(s, x)
<1>1. PICK y \in Settle(s) :
         \/ x = y
         \/ y.radio.param = None /\ x \in Dead(y)
         \/ \E t \in {y.radio.type, FM} : \E i \in {0, y.radio.curBand[Data(y.radio)] + 1} :
               x \in ChangeBand(y, t, i)
  BY DEF NextBand, AndThen
<1>2. ASSUME Sound(y)
      PROVE  Ends(y, x)
  <2>1. y.radio.type \in Type /\ FM \in Type
    BY <1>2, SoundFields, Limits
  <2>. QED
    BY <1>1, <1>2, <2>1, SameEnds, DeadEnds, KeptEnds, ChangeBandEnds
<1>. QED
  BY <1>2, SettledEnds

\* qext_dsp_radio_prev_band
LEMMA PrevBandEnds == ASSUME NEW s, Sound(s), NEW x \in PrevBand(s) PROVE Ends(s, x)
<1>1. PICK y \in Settle(s) :
         \/ x = y
         \/ \E t \in {y.radio.type, FM, AM} :
               \E i \in {MaxBand - 1, y.radio.curBand[Data(y.radio)] - 1} :
                  x \in ChangeBand(y, t, i)
  BY DEF PrevBand, AndThen
<1>2. ASSUME Sound(y)
      PROVE  Ends(y, x)
  <2>1. y.radio.type \in Type /\ FM \in Type /\ AM \in Type
    BY <1>2, SoundFields, Limits
  <2>. QED
    BY <1>1, <1>2, <2>1, SameEnds, KeptEnds, ChangeBandEnds
<1>. QED
  BY <1>2, SettledEnds

\* Channel i of the current band is noted as current, in r.
Chosen(s, i, r) ==
    LET b == Data(s.radio)
        n == s.radio.curBand[b]
    IN  Listed([r EXCEPT !.curCh = [r.curCh EXCEPT ![b] = [r.curCh[b] EXCEPT ![n] = i]]])

\* x is s tuned to channel i of the current band.
Chooses(s, i, x) ==
    LET f == s.radio.ch[Data(s.radio)][s.radio.curBand[Data(s.radio)]][i]
    IN  /\ i \in ChIdx
        /\ InRange(s.radio, f)
        /\ \E o \in SetFreq(s.drv, f) :
              x = [s EXCEPT !.drv = o.drv,
                            !.radio = IF o.ok THEN Chosen(s, i, [s.radio EXCEPT !.freq = f])
                                      ELSE s.radio]

\* qext_dsp_radio_set_channel: a channel that is noted as current is one of the table.
LEMMA ChoosesEnds ==
    ASSUME NEW s, Sound(s), NEW i, NEW x, Chooses(s, i, x)
    PROVE  EndsKept(s, x)
<1>. DEFINE b == Data(s.radio)
            n == s.radio.curBand[b]
            f == s.radio.ch[b][n][i]
            r == [s.radio EXCEPT !.freq = f]
            q == [r EXCEPT !.curCh = [r.curCh EXCEPT ![b] = [r.curCh[b] EXCEPT ![n] = i]]]
<1>1. i \in ChIdx /\ InRange(s.radio, f)
      /\ \E o \in SetFreq(s.drv, f) :
            x = [s EXCEPT !.drv = o.drv, !.radio = IF o.ok THEN Chosen(s, i, r) ELSE s.radio]
  BY DEF Chooses
<1>2. Chosen(s, i, r) = Listed(q)
  BY DEF Chosen
<1>3. r \in RadioRecord
  BY <1>1, WithFreq
<1>4. b \in Band /\ n \in BandIdx
  BY SoundFields, TableFacts
<1>5. Alike(r, Listed(q))
  <2>. HIDE DEF r, b, n
  <2>1. Alike(r, q)
    <3>1. i \in ChIdx
      BY <1>1
    <3>. QED
      BY <1>3, <1>4, <3>1, AlikeFacts
  <2>. HIDE DEF q
  <2>2. q \in RadioRecord
    BY <2>1 DEF Alike
  <2>3. Alike(q, Listed(q))
    BY <2>2, ListedFacts
  <2>. QED
    BY <2>1, <2>3, AlikeTransitive
<1>. DEFINE c == Chosen(s, i, r)
<1>6. Alike(r, c)
  BY <1>2, <1>5
<1>7. InRange(s.radio, f)
      /\ \E o \in SetFreq(s.drv, f) :
            x = [s EXCEPT !.drv = o.drv, !.radio = IF o.ok THEN c ELSE s.radio]
  BY <1>1
<1>. HIDE DEF c, f
<1>. QED
  BY <1>6, <1>7, TuneEnds

\* qext_dsp_radio_switch_channel
LEMMA SwitchChannelEnds ==
    ASSUME NEW s, Sound(s), NEW i, NEW x \in SwitchChannel(s, i)
    PROVE  Ends(s, x)
<1>1. PICK y \in Settle(s) :
         x = y \/ (y.radio.param = None /\ x \in Dead(y)) \/ Chooses(y, i, x)
  BY DEF SwitchChannel, AndThen, TuneTo, Chooses, Chosen
<1>2. ASSUME Sound(y)
      PROVE  Ends(y, x)
  BY <1>1, <1>2, SameEnds, DeadEnds, ChoosesEnds, KeptEnds
<1>. QED
  BY <1>2, SettledEnds

\* qext_dsp_radio_next_channel and prev_channel
LEMMA StepChannelEnds == ASSUME NEW s, Sound(s), NEW x \in StepChannel(s) PROVE Ends(s, x)
<1>1. CASE s.radio.param = None
  BY <1>1, DeadEnds, KeptEnds DEF StepChannel
<1>2. CASE s.radio.param # None
  <2>1. PICK y \in Settle(s) : x = y \/ \E i : x \in SwitchChannel(y, i)
    BY <1>2 DEF StepChannel, AndThen
  <2>2. ASSUME Sound(y)
        PROVE  Ends(y, x)
    BY <2>1, <2>2, SameEnds, KeptEnds, SwitchChannelEnds
  <2>. QED
    BY <2>2, SettledEnds
<1>. QED
  BY <1>1, <1>2

\* qext_dsp_radio_next_freq and prev_freq
LEMMA StepFreqEnds ==
    ASSUME NEW s, Sound(s), NEW x \in NextFreq(s) \cup PrevFreq(s)
    PROVE  Ends(s, x)
<1>1. \/ s.radio.param = None /\ x \in Dead(s)
      \/ \E f : x \in Tune(s, f)
  BY DEF NextFreq, PrevFreq
<1>. QED
  BY <1>1, DeadEnds, TuneKeeps, KeptEnds

\* Step 3 of qext_dsp_radio_freq.
LEMMA ChooseChannelEnds ==
    ASSUME NEW s, Sound(s), NEW t \in Band, NEW num \in Int, NEW c \in Nat,
           NEW x \in ChooseChannel(s, t, num, c)
    PROVE  EndsKept(s, x)
<1>1. CASE c = 255
  BY <1>1, SameEnds DEF ChooseChannel
<1>2. CASE c # 255
  <2>. DEFINE n(y) == IF c = 0 THEN CurCh(y.radio) + 1 ELSE c
              Noted(y) == [y.radio EXCEPT !.curCh =
                              [y.radio.curCh EXCEPT ![t] =
                                 [y.radio.curCh[t] EXCEPT ![num - 1] = n(y) - 1]]]
  <2>1. PICK y : /\ y \in Settle(s) \/ y = s
                 /\ \/ x = y
                    \/ x = [y EXCEPT !.radio = [y.radio EXCEPT !.preset = FALSE]]
                    \/ y.radio.param = None /\ x \in Dead(y)
                    \/ ~(n(y) > MaxCh) /\ num - 1 \in BandIdx /\ x = [y EXCEPT !.radio = Noted(y)]
    <3>. DEFINE Go(y) == IF n(y) > MaxCh THEN {[y EXCEPT !.radio.preset = FALSE]}
                         ELSE IF y.radio.param = None THEN Dead(y)
                         ELSE IF num - 1 \notin BandIdx THEN {y}
                         ELSE {[y EXCEPT !.radio.curCh[t][num - 1] = n(y) - 1]}
                first == IF c = 0 THEN Settle(s) ELSE {s}
    <3>1. x \in UNION {IF y.dead THEN {y} ELSE Go(y) : y \in first}
      BY <1>2 DEF ChooseChannel, AndThen
    <3>. HIDE DEF Go, first
    <3>2. PICK y \in first : IF y.dead THEN x = y ELSE x \in Go(y)
      BY <3>1
    <3>3. y \in Settle(s) \/ y = s
      BY <3>2 DEF first
    <3>4. x \in Go(y) =>
             \/ n(y) > MaxCh /\ x = [y EXCEPT !.radio = [y.radio EXCEPT !.preset = FALSE]]
             \/ y.radio.param = None /\ x \in Dead(y)
             \/ x = y
             \/ ~(n(y) > MaxCh) /\ num - 1 \in BandIdx /\ x = [y EXCEPT !.radio = Noted(y)]
      BY DEF Go
    <3>. QED
      BY <3>2, <3>3, <3>4
  <2>2. EndsKept(s, y) /\ y.radio.freq = s.radio.freq
    BY <2>1, SettleEnds, SameEnds
  <2>3. Sound(y) /\ y.radio \in RadioRecord
    BY <2>2, SoundFields DEF EndsKept
  <2>4. ~(n(y) > MaxCh) /\ num - 1 \in BandIdx => Alike(y.radio, Noted(y))
    <3>1. n(y) \in Nat \ {0} /\ n(y) - 1 >= 0
      BY <2>3, TableFacts
    <3>. HIDE DEF n
    <3>2. ~(n(y) > MaxCh) => n(y) - 1 \in ChIdx
      BY <3>1, DspRadioAssumption DEF ChIdx
    <3>. QED
      BY <2>3, <3>2, AlikeFacts
  <2>. HIDE DEF n, Noted
  <2>5. CASE x = y \/ (y.radio.param = None /\ x \in Dead(y))
    <3>1. EndsKept(y, x)
      BY <2>3, <2>5, SameEnds, DeadEnds
    <3>. QED
      BY <2>2, <3>1, ChainKept
  <2>6. CASE x = [y EXCEPT !.radio = [y.radio EXCEPT !.preset = FALSE]]
    <3>. DEFINE r == [y.radio EXCEPT !.preset = FALSE]
    <3>1. Alike(y.radio, r)
      BY <2>3, AlikeFacts
    <3>2. x = [y EXCEPT !.radio = r]
      BY <2>6
    <3>. HIDE DEF r
    <3>3. EndsKept(y, x)
      BY <2>3, <3>1, <3>2, NotedEnds
    <3>. QED
      BY <2>2, <3>3, ChainKept
  <2>7. CASE ~(n(y) > MaxCh) /\ num - 1 \in BandIdx /\ x = [y EXCEPT !.radio = Noted(y)]
    <3>1. Alike(y.radio, Noted(y))
      BY <2>4, <2>7
    <3>2. EndsKept(y, x)
      BY <2>3, <2>7, <3>1, NotedEnds
    <3>. QED
      BY <2>2, <3>2, ChainKept
  <2>. QED
    BY <2>1, <2>5, <2>6, <2>7
<1>. QED
  BY <1>1, <1>2

\* x is s, or s tuned to f with the channel that holds it.
Finds(s, f, x) ==
    \/ x = s
    \/ /\ InRange(s.radio, f)
       /\ \E o \in SetFreq(s.drv, f) :
             x = [s EXCEPT !.drv = o.drv,
                           !.radio = IF o.ok THEN FoundPreset([s.radio EXCEPT !.freq = f], f)
                                     ELSE s.radio]

\* The last step of qext_dsp_radio_freq: the frequency, and the channel that holds it.
LEMMA FoundEnds ==
    ASSUME NEW s, Sound(s), NEW f, NEW x, Finds(s, f, x)
    PROVE  EndsKept(s, x)
<1>. DEFINE p == [s.radio EXCEPT !.freq = f]
            r == FoundPreset(p, f)
<1>1. \/ x = s
      \/ /\ InRange(s.radio, f)
         /\ \E o \in SetFreq(s.drv, f) :
               x = [s EXCEPT !.drv = o.drv, !.radio = IF o.ok THEN r ELSE s.radio]
  BY DEF Finds
<1>2. InRange(s.radio, f) => Alike(p, r)
  <2>1. InRange(s.radio, f) => p \in RadioRecord
    BY WithFreq
  <2>. HIDE DEF p
  <2>. QED
    BY <2>1, FoundFacts
<1>. HIDE DEF r
<1>. QED
  BY <1>1, <1>2, TuneEnds

\* qext_dsp_radio_freq, whatever the type in the request is: the band is changed and then the
\* frequency, so that the steps after the change must keep what the tuner was sent.
LEMMA SetStationEnds ==
    ASSUME NEW s, Sound(s), NEW t \in Type, NEW num \in 0..31, NEW c \in 0..255, NEW f,
           NEW x \in SetStation(s, t, num, c, f)
    PROVE  Ends(s, x)
<1>1. CASE t \notin Band
  BY <1>1, SameEnds, KeptEnds DEF SetStation
<1>2. CASE t \in Band
  <2>. DEFINE Found(r) == FoundPreset(r, f)
              Last(w)  == TuneTo(w, f, Found)
              n(z) == IF num \in {0, 31} THEN z.radio.curBand[Data(z.radio)] + 1 ELSE num
              m(z) == IF n(z) > MaxBand THEN [z EXCEPT !.radio.preset = FALSE] ELSE z
              Bands(z) == ChangeBand(m(z), t, n(z) - 1)
              Channels(z, p) == ChooseChannel(p, t, n(z), c)
              Middle(z) == UNION {IF p.dead THEN {p} ELSE Channels(z, p) : p \in Bands(z)}
              Go(z) == UNION {IF q.dead THEN {q} ELSE Last(q) : q \in Middle(z)}
              First(y) == UNION {IF z.dead THEN {z} ELSE Go(z) :
                                    z \in IF num \in {0, 31} THEN Settle(y) ELSE {y}}
  <2>1. x \in UNION {IF y.dead THEN {y} ELSE First(y) : y \in SetType(s, t)}
    BY <1>2 DEF SetStation, AndThen
  <2>. HIDE DEF First
  <2>2. PICK y \in SetType(s, t) : IF y.dead THEN x = y ELSE x \in First(y)
    BY <2>1
  <2>3. Ends(s, y) /\ y.radio.freq = s.radio.freq /\ Sound(y)
    BY SetTypeEnds DEF Ends
  <2>4. ASSUME x \in First(y)
        PROVE  Ends(y, x)
    <3>. HIDE DEF Go
    <3>1. PICK z \in (IF num \in {0, 31} THEN Settle(y) ELSE {y}) :
             IF z.dead THEN x = z ELSE x \in Go(z)
      BY <2>4 DEF First
    <3>2. Ends(y, z) /\ z.radio.freq = y.radio.freq /\ Sound(z)
      BY <2>3, <3>1, SettleEnds, SameEnds, KeptEnds DEF Ends
    <3>3. ASSUME x \in Go(z)
          PROVE  Ends(z, x)
      <4>. HIDE DEF Middle, Last
      <4>1. PICK q \in Middle(z) : IF q.dead THEN x = q ELSE x \in Last(q)
        BY <3>3 DEF Go
      <4>. HIDE DEF Bands, Channels
      <4>2. PICK p \in Bands(z) : IF p.dead THEN q = p ELSE q \in Channels(z, p)
        BY DEF Middle
      <4>. HIDE DEF m, n
      <4>3. EndsKept(z, m(z)) /\ m(z).radio.freq = z.radio.freq /\ Sound(m(z))
        <5>. DEFINE r == [z.radio EXCEPT !.preset = FALSE]
        <5>1. Alike(z.radio, r)
          BY <3>2, SoundFields, AlikeFacts
        <5>2. m(z) = z \/ m(z) = [z EXCEPT !.radio = r]
          BY DEF m
        <5>. HIDE DEF r
        <5>. QED
          BY <3>2, <5>1, <5>2, SameEnds, NotedEnds DEF EndsKept
      <4>4. Ends(m(z), p) /\ Sound(p)
        BY <4>2, <4>3, ChangeBandEnds DEF Bands, Ends
      <4>5. n(z) \in Int
        <5>1. z.radio.curBand[Data(z.radio)] \in Nat
          BY <3>2, SoundFields, TableFacts, IdxFacts
        <5>. QED
          BY <5>1 DEF n
      <4>6. EndsKept(p, q) /\ Sound(q)
        BY <1>2, <4>2, <4>4, <4>5, SameEnds, ChooseChannelEnds DEF Channels, EndsKept
      <4>7. EndsKept(q, x)
        <5>1. x = q \/ x \in TuneTo(q, f, Found)
          BY <4>1 DEF Last
        <5>2. Finds(q, f, x)
          BY <5>1 DEF TuneTo, Finds
        <5>. QED
          BY <4>6, <5>2, FoundEnds
      <4>8. Ends(z, m(z))
        BY <4>3, KeptEnds
      <4>9. Ends(z, p)
        BY <4>3, <4>4, <4>8, ChainEnds
      <4>10. Ends(z, q)
        BY <4>6, <4>9, ChainEnds
      <4>. QED
        BY <4>7, <4>10, ChainEnds
    <3>4. Ends(z, x)
      BY <3>1, <3>2, <3>3, SameEnds, KeptEnds
    <3>. QED
      BY <3>2, <3>4, ChainEnds
  <2>5. Ends(y, x)
    BY <2>2, <2>3, <2>4, SameEnds, KeptEnds
  <2>. QED
    BY <2>3, <2>5, ChainEnds
<1>. QED
  BY <1>1, <1>2

\* qext_dsp_radio_preset_band
LEMMA WriteBandEnds ==
    ASSUME NEW s, Sound(s), NEW t \in Band, NEW num \in Int, NEW stations \in Seq(Nat),
           NEW x \in WriteBand(s, t, num, stations)
    PROVE  EndsKept(s, x)
<1>1. CASE s.radio.param = None
  BY <1>1, DeadEnds DEF WriteBand
<1>2. CASE s.radio.param # None
  <2>. DEFINE At(i, c)   == (IF num = 0 THEN i * MaxCh ELSE 0) + c + 1
              Meant(i, c) == /\ num = 0 \/ i = PresetBandIdx(s.radio, t, num)
                             /\ At(i, c) <= Len(stations)
              new == [i \in BandIdx |-> [c \in ChIdx |->
                         IF Meant(i, c) THEN stations[At(i, c)] ELSE s.radio.ch[t][i][c]]]
              table == [s.radio.ch EXCEPT ![t] = new]
              r == [s.radio EXCEPT !.ch = table]
  <2>1. x = [s EXCEPT !.radio = r]
    BY <1>2 DEF WriteBand
  <2>2. s.radio \in RadioRecord
    BY SoundFields
  <2>3. new \in [BandIdx -> [ChIdx -> Nat]]
    <3>1. \A n \in Nat : n * MaxCh \in Nat
      BY DspRadioAssumption, Z3
    <3>2. ASSUME NEW i \in BandIdx, NEW c \in ChIdx
          PROVE  At(i, c) \in Nat \ {0}
      <4>. DEFINE p == i * MaxCh
      <4>1. p \in Nat /\ c \in Nat
        BY <3>1, IdxFacts
      <4>. HIDE DEF p
      <4>2. (IF num = 0 THEN p ELSE 0) + c + 1 \in Nat \ {0}
        BY <4>1
      <4>. QED
        BY <4>2 DEF p
    <3>. HIDE DEF At
    <3>3. \A i \in BandIdx, c \in ChIdx : Meant(i, c) => stations[At(i, c)] \in Nat
      BY <3>2
    <3>4. \A i \in BandIdx, c \in ChIdx : s.radio.ch[t][i][c] \in Nat
      BY <2>2, TableFacts
    <3>. HIDE DEF Meant
    <3>. QED
      BY <3>3, <3>4
  <2>. HIDE DEF new
  <2>4. table \in [Band -> [BandIdx -> [ChIdx -> Nat]]]
    BY <2>2, <2>3 DEF RadioRecord
  <2>. HIDE DEF table
  <2>5. Alike(s.radio, r)
    BY <2>2, <2>4, AlikeFacts
  <2>. HIDE DEF r
  <2>. QED
    BY <2>1, <2>5, NotedEnds
<1>. QED
  BY <1>1, <1>2

\* qext_dsp_radio_preset_channel, without the write past the last channel.
LEMMA WriteChannelEnds ==
    ASSUME Careful = TRUE, NEW s, Sound(s), NEW t \in Band, NEW i, NEW num \in Nat, NEW f \in Nat,
           NEW x \in WriteChannel(s, t, i, num, f)
    PROVE  EndsKept(s, x)
<1>. DEFINE c == IF num \in 1..MaxCh THEN num ELSE s.radio.curCh[t][i] + 1
            table == [s.radio.ch EXCEPT ![t] =
                         [s.radio.ch[t] EXCEPT ![i] = [s.radio.ch[t][i] EXCEPT ![c] = f]]]
            r == [s.radio EXCEPT !.ch = table]
<1>1. \/ s.radio.param = None /\ x \in Dead(s)
      \/ x = s
      \/ i \in BandIdx /\ c < MaxCh /\ x = [s EXCEPT !.radio = r]
  BY DEF WriteChannel
<1>2. CASE i \in BandIdx /\ c < MaxCh /\ x = [s EXCEPT !.radio = r]
  <2>1. s.radio \in RadioRecord
    BY SoundFields
  <2>2. s.radio.curCh[t][i] \in Nat
    BY <1>2, <2>1, TableFacts, IdxFacts
  <2>3. c \in ChIdx
    BY <1>2, <2>2, DspRadioAssumption DEF ChIdx
  <2>. HIDE DEF c
  <2>4. table \in [Band -> [BandIdx -> [ChIdx -> Nat]]]
    BY <1>2, <2>1, <2>3 DEF RadioRecord
  <2>. HIDE DEF table
  <2>5. Alike(s.radio, r)
    BY <2>1, <2>4, AlikeFacts
  <2>. HIDE DEF r
  <2>. QED
    BY <1>2, <2>5, NotedEnds
<1>. HIDE DEF r, c
<1>. QED
  BY <1>1, <1>2, SameEnds, DeadEnds

-----------------------------------------------------------------------------
(* The daemon starts. *)

\* A radio without a file, and one whose channels are set to the defaults.
LEMMA ZeroFacts ==
    /\ Zero \in RadioRecord /\ Zero.type = None /\ Zero.param = None
    /\ \A r \in RadioRecord : Alike(r, Blank(r))
<1>1. Zero \in RadioRecord /\ Zero.type = None /\ Zero.param = None
  BY IdxFacts, Limits DEF Zero, RadioRecord
<1>2. ASSUME NEW r \in RadioRecord
      PROVE  Alike(r, Blank(r))
  <2>. DEFINE t == [b \in Band |-> [i \in BandIdx |-> [c \in ChIdx |-> Default[b]]]]
  <2>1. t \in [Band -> [BandIdx -> [ChIdx -> Nat]]]
    BY RadioDriverAssumption
  <2>. DEFINE q == [r EXCEPT !.ch = t]
              v == r.freq = Default[AM]
  <2>2. Blank(r) = [q EXCEPT !.preset = v]
    BY DEF Blank
  <2>. HIDE DEF t
  <2>3. Alike(r, q)
    BY <2>1, AlikeFacts
  <2>. HIDE DEF q
  <2>4. v \in BOOLEAN
    OBVIOUS
  <2>. HIDE DEF v
  <2>5. Alike(q, [q EXCEPT !.preset = v])
    BY <2>3, <2>4, AlikeFacts DEF Alike
  <2>. QED
    BY <2>2, <2>3, <2>5, AlikeTransitive
<1>. QED
  BY <1>1, <1>2

\* Files with a radio whose parameters are those of its type.
FileRecord == [full : BOOLEAN, radio : RadioRecord]

\* What a load makes of a driver that is open: afterwards there is a band, whatever the file holds,
\* or a transfer has failed.
LEMMA LoadedFacts ==
    ASSUME NEW s, Sound(s), s.dead = FALSE, s.drv.open, Fits(s.drv),
           NEW f \in FileRecord, f.radio.param = f.radio.type, NEW x \in Loaded(s, f)
    PROVE  Sound(x) /\ Safe(x) /\ Fits(x.drv)
<1>1. s \in StateRecord /\ s.radio \in RadioRecord
  BY FieldsType DEF Sound
<1>2. CASE ~f.full
  <2>. DEFINE r == Blank(s.radio)
              z == [s EXCEPT !.radio = r]
  <2>1. PICK y \in SetType(z, FM) : x = y \/ x \in Tune(y, Default[FM])
    BY <1>2 DEF Loaded, AndThen
  <2>2. Alike(s.radio, r)
    BY <1>1, ZeroFacts
  <2>. HIDE DEF r
  <2>3. Sound(z) /\ z.drv = s.drv /\ z.dead = FALSE
    BY <1>1, <2>2, NotedFacts DEF StateRecord
  <2>. HIDE DEF z
  <2>4. Sound(y) /\ Safe(y) /\ Fits(y.drv)
    BY <2>1, <2>3, SetTypeFacts, Limits DEF Safe, Follows
  <2>. QED
    BY <2>1, <2>4, TuneKeeps DEF EndsKept, Keeps, Follows
<1>3. CASE f.full
  <2>. DEFINE r == f.radio
              z == [s EXCEPT !.radio = r]
  <2>1. r \in RadioRecord /\ r.param = r.type
    BY DEF FileRecord
  <2>2. PICK y \in SetType(z, r.type) :
           IF y.dead THEN x = y
           ELSE \E w \in Tune(y, y.radio.freq) : IF w.dead THEN x = w ELSE x \in Settle(w)
    BY <1>3 DEF Loaded, AndThen
  <2>. HIDE DEF r
  <2>3. Sound(z) /\ z.radio = r /\ z.drv = s.drv /\ z.dead = FALSE
    BY <1>1, <2>1 DEF Sound, StateRecord
  <2>. HIDE DEF z
  <2>4. y = z
    BY <2>2, <2>3 DEF SetType
  <2>5. PICK w \in Tune(z, z.radio.freq) : IF w.dead THEN x = w ELSE x \in Settle(w)
    BY <2>2, <2>3, <2>4
  <2>6. EndsKept(z, w)
    BY <2>3, <2>5, TuneKeeps
  <2>7. w.dead = FALSE
    BY <2>3, <2>5, TuneDead
  <2>8. Sound(w) /\ w.drv.open /\ Fits(w.drv)
    BY <2>3, <2>6 DEF EndsKept, Keeps, Follows
  <2>. QED
    BY <2>5, <2>7, <2>8, SettleFacts DEF Keeps, Follows
<1>. QED
  BY <1>2, <1>3

-----------------------------------------------------------------------------
(* The requests. *)

\* Once the driver is open it stays so; the start-up leaves a DSP and a tuner that fit; and once
\* the radio is loaded it has a band or has met a fault.  What a stop leaves in the file may have
\* no band, but its parameters are those of its type.
RadioInv ==
    /\ phase \in {"down", "listening", "opened", "started", "up", "failed", "dead"}
    /\ radio \in RadioRecord /\ drv \in DrvRecord /\ drv.fill = Unset
    /\ radio.param = radio.type
    /\ file \in FileRecord /\ file.radio.param = file.radio.type
    /\ phase \in {"opened", "started"} => drv.open
    /\ phase \in {"started", "up"} => Fits(drv)
    /\ phase = "up" => drv.open /\ (radio.type = None => drv.fault)

\* What a step may do to type, band and frequency, and when it may be the last.
StepFits ==
    /\ Running =>
          /\ radio'.type # radio.type => drv'.band = radio'.type
          /\ drv'.band # drv.band => radio'.type = drv'.band
          /\ radio'.freq # radio.freq => drv'.reg = Command("preset", drv'.band, radio'.freq)
    /\ phase = "up" /\ phase' = "dead" => drv'.fault

\* The state that a handler starts from.
LEMMA HereFacts ==
    ASSUME RadioInv
    PROVE  /\ Sound(Here) /\ Here.radio = radio /\ Here.drv = drv /\ Here.dead = FALSE
           /\ phase = "up" => Safe(Here)
<1>1. Here = [radio |-> radio, drv |-> drv, dead |-> FALSE]
  BY DEF Here, State
<1>2. Here.radio = radio /\ Here.drv = drv /\ Here.dead = FALSE
  BY <1>1
<1>3. Here \in StateRecord
  BY <1>1 DEF RadioInv, StateRecord
<1>. QED
  BY <1>2, <1>3 DEF RadioInv, Sound, Safe

\* A request: it is served, and then the status is logged.
LEMMA ServeFacts ==
    ASSUME RadioInv, NEW states, Serve(states), Sound(Here) => \A y \in states : Ends(Here, y)
    PROVE  RadioInv' /\ StepFits
<1>1. /\ Sound(Here) /\ Here.radio = radio /\ Here.drv = drv /\ Here.dead = FALSE
      /\ phase = "up" => Safe(Here)
  BY HereFacts
<1>2. PICK y \in states : \E x :
         /\ IF y.dead THEN x = y ELSE x \in Settle(y)
         /\ radio' = x.radio /\ drv' = x.drv
         /\ phase' = IF x.dead THEN "dead" ELSE phase
  BY DEF Serve, AndThen
<1>3. PICK x :
         /\ IF y.dead THEN x = y ELSE x \in Settle(y)
         /\ radio' = x.radio /\ drv' = x.drv
         /\ phase' = IF x.dead THEN "dead" ELSE phase
  BY <1>2
<1>4. Ends(Here, y) /\ Sound(y)
  BY <1>1 DEF Ends
<1>5. EndsKept(y, x)
  BY <1>3, <1>4, SettleEnds, SameEnds
<1>6. Sound(x) /\ Follows(Here, x)
  BY <1>4, <1>5, ChainEnds DEF Ends
<1>7. phase # "dead" /\ file' = file
  BY DEF Serve, Serving
<1>8. x.dead \in BOOLEAN
  BY <1>6, FieldsType DEF Sound
<1>9. RadioInv'
  <2>1. radio' \in RadioRecord /\ drv' \in DrvRecord /\ drv'.fill = Unset
        /\ radio'.param = radio'.type
    BY <1>3, <1>6, FieldsType DEF Sound
  <2>2. /\ phase \in {"opened", "started"} => drv'.open
        /\ phase \in {"started", "up"} => Fits(drv')
        /\ phase = "up" => Safe(x)
    BY <1>1, <1>3, <1>6 DEF RadioInv, Follows
  <2>. QED
    BY <1>3, <1>7, <2>1, <2>2 DEF RadioInv, Safe
<1>10. StepFits
  BY <1>1, <1>3, <1>6, <1>7 DEF StepFits, Running, Follows, Safe
<1>. QED
  BY <1>9, <1>10

\* Requests that change the band.
LEMMA ChangeStep == ASSUME RadioInv, ChangeRequest PROVE RadioInv' /\ StepFits
<1>1. CASE Serve(NextBand(Here)) \/ Serve(PrevBand(Here))
  BY <1>1, NextBandEnds, PrevBandEnds, ServeFacts
<1>2. ASSUME NEW t \in Band, Serve(SwitchBand(Here, t))
      PROVE  RadioInv' /\ StepFits
  <2>1. Sound(Here) => \A y \in SwitchBand(Here, t) : Ends(Here, y)
    BY ChangeBandEnds, Limits DEF SwitchBand
  <2>. QED
    BY <1>2, <2>1, ServeFacts
<1>3. ASSUME NEW t \in {None, FM}, NEW i \in -1..MaxBand, Serve(ChangeBand(Here, t, i))
      PROVE  RadioInv' /\ StepFits
  <2>1. Sound(Here) => \A y \in ChangeBand(Here, t, i) : Ends(Here, y)
    BY ChangeBandEnds, Limits
  <2>. QED
    BY <1>3, <2>1, ServeFacts
<1>. QED
  BY <1>1, <1>2, <1>3 DEF ChangeRequest

\* Requests that change the channel.
LEMMA ChannelStep == ASSUME RadioInv, ChannelRequest PROVE RadioInv' /\ StepFits
<1>1. CASE Serve(StepChannel(Here))
  BY <1>1, StepChannelEnds, ServeFacts
<1>2. ASSUME NEW i \in 0..MaxCh, Serve(SwitchChannel(Here, i))
      PROVE  RadioInv' /\ StepFits
  BY <1>2, SwitchChannelEnds, ServeFacts
<1>. QED
  BY <1>1, <1>2 DEF ChannelRequest

\* Requests that change the frequency.
LEMMA FreqStep == ASSUME RadioInv, FreqRequest PROVE RadioInv' /\ StepFits
<1>1. CASE Serve(NextFreq(Here)) \/ Serve(PrevFreq(Here))
  BY <1>1, StepFreqEnds, ServeFacts
<1>2. ASSUME NEW f \in Asked, Serve(Tune(Here, f))
      PROVE  RadioInv' /\ StepFits
  BY <1>2, TuneKeeps, KeptEnds, ServeFacts
<1>. QED
  BY <1>1, <1>2 DEF FreqRequest

\* Requests of a station.
LEMMA StationStep == ASSUME RadioInv, StationRequest PROVE RadioInv' /\ StepFits
<1>1. PICK q \in Stations : Serve(SetStation(Here, q.type, q.num, q.ch, q.freq))
  BY DEF StationRequest
<1>2. q.type \in Type /\ q.num \in 0..31 /\ q.ch \in 0..255
  BY DspRadioAssumption
<1>3. Sound(Here) => \A y \in SetStation(Here, q.type, q.num, q.ch, q.freq) : Ends(Here, y)
  BY <1>2, SetStationEnds
<1>. QED
  BY <1>1, <1>3, ServeFacts

\* The frequency that clients are told is a number.
LEMMA FreqInNat == ASSUME RadioInv PROVE radio.freq \in Nat
BY FieldsType, HereFacts DEF Sound

\* Requests that write presets.
LEMMA PresetStep == ASSUME Careful = TRUE, RadioInv, PresetRequest PROVE RadioInv' /\ StepFits
<1>1. PICK p \in Presets :
         \/ \E n \in 1..(MaxBand * MaxCh) :
               Serve(WriteBand(Here, p.type, p.num, [k \in 1..n |-> p.freq]))
         \/ \E c \in 0..MaxCh, f \in {p.freq, radio.freq} :
               Serve(WriteChannel(Here, p.type, PresetBandIdx(radio, p.type, p.num), c, f))
  BY DEF PresetRequest
<1>2. p.type \in Band /\ p.num \in Int /\ p.freq \in Nat
  BY DspRadioAssumption
<1>3. ASSUME NEW n \in 1..(MaxBand * MaxCh),
             Serve(WriteBand(Here, p.type, p.num, [k \in 1..n |-> p.freq]))
      PROVE  RadioInv' /\ StepFits
  <2>1. \A k \in Nat, l \in Nat : k * l \in Nat
    BY Z3
  <2>2. MaxBand * MaxCh \in Nat
    BY <2>1, DspRadioAssumption
  <2>3. n \in Nat
    BY <2>2
  <2>4. [k \in 1..n |-> p.freq] \in Seq(Nat)
    BY <1>2, <2>3
  <2>5. Sound(Here) =>
           \A y \in WriteBand(Here, p.type, p.num, [k \in 1..n |-> p.freq]) : Ends(Here, y)
    BY <1>2, <2>4, WriteBandEnds, KeptEnds
  <2>. QED
    BY <1>3, <2>5, ServeFacts
<1>4. ASSUME NEW c \in 0..MaxCh, NEW f \in {p.freq, radio.freq},
             Serve(WriteChannel(Here, p.type, PresetBandIdx(radio, p.type, p.num), c, f))
      PROVE  RadioInv' /\ StepFits
  <2>. DEFINE i == PresetBandIdx(radio, p.type, p.num)
  <2>1. radio.freq \in Nat /\ c \in Nat
    BY FreqInNat, DspRadioAssumption
  <2>2. f \in Nat
    BY <1>2, <2>1
  <2>3. Serve(WriteChannel(Here, p.type, i, c, f))
    BY <1>4
  <2>. HIDE DEF i
  <2>4. Sound(Here) => \A y \in WriteChannel(Here, p.type, i, c, f) : Ends(Here, y)
    BY <1>2, <2>1, <2>2, WriteChannelEnds, KeptEnds
  <2>. QED
    BY <2>3, <2>4, ServeFacts
<1>. QED
  BY <1>1, <1>3, <1>4

\* Requests that change nothing, but for the status.
LEMMA OtherStep ==
    ASSUME RadioInv, StatusRequest \/ ModeRequest \/ ReadRequest
    PROVE  RadioInv' /\ StepFits
<1>1. Sound(Here) => \A y \in {Here} \cup ReadPresets(Here) : Ends(Here, y)
  BY SameEnds, DeadEnds, KeptEnds DEF ReadPresets
<1>. QED
  BY <1>1, ServeFacts DEF StatusRequest, ModeRequest, ReadRequest

\* Opening the device leaves the driver as it is, or open.
LEMMA OpenDspStep == ASSUME RadioInv, OpenDsp PROVE RadioInv'
<1>. DEFINE d == [drv EXCEPT !.open = TRUE]
<1>1. d \in DrvRecord /\ d.open /\ d.fill = drv.fill
  BY DEF RadioInv, DrvRecord
<1>2. \/ phase' = "opened" /\ drv' = d
      \/ phase' = "failed" /\ drv' = drv
  BY DEF OpenDsp
<1>3. radio' = radio /\ file' = file
  BY DEF OpenDsp
<1>. HIDE DEF d
<1>. QED
  BY <1>1, <1>2, <1>3 DEF RadioInv

\* The start-up leaves a DSP and a tuner that fit, or fails.
LEMMA StartUpStep == ASSUME RadioInv, StartUp PROVE RadioInv'
<1>1. drv \in DrvRecord /\ drv.open /\ drv.fill = Unset
  BY DEF RadioInv, StartUp
<1>2. radio' = radio /\ file' = file
  BY DEF StartUp
<1>3. CASE phase' = "started" /\ drv' \in StartedUp(drv)
  <2>1. drv' \in DrvRecord /\ drv'.fill = Unset /\ drv'.open /\ Fits(drv')
    BY <1>1, <1>3, StartedUpFacts
  <2>. QED
    BY <1>2, <1>3, <2>1 DEF RadioInv
<1>4. CASE phase' = "failed" /\ \E d \in {drv} \cup StartedUp(drv) : drv' = [d EXCEPT !.fault = TRUE]
  <2>1. PICK d \in {drv} \cup StartedUp(drv) : drv' = [d EXCEPT !.fault = TRUE]
    BY <1>4
  <2>2. d \in DrvRecord /\ d.fill = Unset
    BY <1>1, <2>1, StartedUpFacts
  <2>3. drv' \in DrvRecord /\ drv'.fill = Unset
    BY <2>1, <2>2 DEF DrvRecord
  <2>. QED
    BY <1>2, <1>4, <2>3 DEF RadioInv
<1>. QED
  BY <1>3, <1>4 DEF StartUp

\* Nothing has been saved.
LEMMA NoFileFacts == NoFile \in FileRecord /\ NoFile.radio.param = NoFile.radio.type
BY ZeroFacts DEF NoFile, FileRecord

\* The load, whatever the file holds and whichever transfers fail.
LEMMA LoadStep == ASSUME RadioInv, Load PROVE RadioInv'
<1>1. /\ Sound(Here) /\ Here.dead = FALSE /\ Here.drv.open /\ Fits(Here.drv)
      /\ file \in FileRecord /\ file.radio.param = file.radio.type
  BY HereFacts DEF RadioInv, Load
<1>2. PICK s \in Loaded(Here, file) : radio' = s.radio /\ drv' = s.drv
  BY DEF Load, Here
<1>3. Sound(s) /\ Safe(s) /\ Fits(s.drv)
  BY <1>1, <1>2, LoadedFacts
<1>4. s.radio \in RadioRecord /\ s.drv \in DrvRecord /\ s.drv.fill = Unset
      /\ s.radio.param = s.radio.type /\ s.dead \in BOOLEAN
  BY <1>3, FieldsType DEF Sound
<1>5. phase' = "up" /\ file' = NoFile
  BY DEF Load
<1>. QED
  BY <1>2, <1>3, <1>4, <1>5, NoFileFacts DEF RadioInv, Safe

\* A stop: the radio is saved as it is, and the next process has a new driver.
LEMMA StopStep == ASSUME RadioInv, Stop PROVE RadioInv'
<1>1. drv.reg \in Register /\ radio \in RadioRecord /\ radio.param = radio.type
  BY DEF RadioInv, DrvRecord
<1>2. phase' = "down" /\ radio' = Zero /\ drv' = Off(drv.reg)
      /\ file' \in {NoFile, file, Saved(radio)}
  BY DEF Stop
<1>3. Off(drv.reg) \in DrvRecord /\ Off(drv.reg).fill = Unset
  BY <1>1, OffFacts
<1>4. Saved(radio) \in FileRecord /\ Saved(radio).radio.param = Saved(radio).radio.type
  BY <1>1 DEF Saved, FileRecord
<1>5. file' \in FileRecord /\ file'.radio.param = file'.radio.type
  BY <1>2, <1>4, NoFileFacts DEF RadioInv
<1>. QED
  BY <1>2, <1>3, <1>5, ZeroFacts DEF RadioInv

\* The steps of the main thread are no requests.
LEMMA MainStep ==
    ASSUME RadioInv, Start \/ OpenDsp \/ StartUp \/ Load \/ Stop
    PROVE  RadioInv' /\ StepFits
<1>1. CASE Start
  BY <1>1 DEF Start, StepFits, Running, RadioInv
<1>2. CASE OpenDsp
  BY <1>2, OpenDspStep DEF OpenDsp, StepFits, Running
<1>3. CASE StartUp
  BY <1>3, StartUpStep DEF StartUp, StepFits, Running
<1>4. CASE Load
  BY <1>4, LoadStep DEF Load, StepFits, Running
<1>5. CASE Stop
  BY <1>5, StopStep DEF Stop, StepFits, Running
<1>. QED
  BY <1>1, <1>2, <1>3, <1>4, <1>5

\* Every step of the system.
LEMMA RadioStep ==
    ASSUME Careful = TRUE, RadioInv, [Next]_vars
    PROVE  RadioInv' /\ (StepFits \/ UNCHANGED vars)
<1>1. CASE UNCHANGED vars
  BY <1>1 DEF vars, RadioInv
<1>. QED
  BY <1>1, MainStep, ChangeStep, ChannelStep, FreqStep, StationStep, PresetStep, OtherStep
     DEF Next

\* A unit that has never been started.
LEMMA RadioInit == Init => RadioInv
<1>1. Off(Unset) \in DrvRecord /\ Off(Unset).fill = Unset
  BY UnsetType, OffFacts
<1>. QED
  BY <1>1, ZeroFacts, NoFileFacts DEF Init, RadioInv

\* The invariant holds from the first state on.
LEMMA RadioAlways == ASSUME Careful = TRUE PROVE Spec => []RadioInv
<1>1. RadioInv /\ [Next]_vars => RadioInv'
  BY RadioStep
<1>. QED
  BY <1>1, RadioInit, PTL DEF Spec

-----------------------------------------------------------------------------
(* What follows, for clients that do not write the last preset of a band but the last. *)

\* An image of the radio, with indexes in range or not.
LEMMA RadioType == RadioRecord \subseteq Radio
<1>1. BandIdx \subseteq Nat /\ ChIdx \subseteq Nat
  BY IdxFacts
<1>2. ASSUME NEW r \in RadioRecord
      PROVE  r.curBand \in [Band -> Nat] /\ r.curCh \in [Band -> [BandIdx -> Nat]]
  <2>1. r.curBand \in [Band -> BandIdx] /\ r.curCh \in [Band -> [BandIdx -> ChIdx]]
    BY DEF RadioRecord
  <2>. QED
    BY <1>1, <2>1
<1>. QED
  BY <1>2 DEF RadioRecord, Radio

\* The tables keep their shape, and no frequency but one of a type's limits is ever the current
\* one, nor one that the driver remembers.
THEOREM TypeAlways == ASSUME Careful = TRUE PROVE Spec => []TypeOK
<1>1. ASSUME RadioInv
      PROVE  TypeOK
  <2>1. /\ radio \in RadioRecord /\ drv \in DrvRecord /\ drv.fill = Unset
        /\ file \in FileRecord
    BY <1>1 DEF RadioInv
  <2>2. radio \in Radio /\ file \in [full : BOOLEAN, radio : Radio]
    BY <2>1, RadioType DEF FileRecord
  <2>3. drv \in [open : BOOLEAN, band : Band, freq : [Band -> Freq], mode : Band \cup {"reset"},
                 mix : Band \cup {"reset"}, reg : Register, fill : {Unset}, fault : BOOLEAN]
    BY <2>1 DEF DrvRecord
  <2>. QED
    BY <1>1, <2>2, <2>3 DEF RadioInv, TypeOK
<1>. QED
  BY <1>1, RadioAlways, PTL

\* The current band and channels lie in the tables, whatever else clients ask for, whenever they
\* do, whatever transfers fail and whatever a restart restores.
THEOREM IndexesAlwaysInRange == ASSUME Careful = TRUE PROVE Spec => []IndexesInRange
<1>1. RadioInv => IndexesInRange
  BY DEF RadioInv, IndexesInRange, RadioRecord
<1>. QED
  BY <1>1, RadioAlways, PTL

\* Once the radio is loaded, a request reads through a null param only after a transfer of this
\* process has failed, whatever requests came before the load.
THEOREM DeathAlwaysNeedsFault == ASSUME Careful = TRUE PROVE Spec => DeathNeedsFault
<1>1. RadioInv /\ [Next]_vars => [phase = "up" /\ phase' = "dead" => drv'.fault]_vars
  BY RadioStep DEF StepFits
<1>. QED
  BY <1>1, RadioAlways, RadioStep, PTL DEF Spec, DeathNeedsFault

\* Without a fault, the mode and the mixer of the DSP of a loaded radio agree and are those of the
\* band of the driver, or none, and the tuner is tuned, whatever requests came before the load.
THEOREM ReceiverAlwaysFits == ASSUME Careful = TRUE PROVE Spec => []ReceiverFits
<1>1. RadioInv => ReceiverFits
  BY DEF RadioInv, ReceiverFits, Fits
<1>. QED
  BY <1>1, RadioAlways, PTL

\* Type and band change together, and to the same: no handler changes one twice, or back, between
\* two requests, before the load or after it.
THEOREM TypeAlwaysFollows == ASSUME Careful = TRUE PROVE Spec => TypeFollowsBand
<1>1. RadioInv /\ [Next]_vars =>
        [Running =>
            /\ radio'.type # radio.type => drv'.band = radio'.type
            /\ drv'.band # drv.band => radio'.type = drv'.band]_vars
  BY RadioStep DEF StepFits
<1>. QED
  BY <1>1, RadioAlways, PTL DEF Spec, TypeFollowsBand

\* A frequency that clients are told is the one in the tuner's register when a request ends,
\* though a request may set it, change the band and find a preset for it.
THEOREM FreqAlwaysTuned == ASSUME Careful = TRUE PROVE Spec => FreqIsTuned
<1>1. RadioInv /\ [Next]_vars =>
        [Running /\ radio'.freq # radio.freq =>
            drv'.reg = Command("preset", drv'.band, radio'.freq)]_vars
  BY RadioStep DEF StepFits
<1>. QED
  BY <1>1, RadioAlways, PTL DEF Spec, FreqIsTuned

=============================================================================
