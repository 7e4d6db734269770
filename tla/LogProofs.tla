----------------------------- MODULE LogProofs ------------------------------
(***************************************************************************)
(* What la_log_show_status prints is true, for every configuration.  The   *)
(* halves that show routes follow from the invariant of RoutingProofs; a   *)
(* capture that is shown has a master panel because nothing starts one     *)
(* that has none.                                                          *)
(***************************************************************************)
EXTENDS RouteLog, RoutingProofs

\* The captures of a state have a master panel to play on.
Fed(s) == \A r \in s.recording : Master[Pipe[r]] \in Card

-----------------------------------------------------------------------------
(* The operators that change what is recording. *)

\* Taking playbacks off a panel starts no capture.
LEMMA DroppedRecording ==
    ASSUME NEW s \in State, NEW c \in Card, NEW gone, NEW deaf, NEW list
    PROVE  Dropped(s, c, gone, deaf, list).recording \subseteq s.recording
<1> DEFINE onMaster == gone \cap MasteredBy(c)
           cards == [p \in Playback |->
                       IF p \in gone \ onMaster THEN Closed(s.cards[p], c) ELSE s.cards[p]]
           muted == [p \in Playback |-> p \in onMaster \/ s.muted[p]]
           mixer == [p \in Playback |-> IF p \in onMaster \ deaf THEN "0%" ELSE s.mixer[p]]
           recording == s.recording \ UNION {Feeds(p) : p \in onMaster}
           u == Undone(s, c, gone, deaf)
<1>1. u = [s EXCEPT !.cards = cards, !.muted = muted, !.mixer = mixer,
                    !.recording = recording]
  BY DEF Undone
<1>2. recording \subseteq s.recording
  OBVIOUS
<1>3. Dropped(s, c, gone, deaf, list) = [u EXCEPT !.panel[c] = list]
  BY DEF Dropped
<1> HIDE DEF u, cards, muted, mixer, recording, onMaster
<1>. QED
  BY <1>1, <1>2, <1>3 DEF State

\* A card that is cleared starts no recording.
LEMMA ClearedRecording ==
    ASSUME NEW s \in State, NEW c \in Card, NEW deaf
    PROVE  Cleared(s, c, deaf).recording \subseteq s.recording
<1> DEFINE gone == {p \in Playback : Listed(s, c, p)}
<1>1. Cleared(s, c, deaf) = Dropped(s, c, gone, deaf, <<>>)
  BY DEF Cleared, Dropped
<1>. QED
  BY <1>1, DroppedRecording

\* A playback that is removed from a card starts no recording.
LEMMA RemovedRecording ==
    ASSUME NEW s, Good(s), NEW c \in Card, NEW p \in Playback, NEW deaf, Listed(s, c, p)
    PROVE  Removed(s, c, p, deaf).recording \subseteq s.recording
<1> DEFINE list == Shifted(s.panel[c], FirstIndex(s.panel[c], p))
<1>1. s \in State /\ p \in Elements(s.panel[c])
  BY ListedIsElement DEF Good
<1>2. (Undone(s, c, {p}, deaf)).panel = s.panel
  BY <1>1, UndoneFacts
<1>3. Removed(s, c, p, deaf) = Dropped(s, c, {p}, deaf, list)
  BY <1>2 DEF Removed, Dropped
<1>. QED
  BY <1>1, <1>3, DroppedRecording

\* An append starts captures that feed a playback of the panel, its master panel.
LEMMA AppendedFed ==
    ASSUME NEW s, Good(s), Fed(s), NEW c \in Card, NEW p \in Playback,
           NEW t \in Appended(s, c, p)
    PROVE  Fed(t)
<1>1. CASE t = s
  BY <1>1
<1>2. CASE t.recording = s.recording \cup (IF Master[p] = c THEN Feeds(p) ELSE {})
  <2>1. \A r \in Feeds(p) : Pipe[r] = p
    BY DEF Feeds
  <2>. QED
    BY <1>2, <2>1 DEF Fed
<1>. QED
  BY <1>1, <1>2, AppendedFeeds

-----------------------------------------------------------------------------
RecordingIsFed == Fed(la)

\* No capture records without a master panel.
LEMMA RecordingFed == Spec => []RecordingIsFed
<1>1. Init => RecordingIsFed
  BY DEF Init, Fed, RecordingIsFed
<1>2. ASSUME Invariant, Fed(la), [Next]_la
      PROVE  Fed(la')
  <2>0. Good(la) /\ la \in State
    BY <1>2 DEF Invariant, Good
  <2>1. ASSUME NEW c \in Card, NEW p \in Playback, AppendPcm(c, p)
        PROVE  Fed(la')
    BY <1>2, <2>0, <2>1, AppendedFed DEF AppendPcm
  <2>2. ASSUME NEW c \in Card, NEW deaf
        PROVE  Good(Cleared(la, c, deaf)) /\ Fed(Cleared(la, c, deaf))
    <3>1. Cleared(la, c, deaf).recording \subseteq la.recording
      BY <2>0, ClearedRecording
    <3>. QED
      BY <1>2, <2>0, <3>1, ClearStep DEF Fed
  <2>3. ASSUME NEW c \in Card, ClearPcm(c)
        PROVE  Fed(la')
    BY <2>2, <2>3 DEF ClearPcm
  <2>4. ASSUME NEW c \in Card, NEW p \in Playback, SetPcm(c, p)
        PROVE  Fed(la')
    BY <2>2, <2>4, AppendedFed DEF SetPcm
  <2>5. ASSUME NEW c \in Card, NEW p \in Playback, RemovePcm(c, p)
        PROVE  Fed(la')
    <3>1. PICK deaf : Listed(la, c, p) /\ la' = Removed(la, c, p, deaf)
      BY <2>5 DEF RemovePcm
    <3>2. la'.recording \subseteq la.recording
      BY <2>0, <3>1, RemovedRecording
    <3>. QED
      BY <1>2, <3>2 DEF Fed
  <2>6. ASSUME NEW r \in Capture, StartRecord(r)
        PROVE  Fed(la')
    BY <1>2, <2>0, <2>6 DEF StartRecord, CanStart, Fed, State
  <2>7. ASSUME NEW r \in Capture, StopRecord(r)
        PROVE  Fed(la')
    BY <1>2, <2>0, <2>7 DEF StopRecord, Fed, State
  <2>8. CASE UNCHANGED la
    BY <1>2, <2>8
  <2>. QED
    BY <1>2, <2>1, <2>3, <2>4, <2>5, <2>6, <2>7, <2>8 DEF Next
<1>3. Invariant /\ RecordingIsFed /\ [Next]_la => RecordingIsFed'
  BY <1>2 DEF RecordingIsFed
<1>. QED
  BY <1>1, <1>3, Inductive, PTL DEF Spec

\* Both halves of the printed status show the same routes, once each, and name configured
\* panels only.
THEOREM LogAlwaysTrue == Spec => []LogIsTrue
<1>1. ASSUME Invariant, Fed(la)
      PROVE  LogIsTrue
  <2>1. Good(la) /\ la \in State
    BY <1>1 DEF Invariant, Good
  <2>2. ASSUME NEW c \in Card
        PROVE  Elements(ShownPlaybacks(c)) = Elements(la.panel[c])
    <3>. DEFINE s == la.panel[c]
    <3>1. s \in Seq(Playback)
      BY <2>1 DEF State
    <3>2. CASE s = <<>>
      BY <3>2 DEF ShownPlaybacks
    <3>3. CASE s # <<>>
      <4>1. <<s[1]>> \o SubSeq(s, 2, Len(s)) = s
        BY <3>1, <3>3
      <4>. QED
        BY <3>3, <4>1 DEF ShownPlaybacks, From
    <3>. QED
      BY <3>2, <3>3
  <2>3. ASSUME NEW p \in Probed
        PROVE  /\ Distinct(ShownCards(p))
               /\ Elements(ShownCards(p)) =
                     Elements(la.cards[p]) \cup (IF la.muted[p] THEN {} ELSE {Master[p]})
    <3>. DEFINE s == la.cards[p]
    <3>1. p \in Playback /\ s \in Seq(Card) /\ Distinct(s)
      BY <2>1, RoutingAssumption DEF Good, State
    <3>2. CASE ~la.muted[p]
      <4>1. Master[p] \in Card /\ Master[p] \notin Elements(s)
        BY <2>1, <3>1, <3>2 DEF Good, Audible, Agree
      <4>2. ShownCards(p) = <<Master[p]>> \o s
        BY <3>2 DEF ShownCards
      <4>. DEFINE t == <<Master[p]>> \o s
      <4>3. Len(t) = Len(s) + 1 /\ t[1] = Master[p] /\ \A i \in 1..Len(s) : t[i + 1] = s[i]
        BY <3>1, <4>1
      <4>4. \A j \in 1..Len(t) : j = 1 \/ (j - 1 \in 1..Len(s) /\ t[j] = s[j - 1])
        BY <3>1, <4>1, <4>3
      <4>. HIDE DEF t
      <4>5. Elements(t) = Elements(s) \cup {Master[p]}
        <5>1. Elements(t) \subseteq Elements(s) \cup {Master[p]}
          <6>1. ASSUME NEW j \in 1..Len(t)
                PROVE  t[j] \in Elements(s) \cup {Master[p]}
            <7>1. CASE j = 1
              BY <4>3, <7>1
            <7>2. CASE j # 1
              <8>1. j - 1 \in 1..Len(s) /\ t[j] = s[j - 1]
                BY <4>4, <7>2
              <8>. QED
                BY <8>1 DEF Elements
            <7>. QED
              BY <7>1, <7>2
          <6>. QED
            BY <6>1 DEF Elements
        <5>2. Len(s) \in Nat
          BY <3>1
        <5>3. 1 \in 1..Len(t) /\ \A i \in 1..Len(s) : i + 1 \in 1..Len(t)
          BY <4>3, <5>2
        <5>4. Elements(s) \subseteq Elements(t)
          BY <4>3, <5>3 DEF Elements
        <5>5. Master[p] \in Elements(t)
          BY <4>3, <5>3 DEF Elements
        <5>. QED
          BY <5>1, <5>4, <5>5
      <4>6. Distinct(t)
        <5>1. ASSUME NEW i \in 1..Len(t), NEW j \in 1..Len(t), t[i] = t[j]
              PROVE  i = j
          <6>1. \A k \in 1..Len(s) : s[k] # Master[p]
            BY <4>1 DEF Elements
          <6>2. CASE i = 1 \/ j = 1
            BY <4>3, <4>4, <5>1, <6>1, <6>2
          <6>3. CASE i # 1 /\ j # 1
            <7>1. i - 1 = j - 1
              BY <3>1, <4>4, <5>1, <6>3 DEF Distinct
            <7>. QED
              BY <7>1
          <6>. QED
            BY <6>2, <6>3
        <5>. QED
          BY <5>1 DEF Distinct
      <4>. QED
        BY <3>2, <4>2, <4>5, <4>6 DEF t
    <3>3. CASE la.muted[p]
      <4>1. CASE s = <<>>
        BY <3>1, <3>3, <4>1 DEF ShownCards
      <4>2. CASE s # <<>>
        <5>1. <<s[1]>> \o SubSeq(s, 2, Len(s)) = s
          BY <3>1, <4>2
        <5>2. ShownCards(p) = s
          BY <3>3, <4>2, <5>1 DEF ShownCards, From
        <5>. QED
          BY <3>1, <3>3, <5>2
      <4>. QED
        BY <4>1, <4>2
    <3>. QED
      BY <3>2, <3>3
  <2>4. ASSUME NEW p \in Probed
        PROVE  /\ Elements(ShownCards(p)) \subseteq Card
               /\ \A c \in Card :
                    LET onPanel == p \in Elements(ShownPlaybacks(c))
                    IN  /\ c \in Elements(ShownCards(p)) => onPanel
                        /\ onPanel => c \in Elements(ShownCards(p)) \/ Master[p] = c
    <3>1. p \in Playback /\ la.cards[p] \in Seq(Card)
      BY <2>1, RoutingAssumption DEF State
    <3>2. Elements(la.cards[p]) \subseteq Card
      BY <3>1 DEF Elements
    <3>3. ~la.muted[p] => Audible(la, p)
      BY <2>1 DEF Good
    <3>4. \A c \in Card :
            c \in Elements(la.cards[p]) <=> Master[p] # c /\ p \in Elements(la.panel[c])
      BY <2>1, <3>1 DEF Good, Agree
    <3>. QED
      BY <2>2, <2>3, <3>2, <3>3, <3>4 DEF Audible
  <2>. QED
    BY <1>1, <2>3, <2>4 DEF LogIsTrue, Fed, ShownRecording
<1>2. Invariant /\ RecordingIsFed => LogIsTrue
  BY <1>1 DEF RecordingIsFed
<1>. QED
  BY <1>2, Inductive, RecordingFed, PTL

=============================================================================
