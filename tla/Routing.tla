------------------------------ MODULE Routing -------------------------------
(***************************************************************************)
(* The routing state of the daemon: which panel (card) plays which stream  *)
(* (playback), kept twice, as the playback list of each card and as the    *)
(* card list of each playback, with the softvol mute flag that stands for  *)
(* the route of a playback to its master panel and the captures that feed  *)
(* playbacks.  Only the IPC receive thread changes it, one request at a    *)
(* time, so each request handler is one action; the finer interleaving     *)
(* with the playback and capture threads is in PlaybackStream and          *)
(* CaptureThread.  A request that names an unknown id returns at once and  *)
(* is a stuttering step.                                                   *)
(***************************************************************************)
EXTENDS Naturals, Sequences, FiniteSets

CONSTANTS
    Card,         \* the panels of asound.conf (la_get_panel_head)
    Playback,     \* the playbacks of asound.conf (la_get_playback_head)
    Capture,      \* the captures of asound.conf (la_get_capture_head)
    NoCard,       \* the master panel of a playback whose panel is not configured
    Master,       \* playback->master_panel
    Pipe,         \* capture->pipe_id, the playback the capture feeds
    Probed,       \* the playbacks la_playback_probe could silence with amixer
    PlaybackMax,  \* LA_CARD_PLAYBACK_MAX
    CardMax       \* LA_PLAYBACK_CARD_MAX

(* At most PlaybackMax playbacks are configured: la_card_append_pcm does not check the
   length of card->playback_list.  A capture feeds a configured playback:
   la_capture_open_pcm reads its master_panel before it checks the pointer. *)
ASSUME RoutingAssumption ==
    /\ IsFiniteSet(Playback)
    /\ PlaybackMax \in Nat /\ CardMax \in Nat
    /\ Cardinality(Playback) <= PlaybackMax
    /\ NoCard \notin Card
    /\ Master \in [Playback -> Card \cup {NoCard}]
    /\ Pipe \in [Capture -> Playback]
    /\ Probed \subseteq Playback

VARIABLE la  \* the lists under the heads of la_core_data, and the mixer

Volume == {"0%", "100%"}

State ==
    [panel     : [Card -> Seq(Playback)],     \* card->playback_list[0 .. playback_num-1]
     cards     : [Playback -> Seq(Card)],     \* the cards of card_list[0 .. card_num-1]
     muted     : [Playback -> BOOLEAN],       \* playback->master_mute
     mixer     : [Playback -> Volume],        \* what amixer last set the softvol to
     recording : SUBSET Capture]              \* the captures with connect == true

-----------------------------------------------------------------------------
(* Lists. *)

Elements(seq) == {seq[i] : i \in 1..Len(seq)}

\* The element at i taken out and those behind it moved up one slot.
Shifted(seq, i) ==
    [j \in 1..(Len(seq) - 1) |-> IF j < i THEN seq[j] ELSE seq[j + 1]]

FirstIndex(seq, e) ==
    CHOOSE i \in 1..Len(seq) : seq[i] = e /\ \A j \in 1..(i - 1) : seq[j] # e

\* Bug: the search for a duplicate stops one slot early.
Listed_ButLast(s, c, p) ==
    \E i \in 1..Len(s.panel[c]) : i < PlaybackMax /\ s.panel[c][i] = p

\* list_for_each_playback never looks behind the LA_CARD_PLAYBACK_MAX slots.
Listed(s, c, p) ==
    \E i \in 1..Len(s.panel[c]) : i <= PlaybackMax /\ s.panel[c][i] = p

-----------------------------------------------------------------------------
(* Captures. *)

\* The first capture that feeds p; which of several comes first is a matter of asound.conf.
Feeds(p) ==
    IF \E r \in Capture : Pipe[r] = p
    THEN {CHOOSE r \in Capture : Pipe[r] = p}
    ELSE {}

\* la_capture_start can succeed: not connected yet, and the master panel exists.
CanStart(s, r) == r \notin s.recording /\ Master[Pipe[r]] \in Card

-----------------------------------------------------------------------------
(* What a request does to the state s. *)

MasteredBy(c) == {p \in Playback : Master[p] = c}

\* Bug: the slot is emptied and stays in the list.
Closed_Hole(seq, c) == IF c \in Elements(seq) THEN [seq EXCEPT ![FirstIndex(seq, c)] = NoCard] ELSE seq

\* la_playback_close_pcm: the slot of the card is removed if there is one.
Closed(seq, c) == IF c \in Elements(seq) THEN Shifted(seq, FirstIndex(seq, c)) ELSE seq

\* Bug: card_num > LA_PLAYBACK_CARD_MAX instead of >=.
CanOpen_Late(s, c, p) == Len(s.cards[p]) <= CardMax /\ c \notin Elements(s.cards[p])

\* la_playback_open_pcm gets as far as snd_pcm_open.
CanOpen(s, c, p) == Len(s.cards[p]) < CardMax /\ c \notin Elements(s.cards[p])

\* Bug: the flag is only set if amixer succeeded.
Undone_IfSilenced(s, c, gone, deaf) ==
    LET onMaster == gone \cap MasteredBy(c)
    IN  [s EXCEPT
            !.cards = [p \in Playback |->
                          IF p \in gone \ onMaster THEN Closed(s.cards[p], c) ELSE s.cards[p]],
            !.muted = [p \in Playback |-> p \in onMaster \ deaf \/ s.muted[p]],
            !.mixer = [p \in Playback |->
                          IF p \in onMaster \ deaf THEN "0%" ELSE s.mixer[p]],
            !.recording = @ \ UNION {Feeds(p) : p \in onMaster}]

\* Bug: the capture goes on.
Undone_StillFed(s, c, gone, deaf) ==
    [Undone_IfSilenced(s, c, gone, deaf) EXCEPT !.recording = s.recording]

\* The playbacks of gone leave panel c; deaf are those whose amixer command fails.
Undone(s, c, gone, deaf) ==
    LET onMaster == gone \cap MasteredBy(c)
    IN  [s EXCEPT
            !.cards = [p \in Playback |->
                          IF p \in gone \ onMaster THEN Closed(s.cards[p], c) ELSE s.cards[p]],
            !.muted = [p \in Playback |-> p \in onMaster \/ s.muted[p]],
            !.mixer = [p \in Playback |->
                          IF p \in onMaster \ deaf THEN "0%" ELSE s.mixer[p]],
            !.recording = @ \ UNION {Feeds(p) : p \in onMaster}]

Cleared(s, c, deaf) ==
    LET gone == {p \in Playback : Listed(s, c, p)}
    IN  [Undone(s, c, gone, deaf) EXCEPT !.panel[c] = <<>>]

\* Bug: the list is shortened without the shift.
Removed_Unshifted(s, c, p, deaf) ==
    [Undone(s, c, {p}, deaf) EXCEPT !.panel[c] = SubSeq(@, 1, Len(@) - 1)]

Removed(s, c, p, deaf) ==
    [Undone(s, c, {p}, deaf) EXCEPT !.panel[c] = Shifted(@, FirstIndex(@, p))]

\* The states an append may leave.  It is refused, and leaves s, if the playback is listed, if
\* the capture that feeds it does not start or if the PCM does not open; otherwise it is
\* listed, and on its master panel the softvol is raised or, if amixer fails, left as it was.
Raised(s, p) == [s EXCEPT !.muted[p] = FALSE, !.mixer[p] = "100%"]

AppendedOnMaster(s, listed, p) ==
    LET fed == [listed EXCEPT !.recording = @ \cup Feeds(p)]
    IN  {t \in {s} : Feeds(p) # {}}
        \cup {t \in {fed, Raised(fed, p)} : \A r \in Feeds(p) : CanStart(s, r)}

\* Bug: the result of la_playback_open_pcm is ignored.
AppendedByPcm_Unchecked(s, listed, c, p) ==
    {listed} \cup {t \in {[listed EXCEPT !.cards[p] = Append(@, c)]} : CanOpen(s, c, p)}

AppendedByPcm(s, listed, c, p) ==
    {s} \cup {t \in {[listed EXCEPT !.cards[p] = Append(@, c)]} : CanOpen(s, c, p)}

Appended(s, c, p) ==
    LET listed == [s EXCEPT !.panel[c] = Append(@, p)]
    IN  IF Listed(s, c, p) THEN {s}
        ELSE IF Master[p] = c THEN AppendedOnMaster(s, listed, p)
        ELSE AppendedByPcm(s, listed, c, p)

-----------------------------------------------------------------------------
(* After la_init: nothing is routed.  The softvol of a playback the probe could not set is
   where it was, and its master_mute is false, as la_calloc left it. *)
Init ==
    /\ la \in [panel     : {[c \in Card |-> <<>>]},
               cards     : {[p \in Playback |-> <<>>]},
               muted     : {[p \in Playback |-> p \in Probed]},
               mixer     : [Playback -> Volume],
               recording : {{}}]
    /\ \A p \in Probed : la.mixer[p] = "0%"

\* la_ipc_append_pcm
AppendPcm(c, p) == la' \in Appended(la, c, p)

\* la_ipc_clear_pcm
ClearPcm(c) == \E deaf \in SUBSET MasteredBy(c) : la' = Cleared(la, c, deaf)

\* la_ipc_set_pcm: the clear stands even if the append is refused.
SetPcm(c, p) ==
    \E deaf \in SUBSET MasteredBy(c) : la' \in Appended(Cleared(la, c, deaf), c, p)

\* la_ipc_remove_pcm
RemovePcm(c, p) ==
    /\ Listed(la, c, p)
    /\ \E deaf \in SUBSET MasteredBy(c) : la' = Removed(la, c, p, deaf)

\* la_ipc_start_record; opening the PCMs may fail
StartRecord(r) ==
    /\ CanStart(la, r)
    /\ la' = [la EXCEPT !.recording = @ \cup {r}]

\* la_ipc_stop_record
StopRecord(r) ==
    /\ r \in la.recording
    /\ la' = [la EXCEPT !.recording = @ \ {r}]

Next ==
    \/ \E c \in Card, p \in Playback : AppendPcm(c, p) \/ SetPcm(c, p) \/ RemovePcm(c, p)
    \/ \E c \in Card : ClearPcm(c)
    \/ \E r \in Capture : StartRecord(r) \/ StopRecord(r)

Spec == Init /\ [][Next]_la

-----------------------------------------------------------------------------
(* Properties. *)

\* The lists hold known panels and playbacks only.
TypeOK == la \in State

\* The two sides agree: off the master panel, a card lists a playback exactly when the
\* playback holds an open PCM of that card, and no playback opens its own master panel.
\* A removal or a failed open that updated one side only would leave a PCM no request can
\* reach, or a listed stream that is never written.
Agree(s) ==
    \A p \in Playback, c \in Card :
        c \in Elements(s.cards[p]) <=> Master[p] # c /\ p \in Elements(s.panel[c])

ListsAgree == Agree(la)

\* No list holds an entry twice: clear and remove undo one entry per playback.
Distinct(seq) == \A i, j \in 1..Len(seq) : seq[i] = seq[j] => i = j

NoDuplicates ==
    /\ \A c \in Card : Distinct(la.panel[c])
    /\ \A p \in Playback : Distinct(la.cards[p])

\* The write card->playback_list[playback_num++], which nothing guards, and the guarded one
\* of card_list stay inside their arrays.
NoOverflow ==
    /\ \A c \in Card : Len(la.panel[c]) <= PlaybackMax
    /\ \A p \in Playback : Len(la.cards[p]) <= CardMax

\* The mute flag tells the truth: a playback the probe silenced is flagged unmuted only
\* while its master panel lists it and its softvol is up.
Audible(s, p) ==
    /\ Master[p] \in Card
    /\ p \in Elements(s.panel[Master[p]])
    /\ s.mixer[p] = "100%"

UnmutedIsRouted == \A p \in Probed : ~la.muted[p] => Audible(la, p)

\* The capture that feeds a playback follows its route to the master panel: it is started by
\* the request that adds the route and stopped by the one that removes it, whatever
\* start_record and stop_record did in between.
OnMaster(s, p) == Master[p] \in Card /\ p \in Elements(s.panel[Master[p]])

FedAsRouted(s, t) ==
    \A p \in Playback :
        /\ ~OnMaster(s, p) /\ OnMaster(t, p) => Feeds(p) \subseteq t.recording
        /\ OnMaster(s, p) /\ ~OnMaster(t, p) => Feeds(p) \cap t.recording = {}

FeedFollowsRoute == [][FedAsRouted(la, la')]_la

-----------------------------------------------------------------------------
(* What is really played: the PCMs the playbacks hold open, and the master routes. *)
Played(s, c, p) ==
    \/ c \in Elements(s.cards[p])
    \/ Master[p] = c /\ p \in Elements(s.panel[c])

PlayedRoutes == {r \in Card \X Playback : Played(la, r[1], r[2])}

Table == INSTANCE RouteTable WITH routes <- PlayedRoutes

\* Every request changes what is played as the route table says.
RouteSpec == Table!RouteSpec

=============================================================================
