------------------------------ MODULE RouteLog ------------------------------
(***************************************************************************)
(* What la_log_show_status prints at the end of every routing request: the *)
(* playbacks of each panel, the panels of each playback and the captures   *)
(* that record.  Of a line only the name matters.                          *)
(***************************************************************************)
EXTENDS Routing

From(seq, i) == SubSeq(seq, i, Len(seq))

\* la_log_show_card_status: the first playback on the line of the panel, the others below.
ShownPlaybacks(c) == IF la.panel[c] = <<>> THEN <<>> ELSE <<la.panel[c][1]>> \o From(la.panel[c], 2)

\* Bug: the first card is printed again below the line that names it.
ShownCards_Again(p) ==
    LET cards == la.cards[p]
    IN  IF ~la.muted[p] THEN <<Master[p]>> \o cards
        ELSE IF cards = <<>> THEN <<>>
        ELSE <<cards[1]>> \o From(cards, 1)

\* la_log_show_playback_status: the master panel unless the playback is muted, and its cards.
ShownCards(p) ==
    LET cards == la.cards[p]
    IN  IF ~la.muted[p] THEN <<Master[p]>> \o cards
        ELSE IF cards = <<>> THEN <<>>
        ELSE <<cards[1]>> \o From(cards, 2)

\* la_log_show_capture_status
ShownRecording == la.recording

-----------------------------------------------------------------------------
\* Both halves of the status show the same routes, each once, and of configured panels only
\* (the name of one that is not is read through NULL); but where amixer has failed the panel
\* shows a playback that shows itself muted.  A capture that is shown has a master panel to
\* play on.  Playbacks that the probe could not silence are left out: they are shown on their
\* master panel from the start.
LogIsTrue ==
    /\ \A p \in Probed :
          /\ Distinct(ShownCards(p))
          /\ Elements(ShownCards(p)) \subseteq Card
          /\ \A c \in Card :
                LET onPanel == p \in Elements(ShownPlaybacks(c))
                IN  /\ c \in Elements(ShownCards(p)) => onPanel
                    /\ onPanel => c \in Elements(ShownCards(p)) \/ Master[p] = c
    /\ \A r \in ShownRecording : Master[Pipe[r]] \in Card

=============================================================================
