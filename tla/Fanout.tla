------------------------------- MODULE Fanout -------------------------------
(***************************************************************************)
(* What a playback promises to its cards: every chunk goes out in a round  *)
(* that visits the open cards in their order, each once, and no card joins *)
(* or leaves while a round is on.  A round is cut short only by the end of *)
(* the daemon.                                                             *)
(***************************************************************************)
EXTENDS Naturals, Sequences

CONSTANTS Card, NULL

VARIABLES
    running,  \* the daemon is not stopping
    cards,    \* the open cards, in the order they were opened
    todo,     \* the cards the round has still to visit
    visiting  \* the card the chunk is being written to, or NULL

FanoutInit == running = TRUE /\ cards = <<>> /\ todo = <<>> /\ visiting = NULL

Quiet == todo = <<>> /\ visiting = NULL

Join(c) ==
    /\ Quiet
    /\ cards' = Append(cards, c)
    /\ UNCHANGED <<running, todo, visiting>>

Leave(i) ==
    /\ Quiet
    /\ cards' = SubSeq(cards, 1, i - 1) \o SubSeq(cards, i + 1, Len(cards))
    /\ UNCHANGED <<running, todo, visiting>>

Round ==
    /\ Quiet
    /\ todo' = cards
    /\ UNCHANGED <<running, cards, visiting>>

Visit ==
    /\ visiting = NULL /\ todo # <<>>
    /\ visiting' = Head(todo)
    /\ todo' = Tail(todo)
    /\ UNCHANGED <<running, cards>>

Visited ==
    /\ visiting' = NULL
    /\ UNCHANGED <<running, cards, todo>>

Cut ==
    /\ ~running
    /\ todo' = <<>> /\ visiting' = NULL
    /\ UNCHANGED <<running, cards>>

Stop ==
    /\ running' = FALSE
    /\ UNCHANGED <<cards, todo, visiting>>

FanoutNext ==
    \/ \E c \in Card : Join(c)
    \/ \E i \in 1..Len(cards) : Leave(i)
    \/ Round \/ Visit \/ Visited \/ Cut \/ Stop

FanoutSpec == FanoutInit /\ [][FanoutNext]_<<running, cards, todo, visiting>>

=============================================================================
