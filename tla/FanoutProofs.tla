---------------------------- MODULE FanoutProofs ----------------------------
(***************************************************************************)
(* PlaybackStream implements Fanout.  A round is what happens between the  *)
(* lock and the unlock of mutex in la_playback_write; as the IPC receive   *)
(* thread changes the list under the same mutex, the list is whole during  *)
(* a round and the index of the loop tells which cards are still to come.  *)
(***************************************************************************)
EXTENDS StreamProofs

-----------------------------------------------------------------------------
(* The lists of cards. *)

\* The cards of a list without a hole are those of its slots.
LEMMA FullCards ==
    ASSUME NEW l \in ListRecord, \A i \in Slots : l.slot[i] = NULL <=> i > l.card_num
    PROVE  /\ CardsOf(l) = [i \in 1..l.card_num |-> l.slot[i]]
           /\ CardsOf(l) \in Seq(Card) /\ Len(CardsOf(l)) = l.card_num
<1>. DEFINE n == l.card_num
            s == [i \in 1..n |-> l.slot[i]]
<1>1. n \in Nat /\ n <= CardMax /\ CardMax \in Nat /\ l.slot \in [1..CardMax -> Card \cup {NULL}]
  BY StreamAssumption DEF ListRecord, Slots
<1>2. \A i \in 1..n : i \in Slots /\ l.slot[i] # NULL
  BY <1>1 DEF Slots
<1>3. CardsOf(l) = SubSeq(l.slot, 1, n)
  BY <1>2 DEF CardsOf
<1>4. \A i \in 1..n : l.slot[i] \in Card
  BY <1>1, <1>2 DEF Slots
<1>5. SubSeq(l.slot, 1, n) = s
  BY <1>1
<1>6. s \in Seq(Card) /\ Len(s) = n
  BY <1>1, <1>4
<1>. QED
  BY <1>3, <1>5, <1>6

\* The cards of a list with a hole are those of its other slots.
LEMMA HoleCards ==
    ASSUME NEW l \in ListRecord, NEW h, HoleAt(l, h)
    PROVE  CardsOf(l) = [i \in 1..(l.card_num - 1) |->
                            IF i >= h THEN l.slot[i + 1] ELSE l.slot[i]]
<1>. DEFINE n == l.card_num
            t == [i \in Slots |-> IF i >= n THEN NULL
                                  ELSE IF i >= h THEN l.slot[i + 1] ELSE l.slot[i]]
<1>1. n \in Nat /\ n <= CardMax /\ CardMax \in Nat /\ h \in 1..n /\ h \in Slots
  BY StreamAssumption DEF ListRecord, HoleAt, Slots
<1>2. Shifted(l) = [slot |-> t, card_num |-> n - 1]
  BY ShiftedFacts
<1>3. l.slot[h] = NULL
  BY <1>1 DEF HoleAt
<1>4. CardsOf(l) = SubSeq(t, 1, n - 1)
  BY <1>1, <1>2, <1>3 DEF CardsOf
<1>5. t \in Seq(Card \cup {NULL}) /\ Len(t) = CardMax
  <2>1. \A i \in Slots : t[i] \in Card \cup {NULL}
    BY <1>1 DEF Slots, ListRecord
  <2>. QED
    BY <2>1, <1>1 DEF Slots
<1>6. SubSeq(t, 1, n - 1) = [i \in 1..(n - 1) |-> t[i]]
  BY <1>1, <1>5
<1>7. \A i \in 1..(n - 1) : t[i] = IF i >= h THEN l.slot[i + 1] ELSE l.slot[i]
  BY <1>1 DEF Slots
<1>. QED
  BY <1>4, <1>6, <1>7

\* la_playback_open_pcm appends its card.
LEMMA InsertedCards ==
    ASSUME ListInv, InsertPcm
    PROVE  Cards' = Append(Cards, ipc.card) /\ ipc.card \in Card
<1>. DEFINE n == list.card_num
<1>1. /\ ipc.pc = "insert" /\ ipc.card \in Card
      /\ list' = [slot |-> [list.slot EXCEPT ![n + 1] = ipc.card], card_num |-> n + 1]
  BY DEF InsertPcm, IpcGoes, ListInv, ListTypes
<1>2. "insert" \in OpenPc \ HolePc
  BY IpcPcs DEF OpenPc
<1>3. list \in ListRecord /\ \A i \in Slots : list.slot[i] = NULL <=> i > n
  BY <1>1, <1>2 DEF ListInv, ListTypes, ListRecord, Shape
<1>4. n \in Nat /\ n < CardMax /\ CardMax \in Nat /\ n + 1 \in Slots /\ NULL \notin Card
      /\ \A i \in Slots : i \in Nat
  BY <1>1, <1>2, <1>3, StreamAssumption DEF ListInv, ListTypes, Slots
<1>5. Cards = [i \in 1..n |-> list.slot[i]] /\ Cards \in Seq(Card) /\ Len(Cards) = n
  BY <1>3, FullCards DEF Cards
<1>6. list' \in ListRecord
  BY <1>1, <1>3, <1>4 DEF ListRecord
<1>7. list'.card_num = n + 1
      /\ \A i \in Slots : list'.slot[i] = IF i = n + 1 THEN ipc.card ELSE list.slot[i]
  BY <1>1, <1>3, <1>4 DEF ListRecord
<1>8. \A i \in Slots : list'.slot[i] = NULL <=> i > list'.card_num
  BY <1>1, <1>3, <1>4, <1>7
<1>9. Cards' = [i \in 1..(n + 1) |-> list'.slot[i]] /\ Cards' \in Seq(Card) /\ Len(Cards') = n + 1
  BY <1>6, <1>7, <1>8, FullCards DEF Cards
<1>10. Append(Cards, ipc.card) = [i \in 1..(n + 1) |-> IF i = n + 1 THEN ipc.card ELSE Cards[i]]
  BY <1>1, <1>4, <1>5
<1>11. \A i \in 1..(n + 1) : list'.slot[i] = IF i = n + 1 THEN ipc.card ELSE Cards[i]
  BY <1>4, <1>5, <1>7 DEF Slots
<1>. QED
  BY <1>1, <1>9, <1>10, <1>11

\* A sequence without its element at h.
LEMMA WithoutOne ==
    ASSUME NEW S, NEW s \in Seq(S), NEW h \in 1..Len(s)
    PROVE  SubSeq(s, 1, h - 1) \o SubSeq(s, h + 1, Len(s))
              = [i \in 1..(Len(s) - 1) |-> IF i >= h THEN s[i + 1] ELSE s[i]]
<1>. DEFINE n == Len(s)
            a == SubSeq(s, 1, h - 1)
            b == SubSeq(s, h + 1, n)
            t == [i \in 1..(n - 1) |-> IF i >= h THEN s[i + 1] ELSE s[i]]
<1>1. n \in Nat /\ h \in Nat /\ 1 <= h /\ h <= n
  OBVIOUS
<1>2. \A i \in 1..n : s[i] \in S
  BY ElementOfSeq
<1>3. a \in Seq(S) /\ Len(a) = h - 1 /\ \A i \in 1..(h - 1) : a[i] = s[i]
  <2>1. /\ a \in Seq(S) /\ Len(a) = IF 1 <= h - 1 THEN (h - 1) - 1 + 1 ELSE 0
        /\ \A i \in 1..((h - 1) - 1 + 1) : a[i] = s[1 + i - 1]
    BY <1>1, <1>2, SubSeqProperties
  <2>. HIDE DEF a
  <2>. QED
    BY <1>1, <2>1
<1>4. b \in Seq(S) /\ Len(b) = n - h /\ \A i \in 1..(n - h) : b[i] = s[i + h]
  <2>1. /\ b \in Seq(S) /\ Len(b) = IF h + 1 <= n THEN n - (h + 1) + 1 ELSE 0
        /\ \A i \in 1..(n - (h + 1) + 1) : b[i] = s[(h + 1) + i - 1]
    BY <1>1, <1>2, SubSeqProperties
  <2>. HIDE DEF b
  <2>. QED
    BY <1>1, <2>1
<1>5. t \in Seq(S) /\ Len(t) = n - 1
  BY <1>1, <1>2
<1>. HIDE DEF a, b
<1>6. /\ a \o b \in Seq(S) /\ Len(a \o b) = n - 1
      /\ \A i \in 1..(n - 1) : (a \o b)[i] = IF i <= h - 1 THEN a[i] ELSE b[i - (h - 1)]
  <2>1. /\ a \o b \in Seq(S) /\ Len(a \o b) = Len(a) + Len(b)
        /\ \A i \in 1..(Len(a) + Len(b)) :
              (a \o b)[i] = IF i <= Len(a) THEN a[i] ELSE b[i - Len(a)]
    BY <1>3, <1>4, ConcatProperties
  <2>2. Len(a) + Len(b) = n - 1
    BY <1>1, <1>3, <1>4
  <2>. QED
    BY <1>3, <2>1, <2>2
<1>7. ASSUME NEW i \in 1..(n - 1)
      PROVE  (a \o b)[i] = t[i]
  <2>1. CASE i < h
    BY <1>1, <1>3, <1>6, <2>1
  <2>2. CASE i >= h
    <3>1. i - (h - 1) \in 1..(n - h) /\ (i - (h - 1)) + h = i + 1 /\ ~(i <= h - 1)
      BY <1>1, <2>2
    <3>2. b[i - (h - 1)] = s[i + 1]
      BY <1>4, <3>1
    <3>3. t[i] = s[i + 1]
      BY <2>2
    <3>. QED
      BY <1>6, <3>1, <3>2, <3>3
  <2>3. i < h \/ i >= h
    BY <1>1
  <2>. QED
    BY <2>1, <2>2, <2>3
<1>. HIDE DEF t
<1>8. a \o b = t
  BY <1>5, <1>6, <1>7, SeqEqual
<1>. QED
  BY <1>8 DEF a, b, t

\* Emptying the slot of a card takes that card out of the list, and no other.
LEMMA FoundCards ==
    ASSUME ListInv, FindPcm
    PROVE  \/ Cards' = Cards
           \/ \E h \in 1..Len(Cards) :
                 Cards' = SubSeq(Cards, 1, h - 1) \o SubSeq(Cards, h + 1, Len(Cards))
<1>. DEFINE n == list.card_num
<1>1. /\ ipc.pc = "find" /\ ipc.card \in Card
      /\ list' = [list EXCEPT !.slot =
                     [i \in Slots |-> IF list.slot[i] = ipc.card THEN NULL ELSE list.slot[i]]]
  BY DEF FindPcm, IpcGoes, ListInv, ListTypes
<1>2. list \in ListRecord /\ \A i \in Slots : list.slot[i] = NULL <=> i > n
  BY <1>1, IpcPcs DEF ListInv, ListTypes, ListRecord, Shape
<1>3. n \in Nat /\ n <= CardMax /\ CardMax \in Nat /\ NULL \notin Card
      /\ \A i \in Slots : i \in Nat \ {0}
  BY <1>2, StreamAssumption DEF ListRecord, Slots
<1>4. Cards = [i \in 1..n |-> list.slot[i]] /\ Cards \in Seq(Card) /\ Len(Cards) = n
  BY <1>2, FullCards DEF Cards
<1>5. /\ list' \in ListRecord /\ list'.card_num = n
      /\ \A i \in Slots : list'.slot[i] = IF list.slot[i] = ipc.card THEN NULL ELSE list.slot[i]
  BY <1>1, <1>2 DEF ListRecord
<1>6. CASE ~Listed(ipc.card)
  <2>1. \A i \in Slots : list'.slot[i] = list.slot[i]
    BY <1>5, <1>6 DEF Listed
  <2>2. Cards' = [i \in 1..n |-> list'.slot[i]]
    BY <1>2, <1>5, <2>1, FullCards DEF Cards
  <2>3. \A i \in 1..n : list'.slot[i] = list.slot[i]
    BY <1>3, <2>1 DEF Slots
  <2>. QED
    BY <1>4, <2>2, <2>3
<1>7. CASE Listed(ipc.card)
  <2>1. PICK h \in Slots : list.slot[h] = ipc.card
    BY <1>7 DEF Listed
  <2>2. h \in 1..n
    BY <1>1, <1>2, <1>3, <2>1
  <2>3. \A i \in Slots : list.slot[i] = ipc.card => i = h
    BY <1>1, <1>3, <2>1 DEF ListInv, Shape
  <2>4. HoleAt(list', h)
    BY <1>2, <1>3, <1>5, <2>1, <2>2, <2>3 DEF HoleAt
  <2>5. Cards' = [i \in 1..(n - 1) |-> IF i >= h THEN list'.slot[i + 1] ELSE list'.slot[i]]
    BY <1>5, <2>4, HoleCards DEF Cards
  <2>6. \A i \in 1..(n - 1) : (IF i >= h THEN list'.slot[i + 1] ELSE list'.slot[i])
                            = (IF i >= h THEN Cards[i + 1] ELSE Cards[i])
    <3>1. \A i \in Slots : i # h /\ i <= n => list'.slot[i] = Cards[i]
      BY <1>3, <1>4, <1>5, <2>3
    <3>2. \A i \in 1..(n - 1) : i \in Slots /\ i + 1 \in Slots
      BY <1>3 DEF Slots
    <3>. QED
      BY <1>3, <2>2, <3>1, <3>2
  <2>7. SubSeq(Cards, 1, h - 1) \o SubSeq(Cards, h + 1, Len(Cards))
           = [i \in 1..(Len(Cards) - 1) |-> IF i >= h THEN Cards[i + 1] ELSE Cards[i]]
    <3>1. Cards \in Seq(Card) /\ h \in 1..Len(Cards)
      BY <1>4, <2>2
    <3>. QED
      BY <3>1, WithoutOne
  <2>8. Cards' = [i \in 1..(n - 1) |-> IF i >= h THEN Cards[i + 1] ELSE Cards[i]]
    BY <2>5, <2>6
  <2>. QED
    BY <1>4, <2>2, <2>7, <2>8
<1>. QED
  BY <1>6, <1>7

\* Shifting the list changes no card.
LEMMA ShiftedCards == ASSUME ListInv, ShiftList PROVE Cards' = Cards
<1>. DEFINE n == list.card_num
<1>1. ipc.pc = "shift" /\ ipc' = [ipc EXCEPT !.pc = "unlock"]
  BY DEF ShiftList, IpcGoes
<1>2. PICK h \in 1..n : HoleAt(list, h)
  BY <1>1 DEF ListInv, Shape, HoleAt, HolePc
<1>3. list \in ListRecord /\ n \in Nat /\ n <= CardMax /\ CardMax \in Nat /\ n # 0
  BY <1>2, StreamAssumption DEF ListInv, ListTypes, ListRecord
<1>4. list' = [slot |-> [i \in Slots |-> IF i >= n THEN NULL
                                         ELSE IF i >= h THEN list.slot[i + 1] ELSE list.slot[i]],
               card_num |-> n - 1]
  BY <1>2, <1>3, ShiftedFacts DEF ShiftList
<1>5. Cards = [i \in 1..(n - 1) |-> IF i >= h THEN list.slot[i + 1] ELSE list.slot[i]]
  BY <1>2, <1>3, HoleCards DEF Cards
<1>6. ListInv'
  BY ShiftListList
<1>7. ipc'.pc = "unlock"
  BY <1>1 DEF ListInv, ListTypes
<1>8. list' \in ListRecord /\ \A i \in Slots : list'.slot[i] = NULL <=> i > list'.card_num
  BY <1>6, <1>7, IpcPcs DEF ListInv, ListTypes, Shape, ListRecord
<1>9. Cards' = [i \in 1..(n - 1) |-> list'.slot[i]]
  BY <1>4, <1>8, FullCards DEF Cards
<1>10. \A i \in 1..(n - 1) : list'.slot[i] = IF i >= h THEN list.slot[i + 1] ELSE list.slot[i]
  BY <1>3, <1>4 DEF Slots
<1>. QED
  BY <1>5, <1>9, <1>10

-----------------------------------------------------------------------------
(* The rounds. *)

\* A round begins with the first slot.
IdxInv == player.pc \in {"scan", "check", "write", "rewrite", "unlock"} \/ player.idx = 1

\* Every round begins with the first slot.
LEMMA IdxStep == ASSUME Invariant, IdxInv, [Next]_vars PROVE IdxInv'
<1>0. player \in PlayerRecord
  BY DEF Invariant, Types, PlayerInv
<1>1. CASE UNCHANGED player
  BY <1>1 DEF IdxInv
<1>2. CASE Select \/ PlayerLockStream \/ LoadStream \/ ReadFifo
  <2>1. player'.idx = player.idx
        /\ player.pc \notin {"scan", "check", "write", "rewrite", "unlock"}
    BY <1>0, <1>2 DEF Select, PlayerLockStream, LoadStream, ReadFifo, PlayerGoes, PlayerRecord
  <2>. QED
    BY <2>1 DEF IdxInv
<1>3. CASE PlayerUnlockStream \/ CountCards
  BY <1>0, <1>3 DEF PlayerUnlockStream, CountCards, PlayerGoes, PlayerRecord, IdxInv
<1>4. CASE PlayerLock \/ ScanList
  BY <1>0, <1>4 DEF PlayerLock, ScanList, PlayerGoes, PlayerRecord, IdxInv
<1>5. CASE CheckPcm \/ WritePcm \/ StartPcm
  BY <1>0, <1>5 DEF CheckPcm, WritePcm, StartPcm, Following, PlayerRecord, IdxInv
<1>6. CASE PlayerUnlock
  BY <1>0, <1>6 DEF PlayerUnlock, PlayerRecord, IdxInv
<1>7. CASE CancelPlayer
  BY <1>7 DEF CancelPlayer, IdxInv
<1>8. ClientWrite \/ Deinit \/ UNCHANGED vars => UNCHANGED player
  BY DEF ClientWrite, Deinit, vars
<1>. QED
  BY <1>1, <1>2, <1>3, <1>4, <1>5, <1>6, <1>7, <1>8, IpcFrame DEF Next, Player, IpcSteps

Visiting == IF Writing THEN player.pcm ELSE NULL

\* The variables of Fanout.
RoundVars == <<running, Cards, Todo, Visiting>>

\* Where the playback thread is tells what the round has still to visit.
RoundPlaces ==
    /\ player.pc \in {"scan", "check"} =>
          Todo = SubSeq(Cards, player.idx, Len(Cards)) /\ Visiting = NULL
    /\ player.pc \in {"write", "rewrite"} =>
          Todo = SubSeq(Cards, player.idx + 1, Len(Cards)) /\ Visiting = player.pcm
    /\ player.pc \notin {"scan", "check", "write", "rewrite"} => Todo = <<>> /\ Visiting = NULL

\* Those are the values of Todo and Visiting, before and after a step.
LEMMA RoundPlacesHold == RoundPlaces /\ RoundPlaces'
BY DEF RoundPlaces, Todo, Visiting, Writing

\* In a round, and whenever no card is being taken out, the list is whole.
LEMMA RoundCards ==
    ASSUME LocksWork, Invariant,
           player.pc \in {"scan", "check", "write", "rewrite", "unlock"} \/ ipc.pc \notin HolePc
    PROVE  /\ Cards = [i \in 1..list.card_num |-> list.slot[i]]
           /\ Cards \in Seq(Card) /\ Len(Cards) = list.card_num /\ list.card_num \in 0..CardMax
           /\ \A i \in Slots : list.slot[i] = NULL <=> i > list.card_num
<1>1. ipc.pc \notin HolePc
  BY InFacts DEF InByPc, Invariant, OwnerInv, Mutex, Threads, HolePc
<1>2. list \in ListRecord /\ \A i \in Slots : list.slot[i] = NULL <=> i > list.card_num
  BY <1>1 DEF Invariant, Types, ListInv, ListTypes, ListRecord, Shape
<1>. QED
  BY <1>2, FullCards DEF Cards, ListRecord

\* A step of the playback thread is a step of the round.
LEMMA PlayerRounds ==
    ASSUME LocksWork, Invariant, HeldPcmIsOpen, IdxInv, Player
    PROVE  [Rounds!FanoutNext]_RoundVars
<1>0. player \in PlayerRecord
  BY DEF Invariant, Types, PlayerInv
<1>1. running' = running /\ list' = list /\ Cards' = Cards
  BY PlayerFrame DEF Cards
<1>2. RoundPlaces /\ RoundPlaces'
  BY RoundPlacesHold
<1>3. ASSUME Todo' = Todo, Visiting' = Visiting
      PROVE  [Rounds!FanoutNext]_RoundVars
  BY <1>1, <1>3 DEF RoundVars
<1>4. ASSUME ~running, Todo' = <<>>, Visiting' = NULL
      PROVE  [Rounds!FanoutNext]_RoundVars
  BY <1>1, <1>4 DEF Rounds!FanoutNext, Rounds!Cut, Visiting
<1>5. ASSUME Todo' = Todo, Visiting' = NULL
      PROVE  [Rounds!FanoutNext]_RoundVars
  BY <1>1, <1>5 DEF Rounds!FanoutNext, Rounds!Visited, Visiting
<1>6. CASE Select \/ PlayerLockStream \/ LoadStream \/ ReadFifo
  <2>1. player.pc \in {"select", "lock_stream", "load", "read"}
        /\ player'.pc \in {"lock_stream", "load", "read", "unlock_stream", "done"}
    BY <1>0, <1>6 DEF Select, PlayerLockStream, LoadStream, ReadFifo, PlayerGoes, PlayerRecord
  <2>. QED
    BY <1>2, <1>3, <2>1 DEF RoundPlaces
<1>7. CASE PlayerUnlockStream \/ CountCards
  <2>1. player.pc \in {"unlock_stream", "count"} /\ player'.pc \in {"count", "lock", "select"}
    BY <1>0, <1>7 DEF PlayerUnlockStream, CountCards, PlayerGoes, PlayerRecord
  <2>. QED
    BY <1>2, <1>3, <2>1 DEF RoundPlaces
<1>8. CASE PlayerLock
  <2>1. player.pc = "lock" /\ player'.pc = "scan" /\ player'.idx = 1
    BY <1>0, <1>8 DEF PlayerLock, PlayerGoes, PlayerRecord, IdxInv
  <2>2. Todo = <<>> /\ Visiting = NULL /\ Visiting' = NULL
        /\ Todo' = SubSeq(Cards, 1, Len(Cards))
    BY <1>1, <1>2, <2>1 DEF RoundPlaces
  <2>3. ipc.pc \notin HolePc
    <3>1. owner["mutex"] = NULL /\ NULL \notin Threads
      BY <1>8, StreamAssumption DEF PlayerLock, Lock, Threads
    <3>. QED
      BY <3>1, InFacts DEF InByPc, Invariant, OwnerInv, Mutex, Threads, HolePc
  <2>4. Todo' = Cards
    BY <2>2, <2>3, RoundCards, SubSeqFull
  <2>. QED
    BY <1>1, <2>2, <2>4 DEF Rounds!FanoutNext, Rounds!Round, Rounds!Quiet, Visiting
<1>9. CASE ScanList
  <2>1. player.pc = "scan"
    BY <1>9 DEF ScanList
  <2>2. Todo = SubSeq(Cards, player.idx, Len(Cards)) /\ Visiting = NULL
    BY <1>2, <2>1 DEF RoundPlaces
  <2>3. CASE player.idx <= list.card_num /\ list.slot[player.idx] # NULL
    <3>1. player'.pc = "check" /\ player'.idx = player.idx
      BY <1>0, <1>9, <2>3 DEF ScanList, PlayerRecord
    <3>. QED
      BY <1>1, <1>2, <1>3, <2>2, <3>1 DEF RoundPlaces
  <2>4. CASE ~(player.idx <= list.card_num /\ list.slot[player.idx] # NULL)
    <3>1. player'.pc = "unlock"
      BY <1>0, <1>9, <2>4 DEF ScanList, PlayerRecord
    <3>2. player.idx \in Nat \ {0} /\ list.card_num \in 0..CardMax /\ CardMax \in Nat
          /\ Len(Cards) = list.card_num
          /\ \A i \in Slots : list.slot[i] = NULL <=> i > list.card_num
      BY <1>0, <2>1, RoundCards, StreamAssumption DEF PlayerRecord
    <3>3. Len(Cards) < player.idx
      BY <2>4, <3>2 DEF Slots
    <3>4. Todo = <<>>
      BY <2>2, <3>2, <3>3, SubSeqEmpty
    <3>. QED
      BY <1>2, <1>3, <2>2, <3>1, <3>4 DEF RoundPlaces
  <2>. QED
    BY <2>3, <2>4
<1>10. player.pc \in Holding =>
          /\ player.idx \in 1..Len(Cards) /\ Cards[player.idx] = player.pcm
          /\ Cards \in Seq(Card)
  <2>. SUFFICES ASSUME player.pc \in Holding
                PROVE  player.idx \in 1..Len(Cards) /\ Cards[player.idx] = player.pcm
                       /\ Cards \in Seq(Card)
    OBVIOUS
  <2>1. player.idx <= list.card_num /\ list.slot[player.idx] = player.pcm
        /\ player.idx \in Nat \ {0}
    BY <1>0, StreamAssumption DEF Invariant, UseInv, PlayerRecord
  <2>2. /\ Cards = [i \in 1..list.card_num |-> list.slot[i]]
        /\ Cards \in Seq(Card) /\ Len(Cards) = list.card_num /\ list.card_num \in 0..CardMax
    BY RoundCards DEF Holding
  <2>. QED
    BY <2>1, <2>2, StreamAssumption
<1>11. /\ Following(player).pc = "scan" /\ Following(player).idx = player.idx + 1
  BY <1>0 DEF PlayerRecord, Following
<1>12. CASE CheckPcm
  <2>1. player.pc = "check" /\ player.pc \in Holding
    BY <1>12 DEF CheckPcm, Holding
  <2>2. Todo = SubSeq(Cards, player.idx, Len(Cards)) /\ Visiting = NULL
    BY <1>2, <2>1 DEF RoundPlaces
  <2>3. pcm[player.pcm] # "null"
    BY <2>1 DEF HeldPcmIsOpen
  <2>4. CASE ~running
    <3>1. player'.pc = "unlock"
      BY <1>0, <1>12, <2>3, <2>4 DEF CheckPcm, PlayerRecord
    <3>. QED
      BY <1>2, <1>4, <2>4, <3>1 DEF RoundPlaces
  <2>5. CASE running
    <3>1. player'.pc = "write" /\ player'.idx = player.idx /\ player'.pcm = player.pcm
      BY <1>0, <1>12, <2>3, <2>5 DEF CheckPcm, PlayerRecord
    <3>2. Todo' = SubSeq(Cards, player.idx + 1, Len(Cards)) /\ Visiting' = player.pcm
      BY <1>1, <1>2, <3>1 DEF RoundPlaces
    <3>3. Head(Todo) = player.pcm /\ Tail(Todo) = Todo'
      <4>1. player.idx \in 1..Len(Cards) /\ Len(Cards) \in player.idx..Len(Cards)
            /\ Cards[player.idx] = player.pcm /\ Cards \in Seq(Card)
        BY <1>10, <2>1
      <4>2. /\ Head(SubSeq(Cards, player.idx, Len(Cards))) = Cards[player.idx]
            /\ Tail(SubSeq(Cards, player.idx, Len(Cards)))
                  = SubSeq(Cards, player.idx + 1, Len(Cards))
        BY <4>1, HeadTailOfSubSeq
      <4>. QED
        BY <2>2, <3>2, <4>1, <4>2
    <3>4. Todo # <<>>
      <4>1. /\ player.idx \in Int /\ Len(Cards) \in Int /\ player.idx <= Len(Cards)
            /\ \A i \in player.idx..Len(Cards) : Cards[i] \in Card
        BY <1>10, <2>1
      <4>2. Len(Todo) = Len(Cards) - player.idx + 1
        BY <2>2, <4>1, SubSeqProperties
      <4>. QED
        BY <4>1, <4>2
    <3>. QED
      BY <1>1, <2>2, <3>2, <3>3, <3>4 DEF Rounds!FanoutNext, Rounds!Visit, Visiting
  <2>. QED
    BY <2>4, <2>5
<1>13. CASE WritePcm \/ StartPcm
  <2>1. player.pc \in {"write", "rewrite"}
    BY <1>13 DEF WritePcm, StartPcm
  <2>2. Todo = SubSeq(Cards, player.idx + 1, Len(Cards)) /\ Visiting = player.pcm
    BY <1>2, <2>1 DEF RoundPlaces
  <2>3. CASE player' = Following(player)
    <3>1. player'.pc = "scan" /\ player'.idx = player.idx + 1
      BY <1>11, <2>3
    <3>2. Todo' = Todo /\ Visiting' = NULL
      BY <1>1, <1>2, <2>2, <3>1 DEF RoundPlaces
    <3>. QED
      BY <1>5, <3>2
  <2>4. CASE player' = [player EXCEPT !.pc = "rewrite", !.ptr = buffer.stream]
    <3>1. player'.pc = "rewrite" /\ player'.idx = player.idx /\ player'.pcm = player.pcm
      BY <1>0, <2>4 DEF PlayerRecord
    <3>. QED
      BY <1>1, <1>2, <1>3, <2>2, <3>1 DEF RoundPlaces
  <2>. QED
    BY <1>13, <2>3, <2>4 DEF WritePcm, StartPcm
<1>14. CASE PlayerUnlock
  <2>1. player.pc = "unlock" /\ player'.pc = "select"
    BY <1>0, <1>14 DEF PlayerUnlock, PlayerRecord
  <2>. QED
    BY <1>2, <1>3, <2>1 DEF RoundPlaces
<1>15. CASE CancelPlayer
  <2>1. ~running /\ player'.pc = "done"
    BY <1>15 DEF CancelPlayer
  <2>. QED
    BY <1>2, <1>4, <2>1 DEF RoundPlaces
<1>. QED
  BY <1>6, <1>7, <1>8, <1>9, <1>12, <1>13, <1>14, <1>15 DEF Player

\* A step of the IPC receive thread changes the cards only outside of a round.
LEMMA IpcRounds ==
    ASSUME LocksWork, Invariant, IpcSteps
    PROVE  [Rounds!FanoutNext]_RoundVars
<1>1. player' = player /\ running' = running
  BY IpcFrame
<1>2. ListInv
  BY DEF Invariant, Types
<1>3. ASSUME Cards' = Cards
      PROVE  [Rounds!FanoutNext]_RoundVars
  BY <1>1, <1>3 DEF RoundVars, Todo, Visiting, Writing
<1>4. ASSUME In("ipc", "mutex")
      PROVE  Todo = <<>> /\ Visiting = NULL /\ Todo' = <<>> /\ Visiting' = NULL
  <2>1. player.pc \notin {"scan", "check", "write", "rewrite"}
    BY <1>4, InFacts DEF InByPc, Invariant, OwnerInv, Mutex, Threads
  <2>. QED
    BY <1>1, <2>1, RoundPlacesHold DEF RoundPlaces
<1>5. CASE InsertPcm
  <2>1. In("ipc", "mutex")
    BY <1>5, InFacts DEF InsertPcm, IpcGoes, InByPc
  <2>2. Cards' = Append(Cards, ipc.card) /\ ipc.card \in Card
    BY <1>2, <1>5, InsertedCards
  <2>. QED
    BY <1>1, <1>4, <2>1, <2>2 DEF Rounds!FanoutNext, Rounds!Join, Rounds!Quiet, Visiting
<1>6. CASE FindPcm
  <2>1. In("ipc", "mutex")
    BY <1>6, InFacts DEF FindPcm, IpcGoes, InByPc
  <2>2. ASSUME NEW h \in 1..Len(Cards),
               Cards' = SubSeq(Cards, 1, h - 1) \o SubSeq(Cards, h + 1, Len(Cards))
        PROVE  [Rounds!FanoutNext]_RoundVars
    BY <1>1, <1>4, <2>1, <2>2 DEF Rounds!FanoutNext, Rounds!Leave, Rounds!Quiet, Visiting
  <2>. QED
    BY <1>2, <1>3, <1>6, <2>2, FoundCards
<1>7. CASE ShiftList
  BY <1>2, <1>3, <1>7, ShiftedCards
<1>8. CASE ~(InsertPcm \/ FindPcm \/ ShiftList)
  <2>1. list' = list
    BY <1>8 DEF IpcSteps, IpcGoesOn, IpcLocks, OpenPcm, ClosePcm, OpenLockStream, OpenLock,
       CloseLock, GrowStream, ReallocStream, StoreStream, OpenUnlockStream, DropPcm, ClearHandle,
       FreePcm, IpcUnlock, PcmBecomes
  <2>. QED
    BY <1>3, <2>1 DEF Cards
<1>. QED
  BY <1>5, <1>6, <1>7, <1>8

\* With working locks every chunk is written to every open card once and in order, and no card
\* joins or leaves in between: la_playback_write, open_pcm and close_pcm implement Fanout.
THEOREM FanoutImplemented == ASSUME LocksWork PROVE Spec => FanoutSpec
<1>1. Init => Rounds!FanoutInit
  <2>. SUFFICES ASSUME Init PROVE Rounds!FanoutInit
    OBVIOUS
  <2>1. running = TRUE /\ player.pc = "select" /\ list.card_num = 0 /\ ListInv /\ ipc.pc = "idle"
    BY ListInit DEF Init
  <2>2. list \in ListRecord /\ \A i \in Slots : list.slot[i] = NULL <=> i > list.card_num
    BY <2>1, IpcPcs DEF ListInv, ListTypes, ListRecord, Shape
  <2>3. Cards \in Seq(Card) /\ Len(Cards) = 0
    BY <2>1, <2>2, FullCards DEF Cards
  <2>4. Cards = <<>>
    BY <2>3
  <2>5. Todo = <<>> /\ Visiting = NULL
    BY <2>1, RoundPlacesHold DEF RoundPlaces
  <2>. QED
    BY <2>1, <2>4, <2>5 DEF Rounds!FanoutInit, Visiting
<1>2. Init => IdxInv
  BY DEF Init, IdxInv
<1>3. Invariant /\ IdxInv /\ [Next]_vars => IdxInv'
  BY IdxStep
<1>4. Invariant /\ HeldPcmIsOpen /\ IdxInv /\ [Next]_vars => [Rounds!FanoutNext]_RoundVars
  <2>. SUFFICES ASSUME Invariant, HeldPcmIsOpen, IdxInv, [Next]_vars
                PROVE  [Rounds!FanoutNext]_RoundVars
    OBVIOUS
  <2>1. CASE Deinit
    <3>1. running' = FALSE /\ UNCHANGED <<list, player>>
      BY <2>1 DEF Deinit
    <3>2. Cards' = Cards /\ Todo' = Todo /\ Visiting' = Visiting
      BY <3>1 DEF Cards, Todo, Visiting, Writing
    <3>. QED
      BY <3>1, <3>2 DEF Rounds!FanoutNext, Rounds!Stop, Visiting
  <2>2. CASE ClientWrite \/ UNCHANGED vars
    BY <2>2 DEF ClientWrite, vars, RoundVars, Cards, Todo, Visiting, Writing
  <2>3. CASE Player
    BY <2>3, PlayerRounds
  <2>4. CASE IpcSteps
    BY <2>4, IpcRounds
  <2>. QED
    BY <2>1, <2>2, <2>3, <2>4 DEF Next, IpcSteps
<1>5. RoundVars = <<running, Cards, Todo, IF Writing THEN player.pcm ELSE NULL>>
  BY DEF RoundVars, Visiting
<1>. QED
  BY <1>1, <1>2, <1>3, <1>4, Inductive, HeldAlwaysOpen, PTL
     DEF Spec, FanoutSpec, Rounds!FanoutSpec, RoundVars, Visiting

=============================================================================
