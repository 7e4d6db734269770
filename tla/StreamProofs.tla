---------------------------- MODULE StreamProofs ----------------------------
(***************************************************************************)
(* What the playback thread and the IPC receive thread of PlaybackStream   *)
(* keep true for any cards, periods and buffer size.  Two things hold      *)
(* whether or not the locks work, as only one thread changes them: the     *)
(* card list agrees with the PCMs, and the stream buffer with its size.    *)
(* What the playback thread uses stays valid because the owner of a mutex  *)
(* is the thread between its lock and its unlock: that part has LocksWork  *)
(* as a hypothesis.                                                        *)
(***************************************************************************)
EXTENDS PlaybackStream, FiniteSetTheorems, SequenceTheorems, TLAPS

-----------------------------------------------------------------------------
(* The card list and the PCMs. *)

HolePc  == {"drop", "clear", "free", "shift"}

\* A card has a slot.
Listed(c) == \E i \in Slots : list.slot[i] = c

\* The state of the PCM of the card of a request while the card is in no slot.
Unlisted(pc) ==
    IF pc \in OpenPc \cup {"drop"} THEN "open"
    ELSE IF pc = "clear" THEN "closed"
    ELSE IF pc = "free" THEN "null"
    ELSE "none"

\* Types of what the IPC receive thread changes; a slot is free while a request to open is on.
ListTypes ==
    /\ ipc \in [pc : IpcPc, card : Card \cup {NULL}]
    /\ ipc.pc # "idle" => ipc.card \in Card
    /\ list \in [slot : [Slots -> Card \cup {NULL}], card_num : 0..CardMax]
    /\ pcm \in [Card -> PcmState]
    /\ ipc.pc \in OpenPc => list.card_num < CardMax

\* The slots up to card_num hold different cards; while a card is taken out, one of them is
\* empty.
Shape ==
    /\ \A i, j \in Slots : list.slot[i] = list.slot[j] => list.slot[i] = NULL \/ i = j
    /\ ipc.pc \notin HolePc => \A i \in Slots : list.slot[i] = NULL <=> i > list.card_num
    /\ ipc.pc \in HolePc =>
          \E h \in 1..list.card_num :
             \A i \in Slots : list.slot[i] = NULL <=> i = h \/ i > list.card_num

\* The PCMs are those of the listed cards, but for the card of the request.
PcmIsListed ==
    /\ \A c \in Card : pcm[c] = IF Listed(c) THEN "open"
                                ELSE IF c = ipc.card THEN Unlisted(ipc.pc) ELSE "none"
    /\ ipc.pc \in OpenPc \cup HolePc => ~Listed(ipc.card)

ListInv == ListTypes /\ Shape /\ PcmIsListed

\* la_playback_open_pcm finds a card on the list if and only if a slot holds it.
LEMMA OpenedIsListed ==
    ASSUME ListInv, NEW c \in Card
    PROVE  c \in Opened <=> Listed(c)
<1>1. list.card_num \in 0..CardMax /\ NULL \notin Card /\ CardMax \in Nat
  BY StreamAssumption DEF ListInv, ListTypes
<1>2. \A i \in Slots : list.slot[i] # NULL => i \in 1..list.card_num
  BY <1>1 DEF ListInv, Shape, Slots
<1>3. \A i \in 1..list.card_num : i \in Slots
  BY <1>1 DEF Slots
<1>. QED
  BY <1>1, <1>2, <1>3 DEF Opened, Listed

\* The places of the IPC receive thread.
LEMMA IpcPcs ==
    /\ OpenPc \cup HolePc \cup {"idle", "unlock", "close_lock", "find"} \subseteq IpcPc
    /\ "idle" \notin OpenPc \cup HolePc
    /\ OpenPc \cap HolePc = {}
    /\ {"unlock", "close_lock", "find"} \cap (OpenPc \cup HolePc) = {}
BY DEF IpcPc, OpenPc, ClosePc, HolePc

\* A step of opening a PCM that changes neither the list nor a PCM.
LEMMA OpenOn ==
    ASSUME ListInv, NEW to \in OpenPc, ipc.pc \in OpenPc, ipc' = [ipc EXCEPT !.pc = to],
           UNCHANGED <<list, pcm>>
    PROVE  ListInv'
<1>1. ipc' \in [pc : IpcPc, card : Card \cup {NULL}] /\ ipc'.pc = to /\ ipc'.card = ipc.card
  BY IpcPcs DEF ListInv, ListTypes
<1>2. ListTypes'
  BY <1>1, IpcPcs DEF ListInv, ListTypes
<1>3. Shape'
  BY <1>1, IpcPcs DEF ListInv, Shape
<1>4. PcmIsListed'
  BY <1>1, IpcPcs DEF ListInv, PcmIsListed, Unlisted, Listed
<1>. QED
  BY <1>2, <1>3, <1>4 DEF ListInv

\* Outside of these the request has no card of its own.
Outside == {"idle", "unlock", "close_lock", "find"}

\* A step between two of the places outside that changes neither the list nor a PCM.
LEMMA OutsideOn ==
    ASSUME ListInv, ipc.pc \in Outside, UNCHANGED <<list, pcm>>,
           ipc' \in [pc : Outside, card : Card \cup {NULL}],
           ipc'.pc # "idle" => ipc'.card \in Card
    PROVE  ListInv'
<1>1. ipc.pc \notin OpenPc \cup HolePc /\ ipc'.pc \notin OpenPc \cup HolePc /\ ipc'.pc \in IpcPc
  BY IpcPcs DEF Outside
<1>2. ipc' \in [pc : IpcPc, card : Card \cup {NULL}]
  BY <1>1
<1>3. ListTypes'
  BY <1>1, <1>2 DEF ListInv, ListTypes
<1>4. Shape'
  BY <1>1 DEF ListInv, Shape
<1>5. Unlisted(ipc.pc) = "none" /\ Unlisted(ipc'.pc) = "none"
  BY <1>1 DEF Unlisted, HolePc
<1>6. PcmIsListed'
  BY <1>1, <1>5 DEF ListInv, PcmIsListed, Listed
<1>. QED
  BY <1>3, <1>4, <1>6 DEF ListInv

\* snd_pcm_open: the PCM of a card without a slot.
LEMMA OpenPcmList == ASSUME ListInv, NEW c \in Card, OpenPcm(c) PROVE ListInv'
<1>1. /\ ipc.pc = "idle" /\ list.card_num < CardMax
      /\ ipc' = [pc |-> "open_lock_stream", card |-> c]
      /\ pcm' = [pcm EXCEPT ![c] = "open"]
      /\ list' = list
      /\ ~Listed(c)
  BY OpenedIsListed DEF OpenPcm
<1>2. "open_lock_stream" \in OpenPc /\ "open" \in PcmState
  BY DEF OpenPc, PcmState
<1>3. ListTypes'
  BY <1>1, <1>2, IpcPcs DEF ListInv, ListTypes
<1>4. Shape'
  BY <1>1, <1>2, IpcPcs DEF ListInv, Shape
<1>5. Unlisted(ipc.pc) = "none" /\ Unlisted(ipc'.pc) = "open"
  BY <1>1, <1>2, IpcPcs DEF Unlisted, HolePc
<1>6. PcmIsListed'
  BY <1>1, <1>2, <1>5, IpcPcs DEF ListInv, ListTypes, PcmIsListed, Listed
<1>. QED
  BY <1>3, <1>4, <1>6 DEF ListInv

\* The card goes to the first free slot.
LEMMA InsertPcmList == ASSUME ListInv, InsertPcm PROVE ListInv'
<1>. DEFINE n == list.card_num
<1>1. /\ ipc.pc = "insert" /\ ipc' = [ipc EXCEPT !.pc = "unlock"]
      /\ list' = [slot |-> [list.slot EXCEPT ![n + 1] = ipc.card], card_num |-> n + 1]
      /\ pcm' = pcm
  BY DEF InsertPcm, IpcGoes
<1>2. "insert" \in OpenPc
  BY DEF OpenPc
<1>3. n \in Nat /\ n < CardMax /\ CardMax \in Nat /\ n + 1 \in Slots /\ ipc.card \in Card
      /\ NULL \notin Card
  BY <1>1, <1>2, StreamAssumption DEF ListInv, ListTypes, Slots
<1>4. ipc' \in [pc : IpcPc, card : Card \cup {NULL}] /\ ipc'.pc = "unlock" /\ ipc'.card = ipc.card
  BY <1>1, IpcPcs DEF ListInv, ListTypes
<1>5. list'.slot \in [Slots -> Card \cup {NULL}] /\ list'.card_num = n + 1
      /\ list' \in [slot : [Slots -> Card \cup {NULL}], card_num : 0..CardMax]
  BY <1>1, <1>3 DEF ListInv, ListTypes
<1>6. ListTypes'
  BY <1>1, <1>4, <1>5, <1>3, IpcPcs DEF ListInv, ListTypes
<1>7. \A i \in Slots : list'.slot[i] = IF i = n + 1 THEN ipc.card ELSE list.slot[i]
  BY <1>1, <1>3 DEF ListInv, ListTypes
<1>8. Shape'
  <2>1. \A i \in Slots : i \in Nat /\ (list.slot[i] = NULL <=> i > n) /\ list.slot[i] # ipc.card
    BY <1>1, <1>2, <1>3, IpcPcs DEF ListInv, Shape, PcmIsListed, Listed, Slots
  <2>2. \A i \in Slots : list'.slot[i] = NULL <=> i > n + 1
    BY <2>1, <1>3, <1>7
  <2>3. \A i, j \in Slots : list'.slot[i] = list'.slot[j] => list'.slot[i] = NULL \/ i = j
    BY <2>1, <1>3, <1>7 DEF ListInv, Shape
  <2>. QED
    BY <2>2, <2>3, <1>4, <1>5, IpcPcs DEF Shape
<1>9. PcmIsListed'
  <2>1. \A c \in Card : Listed(c)' <=> Listed(c) \/ c = ipc.card
    <3>1. \A i \in Slots : i = n + 1 => list.slot[i] = NULL
      BY <1>1, <1>2, <1>3, IpcPcs DEF ListInv, Shape
    <3>. QED
      BY <3>1, <1>3, <1>7 DEF Listed
  <2>2. Unlisted(ipc.pc) = "open"
    BY <1>1, <1>2 DEF Unlisted
  <2>. QED
    BY <2>1, <2>2, <1>1, <1>2, <1>3, <1>4, IpcPcs DEF ListInv, PcmIsListed
<1>. QED
  BY <1>6, <1>8, <1>9 DEF ListInv

\* The slot of the card of the request is emptied.
LEMMA FindPcmList == ASSUME ListInv, FindPcm PROVE ListInv'
<1>. DEFINE n == list.card_num
            found == ipc.card \in Opened
<1>1. /\ ipc.pc = "find" /\ ipc' = [ipc EXCEPT !.pc = IF found THEN "drop" ELSE "unlock"]
      /\ list' = [list EXCEPT !.slot =
                     [i \in Slots |-> IF list.slot[i] = ipc.card THEN NULL ELSE list.slot[i]]]
      /\ pcm' = pcm
  BY DEF FindPcm, IpcGoes
<1>2. "drop" \in HolePc /\ "find" \notin OpenPc \cup HolePc
  BY IpcPcs DEF HolePc
<1>3. n \in Nat /\ n <= CardMax /\ CardMax \in Nat /\ ipc.card \in Card /\ NULL \notin Card
  BY <1>1, <1>2, IpcPcs, StreamAssumption DEF ListInv, ListTypes, Slots
<1>4. found <=> Listed(ipc.card)
  BY <1>3, OpenedIsListed
<1>. HIDE DEF found
<1>5. /\ ipc' \in [pc : IpcPc, card : Card \cup {NULL}] /\ ipc'.card = ipc.card
      /\ ipc'.pc = IF found THEN "drop" ELSE "unlock"
  BY <1>1, <1>2, IpcPcs DEF ListInv, ListTypes
<1>6. /\ list' \in [slot : [Slots -> Card \cup {NULL}], card_num : 0..CardMax]
      /\ list'.card_num = n
      /\ \A i \in Slots : list'.slot[i] = IF list.slot[i] = ipc.card THEN NULL ELSE list.slot[i]
  BY <1>1 DEF ListInv, ListTypes
<1>7. ListTypes'
  BY <1>1, <1>2, <1>3, <1>5, <1>6, IpcPcs DEF ListInv, ListTypes
<1>8. \A i \in Slots : i \in Nat \ {0} /\ (list.slot[i] = NULL <=> i > n)
  BY <1>1, <1>2 DEF ListInv, Shape, Slots
<1>9. \A i, j \in Slots : list.slot[i] = list.slot[j] => list.slot[i] = NULL \/ i = j
  BY DEF ListInv, Shape
<1>10. Shape'
  <2>1. \A i, j \in Slots : list'.slot[i] = list'.slot[j] => list'.slot[i] = NULL \/ i = j
    BY <1>6, <1>9
  <2>2. CASE found
    <3>1. PICK h \in Slots : list.slot[h] = ipc.card
      BY <1>4, <2>2 DEF Listed
    <3>2. h \in 1..n
      BY <3>1, <1>3, <1>8
    <3>3. \A i \in Slots : list'.slot[i] = NULL <=> i = h \/ i > n
      BY <3>1, <1>3, <1>6, <1>8, <1>9
    <3>. QED
      BY <3>2, <3>3, <2>1, <2>2, <1>5, <1>6, <1>2, IpcPcs DEF Shape
  <2>3. CASE ~found
    <3>1. \A i \in Slots : list'.slot[i] = list.slot[i]
      BY <1>4, <1>6, <2>3 DEF Listed
    <3>. QED
      BY <3>1, <2>1, <2>3, <1>5, <1>6, <1>8, IpcPcs DEF Shape
  <2>. QED
    BY <2>2, <2>3
<1>11. PcmIsListed'
  <2>1. \A c \in Card : Listed(c)' <=> Listed(c) /\ c # ipc.card
    BY <1>3, <1>6 DEF Listed
  <2>2. pcm[ipc.card] = IF found THEN "open" ELSE "none"
    BY <1>1, <1>2, <1>3, <1>4 DEF ListInv, PcmIsListed, Unlisted, HolePc
  <2>3. Unlisted(ipc'.pc) = IF found THEN "open" ELSE "none"
    BY <1>5, <1>2, IpcPcs DEF Unlisted, HolePc
  <2>. QED
    BY <2>1, <2>2, <2>3, <1>1, <1>3, <1>5 DEF ListInv, PcmIsListed
<1>. QED
  BY <1>7, <1>10, <1>11 DEF ListInv

\* A step of closing a PCM: what becomes of the PCM whose card has left the list.
LEMMA HoleOn ==
    ASSUME ListInv, ipc.pc \in HolePc, NEW to \in HolePc, ipc' = [ipc EXCEPT !.pc = to],
           NEW state \in PcmState, pcm' = [pcm EXCEPT ![ipc.card] = state], list' = list,
           state = Unlisted(to)
    PROVE  ListInv'
<1>1. ipc' \in [pc : IpcPc, card : Card \cup {NULL}] /\ ipc'.pc = to /\ ipc'.card = ipc.card
  BY IpcPcs DEF ListInv, ListTypes
<1>2. ListTypes'
  BY <1>1, IpcPcs DEF ListInv, ListTypes
<1>3. Shape'
  BY <1>1 DEF ListInv, Shape
<1>4. PcmIsListed'
  BY <1>1, IpcPcs DEF ListInv, ListTypes, PcmIsListed, Listed
<1>. QED
  BY <1>2, <1>3, <1>4 DEF ListInv

\* A list with a hole, and what it is once the slots behind the hole have moved up.
ListRecord == [slot : [Slots -> Card \cup {NULL}], card_num : 0..CardMax]

HoleAt(l, h) ==
    /\ h \in 1..l.card_num
    /\ \A i \in Slots : l.slot[i] = NULL <=> i = h \/ i > l.card_num

\* The CHOOSE of the shift finds the hole: there is only one.
LEMMA ShiftedFacts ==
    ASSUME NEW l \in ListRecord, NEW h, HoleAt(l, h)
    PROVE  Shifted(l) = [slot |-> [i \in Slots |->
                                      IF i >= l.card_num THEN NULL
                                      ELSE IF i >= h THEN l.slot[i + 1] ELSE l.slot[i]],
                         card_num |-> l.card_num - 1]
<1>. DEFINE n == l.card_num
            hole == CHOOSE i \in 1..n : l.slot[i] = NULL
<1>1. n \in Nat /\ n <= CardMax /\ CardMax \in Nat /\ h \in 1..n
  BY StreamAssumption DEF ListRecord, HoleAt
<1>2. \A i \in 1..n : i \in Slots /\ (l.slot[i] = NULL <=> i = h)
  BY <1>1 DEF Slots, HoleAt
<1>3. hole = h
  BY <1>1, <1>2
<1>4. Shifted(l) = [slot |-> [i \in Slots |-> IF i = n THEN NULL
                                            ELSE IF i \in hole..(n - 1) THEN l.slot[i + 1]
                                            ELSE l.slot[i]],
                    card_num |-> n - 1]
  BY DEF Shifted
<1>. HIDE DEF hole
<1>5. \A i \in Slots : (IF i = n THEN NULL
                        ELSE IF i \in hole..(n - 1) THEN l.slot[i + 1] ELSE l.slot[i])
                     = (IF i >= n THEN NULL
                        ELSE IF i >= h THEN l.slot[i + 1] ELSE l.slot[i])
  BY <1>1, <1>2, <1>3 DEF Slots, HoleAt
<1>. QED
  BY <1>4, <1>5

\* What ShiftList makes of the list.
LEMMA ShiftFacts ==
    ASSUME ListInv, ipc.pc = "shift", ShiftList
    PROVE  \E h \in 1..list.card_num :
              /\ \A i \in Slots : list.slot[i] = NULL <=> i = h \/ i > list.card_num
              /\ list' = [slot |-> [i \in Slots |->
                                       IF i >= list.card_num THEN NULL
                                       ELSE IF i >= h THEN list.slot[i + 1] ELSE list.slot[i]],
                          card_num |-> list.card_num - 1]
<1>1. list \in ListRecord /\ \E h \in 1..list.card_num : HoleAt(list, h)
  BY DEF ListInv, ListTypes, Shape, ListRecord, HoleAt, HolePc
<1>. QED
  BY <1>1, ShiftedFacts DEF ShiftList, HoleAt

\* Closing ends: the slots behind the hole move up.
LEMMA ShiftListList == ASSUME ListInv, ShiftList PROVE ListInv'
<1>. DEFINE n == list.card_num
<1>1. ipc.pc = "shift" /\ ipc' = [ipc EXCEPT !.pc = "unlock"] /\ pcm' = pcm
  BY DEF ShiftList, IpcGoes
<1>2. PICK h \in 1..n :
        /\ \A i \in Slots : list.slot[i] = NULL <=> i = h \/ i > n
        /\ list' = [slot |-> [i \in Slots |-> IF i >= n THEN NULL
                                              ELSE IF i >= h THEN list.slot[i + 1]
                                              ELSE list.slot[i]],
                    card_num |-> n - 1]
  BY <1>1, ShiftFacts
<1>3. "shift" \in HolePc /\ n \in Nat /\ n <= CardMax /\ CardMax \in Nat /\ NULL \notin Card
      /\ ipc.card \in Card
  BY <1>1, IpcPcs, StreamAssumption DEF HolePc, ListInv, ListTypes
<1>4. ipc' \in [pc : IpcPc, card : Card \cup {NULL}] /\ ipc'.card = ipc.card /\ ipc'.pc = "unlock"
  BY <1>1, IpcPcs DEF ListInv, ListTypes
<1>5. \A i \in Slots : i < n => i + 1 \in Slots
  BY <1>3 DEF Slots
<1>6. list' \in [slot : [Slots -> Card \cup {NULL}], card_num : 0..CardMax]
  <2>1. list'.slot \in [Slots -> Card \cup {NULL}]
    BY <1>2, <1>3, <1>5 DEF ListInv, ListTypes, Slots
  <2>2. list'.card_num \in 0..CardMax
    BY <1>2, <1>3
  <2>3. list' = [slot |-> list'.slot, card_num |-> list'.card_num]
    BY <1>2
  <2>. QED
    BY <2>1, <2>2, <2>3
<1>7. ListTypes'
  BY <1>1, <1>4, <1>6, <1>3, IpcPcs DEF ListInv, ListTypes
<1>8. \A i \in Slots : i \in Nat \ {0}
  BY DEF Slots
<1>9. \A i \in Slots : list'.slot[i] = IF i >= n THEN NULL
                                       ELSE IF i >= h THEN list.slot[i + 1] ELSE list.slot[i]
  BY <1>2
<1>10. Shape'
  <2>1. \A i, j \in Slots : list.slot[i] = list.slot[j] => list.slot[i] = NULL \/ i = j
    BY DEF ListInv, Shape
  <2>2. \A i, j \in Slots : list'.slot[i] = list'.slot[j] => list'.slot[i] = NULL \/ i = j
    BY <2>1, <1>2, <1>3, <1>5, <1>8, <1>9
  <2>3. \A i \in Slots : list'.slot[i] = NULL <=> i > n - 1
    BY <1>2, <1>3, <1>5, <1>8, <1>9
  <2>. QED
    BY <2>2, <2>3, <1>2, <1>4, IpcPcs DEF Shape
<1>11. PcmIsListed'
  <2>1. ASSUME NEW c \in Card
        PROVE  Listed(c)' <=> Listed(c)
    <3>1. ASSUME NEW i \in Slots, list'.slot[i] = c
          PROVE  Listed(c)
      <4>1. i < n /\ i + 1 \in Slots
        BY <3>1, <1>3, <1>5, <1>8, <1>9
      <4>2. list.slot[i] = c \/ list.slot[i + 1] = c
        BY <3>1, <4>1, <1>3, <1>8, <1>9
      <4>. QED
        BY <4>1, <4>2 DEF Listed
    <3>2. ASSUME NEW i \in Slots, list.slot[i] = c
          PROVE  Listed(c)'
      <4>1. i # h /\ i <= n
        BY <3>2, <1>2, <1>3, <1>8
      <4>2. CASE i < h
        <5>1. list'.slot[i] = c
          BY <4>1, <4>2, <3>2, <1>3, <1>8, <1>9
        <5>. QED
          BY <5>1 DEF Listed
      <4>3. CASE i > h
        <5>1. i - 1 \in Slots /\ i - 1 >= h /\ i - 1 < n /\ (i - 1) + 1 = i
          BY <4>1, <4>3, <1>3 DEF Slots
        <5>2. list'.slot[i - 1] = c
          <6>1. ~(i - 1 >= n)
            BY <5>1, <1>3, <1>8
          <6>. QED
            BY <5>1, <6>1, <3>2, <1>9
        <5>. QED
          BY <5>1, <5>2 DEF Listed
      <4>. QED
        BY <4>1, <4>2, <4>3, <1>8
    <3>. QED
      BY <3>1, <3>2 DEF Listed
  <2>2. Unlisted(ipc.pc) = "none" /\ Unlisted(ipc'.pc) = "none"
    BY <1>1, <1>4 DEF Unlisted, OpenPc
  <2>. QED
    BY <2>1, <2>2, <1>1, <1>4, IpcPcs DEF ListInv, PcmIsListed
<1>. QED
  BY <1>7, <1>10, <1>11 DEF ListInv

\* Every step keeps the list and the PCMs in agreement.
LEMMA ListStep == ASSUME ListInv, [Next]_vars PROVE ListInv'
<1>1. CASE UNCHANGED <<ipc, list, pcm>>
  BY <1>1 DEF ListInv, ListTypes, Shape, PcmIsListed, Unlisted, Listed
<1>2. ASSUME NEW c \in Card, OpenPcm(c)
      PROVE  ListInv'
  BY <1>2, OpenPcmList
<1>3. ASSUME NEW c \in Card, ClosePcm(c)
      PROVE  ListInv'
  BY <1>3, OutsideOn DEF ClosePcm, Outside
<1>4. CASE IpcGoesOn
  <2>1. CASE OpenLockStream \/ OpenLock \/ GrowStream \/ ReallocStream \/ StoreStream
             \/ OpenUnlockStream
    <3>1. \E from, to \in OpenPc : ipc.pc = from /\ ipc' = [ipc EXCEPT !.pc = to]
      BY <2>1 DEF OpenLockStream, OpenLock, GrowStream, ReallocStream, StoreStream,
         OpenUnlockStream, IpcGoes, OpenPc
    <3>2. UNCHANGED <<list, pcm>>
      BY <2>1 DEF OpenLockStream, OpenLock, GrowStream, ReallocStream, StoreStream,
         OpenUnlockStream
    <3>. QED
      BY <3>1, <3>2, OpenOn
  <2>2. CASE CloseLock
    <3>1. ipc.pc = "close_lock" /\ ipc' = [ipc EXCEPT !.pc = "find"] /\ UNCHANGED <<list, pcm>>
      BY <2>2 DEF CloseLock, IpcGoes
    <3>2. ipc \in [pc : IpcPc, card : Card \cup {NULL}] /\ ipc.card \in Card
      BY <3>1 DEF ListInv, ListTypes
    <3>. QED
      BY <3>1, <3>2, OutsideOn DEF Outside
  <2>3. CASE InsertPcm
    BY <2>3, InsertPcmList
  <2>4. CASE FindPcm
    BY <2>4, FindPcmList
  <2>5. CASE DropPcm \/ ClearHandle \/ FreePcm
    <3>1. /\ {"drop", "clear", "free", "shift"} \subseteq HolePc
          /\ {"closed", "null", "none"} \subseteq PcmState
          /\ Unlisted("clear") = "closed" /\ Unlisted("free") = "null"
          /\ Unlisted("shift") = "none"
      BY DEF HolePc, PcmState, Unlisted, OpenPc
    <3>2. CASE DropPcm
      <4>1. IpcGoes("drop", "clear") /\ PcmBecomes("closed")
        BY <3>2 DEF DropPcm
      <4>. QED
        BY <3>1, <4>1, HoleOn DEF IpcGoes, PcmBecomes
    <3>3. CASE ClearHandle
      <4>1. IpcGoes("clear", "free") /\ PcmBecomes("null")
        BY <3>3 DEF ClearHandle
      <4>. QED
        BY <3>1, <4>1, HoleOn DEF IpcGoes, PcmBecomes
    <3>4. CASE FreePcm
      <4>1. IpcGoes("free", "shift") /\ PcmBecomes("none")
        BY <3>4 DEF FreePcm
      <4>. QED
        BY <3>1, <4>1, HoleOn DEF IpcGoes, PcmBecomes
    <3>. QED
      BY <2>5, <3>2, <3>3, <3>4
  <2>6. CASE ShiftList
    BY <2>6, ShiftListList
  <2>7. CASE IpcUnlock
    BY <2>7, OutsideOn DEF IpcUnlock, Outside
  <2>. QED
    BY <1>4, <2>1, <2>2, <2>3, <2>4, <2>5, <2>6, <2>7 DEF IpcGoesOn, IpcLocks
<1>5. ClientWrite \/ Deinit \/ Player \/ UNCHANGED vars => UNCHANGED <<ipc, list, pcm>>
  BY DEF ClientWrite, Deinit, Player, vars, Select, PlayerLockStream, LoadStream, ReadFifo,
     PlayerUnlockStream, CountCards, PlayerLock, ScanList, CheckPcm, WritePcm, StartPcm,
     PlayerUnlock,
     CancelPlayer
<1>. QED
  BY <1>1, <1>2, <1>3, <1>4, <1>5 DEF Next

\* The list of la_playback_probe is empty.
LEMMA ListInit == Init => ListInv
<1>. SUFFICES ASSUME Init PROVE ListInv
  OBVIOUS
<1>1. ipc = [pc |-> "idle", card |-> NULL] /\ pcm = [c \in Card |-> "none"]
      /\ list = [slot |-> [i \in Slots |-> NULL], card_num |-> 0]
  BY DEF Init
<1>2. "none" \in PcmState
  BY DEF PcmState
<1>3. ListTypes
  BY <1>1, <1>2, IpcPcs, StreamAssumption DEF ListTypes
<1>4. Shape
  BY <1>1, IpcPcs DEF Shape, Slots
<1>5. PcmIsListed
  BY <1>1, IpcPcs, StreamAssumption DEF PcmIsListed, Listed, Unlisted, HolePc
<1>. QED
  BY <1>3, <1>4, <1>5 DEF ListInv

\* Between requests the agreement is what ListIsTrue says.
LEMMA ListInvIsTrue == ASSUME ListInv PROVE ListIsTrue
<1>. SUFFICES ASSUME ipc.pc = "idle"
              PROVE  /\ \A c \in Card : pcm[c] = IF c \in Opened THEN "open" ELSE "none"
                     /\ Cardinality(Opened) = list.card_num
                     /\ \A i \in Slots : i > list.card_num => list.slot[i] = NULL
  BY DEF ListIsTrue
<1>1. Unlisted(ipc.pc) = "none"
  BY IpcPcs DEF Unlisted, HolePc
<1>2. ASSUME NEW c \in Card
      PROVE  pcm[c] = IF c \in Opened THEN "open" ELSE "none"
  BY <1>1, OpenedIsListed DEF ListInv, PcmIsListed
<1>. DEFINE n == list.card_num
            f == [i \in 1..n |-> list.slot[i]]
<1>3. n \in Nat /\ n <= CardMax /\ CardMax \in Nat
  BY StreamAssumption DEF ListInv, ListTypes
<1>4. \A i \in Slots : list.slot[i] = NULL <=> i > n
  BY IpcPcs DEF ListInv, Shape
<1>5. \A i \in 1..n : i \in Slots /\ list.slot[i] # NULL
  BY <1>3, <1>4 DEF Slots
<1>6. f \in Bijection(1..n, Opened)
  <2>1. f \in [1..n -> Opened]
    BY <1>5 DEF Opened
  <2>2. \A i, j \in 1..n : f[i] = f[j] => i = j
    BY <1>5 DEF ListInv, Shape
  <2>3. \A c \in Opened : \E i \in 1..n : f[i] = c
    BY DEF Opened
  <2>. QED
    BY <2>1, <2>2, <2>3 DEF Bijection, Injection, Surjection, IsInjective
<1>7. Cardinality(Opened) = n
  BY <1>3, <1>6, FS_CountingElements DEF ExistsBijection
<1>. QED
  BY <1>2, <1>4, <1>7

-----------------------------------------------------------------------------
(* The parts of the invariant that concern the playback thread. *)

\* The places where the playback thread holds a PCM.
Holding == {"check", "write", "rewrite"}

PlayerRecord == [pc : PlayerPc, got : Nat, ptr : Nat, idx : 1..(CardMax + 1),
                 pcm : Card \cup {NULL}]

\* A PCM is held only while idx is a slot.
PlayerInv ==
    /\ player \in PlayerRecord
    /\ player.pc \in Holding => player.pcm \in Card /\ player.idx <= CardMax

\* Outside of a realloc, stream is the block that is allocated, and stream_len its size.
BufferInv ==
    /\ buffer \in [stream : Nat, stream_len : Nat, chunk : Nat, block : Nat]
    /\ chunk_bytes \in [Card -> Nat]
    /\ buffer.chunk <= buffer.stream_len
    /\ ipc.pc \notin {"realloc", "store"} => buffer.stream = buffer.stream_len
    /\ ipc.pc # "realloc" => buffer.block = buffer.stream_len

\* The FIFO holds what the client has sent and nobody has read.
FifoInv ==
    /\ running \in BOOLEAN
    /\ fifo \in Nat /\ sent \in Nat /\ fifo <= sent /\ sent <= Bytes
    /\ start \subseteq Card

\* A thread between the la_mutex_lock and the la_mutex_unlock of m.
In(t, m) == IF t = "player" THEN PlayerIn(m) ELSE IpcIn(m)

\* The thread inside owns the mutex: with la_assert that is what keeps the other out.
OwnerInv ==
    /\ owner \in [Mutex -> Threads \cup {NULL}]
    /\ LocksWork => \A t \in Threads, m \in Mutex : In(t, m) => owner[m] = t

\* What the playback thread has taken out of the buffer and the list is still there while it is
\* inside of the mutex.
UseInv ==
    LocksWork =>
        /\ player.pc = "read" => player.ptr = buffer.stream
        /\ player.pc \in Holding => /\ player.idx <= list.card_num
                                    /\ list.slot[player.idx] = player.pcm

Types == PlayerInv /\ ListInv /\ BufferInv /\ FifoInv

\* The inductive invariant.  Only what concerns the mutexes depends on LocksWork.
Invariant == Types /\ OwnerInv /\ UseInv

-----------------------------------------------------------------------------
(* The types and the buffer. *)

\* The places of the playback thread.
LEMMA PlayerPcs ==
    /\ {"select", "lock_stream", "load", "read", "unlock_stream", "count", "lock", "scan", "check",
        "write", "rewrite", "unlock", "done"} \subseteq PlayerPc
    /\ Holding \subseteq PlayerPc
    /\ {"select", "lock_stream", "load", "read", "unlock_stream", "count", "lock", "scan", "unlock",
        "done"} \cap Holding = {}
    /\ "check" \in Holding /\ "write" \in Holding /\ "rewrite" \in Holding
BY DEF PlayerPc, Holding

\* Going on to the following slot leaves idx at most one behind the last.
LEMMA FollowingFacts ==
    ASSUME NEW p \in PlayerRecord, p.idx <= CardMax
    PROVE  Following(p) \in PlayerRecord /\ Following(p).pc = "scan"
<1>1. p.idx + 1 \in 1..(CardMax + 1)
  BY StreamAssumption DEF PlayerRecord
<1>. QED
  BY <1>1, PlayerPcs DEF PlayerRecord, Following

\* The steps of the IPC receive thread.
IpcSteps == IpcGoesOn \/ \E c \in Card : OpenPcm(c) \/ ClosePcm(c)

\* The steps of one thread leave what belongs to the other.
LEMMA PlayerFrame == Player => UNCHANGED <<running, sent, buffer, chunk_bytes, list, pcm, ipc>>
BY DEF Player, Select, PlayerLockStream, LoadStream, ReadFifo, PlayerUnlockStream, CountCards,
   PlayerLock,
   ScanList, CheckPcm, WritePcm, StartPcm, PlayerUnlock, CancelPlayer

\* The steps of the IPC receive thread leave what belongs to the playback thread.
LEMMA IpcFrame == IpcSteps => UNCHANGED <<running, fifo, sent, player>>
BY DEF IpcSteps, IpcGoesOn, IpcLocks, OpenPcm, ClosePcm, OpenLockStream, OpenLock, CloseLock,
   GrowStream, ReallocStream, StoreStream, OpenUnlockStream, InsertPcm, FindPcm, DropPcm,
   ClearHandle, FreePcm, ShiftList, IpcUnlock, PcmBecomes

\* Every step keeps the types of the playback thread.
LEMMA PlayerStep ==
    ASSUME PlayerInv, ListInv, BufferInv, FifoInv, [Next]_vars
    PROVE  PlayerInv'
<1>0. player \in PlayerRecord /\ buffer.stream \in Nat /\ buffer.chunk \in Nat /\ fifo \in Nat
  BY DEF PlayerInv, BufferInv, FifoInv
<1>. SUFFICES ASSUME Player PROVE PlayerInv'
  <2>1. UNCHANGED player => PlayerInv'
    BY DEF PlayerInv
  <2>2. ClientWrite \/ Deinit \/ UNCHANGED vars => UNCHANGED player
    BY DEF ClientWrite, Deinit, vars
  <2>. QED
    BY <2>1, <2>2, IpcFrame DEF Next, IpcSteps
<1>1. ASSUME NEW from, NEW to \in PlayerPc \ Holding, PlayerGoes(from, to)
      PROVE  PlayerInv'
  BY <1>0, <1>1 DEF PlayerInv, PlayerGoes, PlayerRecord
<1>2. CASE Select
  BY <1>1, <1>2, PlayerPcs DEF Select
<1>3. CASE PlayerLockStream
  BY <1>1, <1>3, PlayerPcs DEF PlayerLockStream
<1>4. CASE LoadStream
  BY <1>0, <1>4, PlayerPcs DEF LoadStream, PlayerInv, PlayerRecord
<1>5. CASE ReadFifo
  BY <1>0, <1>5, PlayerPcs DEF ReadFifo, PlayerInv, PlayerRecord
<1>6. CASE PlayerUnlockStream \/ CountCards
  <2>1. CASE PlayerUnlockStream
    BY <1>1, <2>1, PlayerPcs DEF PlayerUnlockStream
  <2>2. CASE CountCards
    BY <1>0, <2>2, PlayerPcs DEF CountCards, PlayerInv, PlayerRecord
  <2>. QED
    BY <1>6, <2>1, <2>2
<1>7. CASE PlayerLock
  BY <1>1, <1>7, PlayerPcs DEF PlayerLock
<1>8. CASE ScanList
  <2>1. list.card_num \in 0..CardMax /\ list.slot \in [Slots -> Card \cup {NULL}]
        /\ player.idx \in Nat \ {0} /\ CardMax \in Nat
    BY <1>0, StreamAssumption DEF ListInv, ListTypes, PlayerRecord
  <2>2. CASE player.idx <= list.card_num /\ list.slot[player.idx] # NULL
    <3>1. player' = [player EXCEPT !.pc = "check", !.pcm = list.slot[player.idx]]
      BY <1>8, <2>2 DEF ScanList
    <3>2. player.idx <= CardMax /\ list.slot[player.idx] \in Card
      BY <2>1, <2>2 DEF Slots
    <3>. QED
      BY <1>0, <3>1, <3>2, PlayerPcs DEF PlayerInv, PlayerRecord
  <2>3. CASE ~(player.idx <= list.card_num /\ list.slot[player.idx] # NULL)
    BY <1>0, <1>8, <2>3, PlayerPcs DEF ScanList, PlayerInv, PlayerRecord
  <2>. QED
    BY <2>2, <2>3
<1>9. player.pc \in Holding => Following(player) \in PlayerRecord /\ Following(player).pc = "scan"
  BY FollowingFacts DEF PlayerInv
<1>10. CASE CheckPcm
  <2>1. player.pc = "check" /\ player.pc \in Holding
    BY <1>10, PlayerPcs DEF CheckPcm
  <2>2. CASE player' = Following(player)
    BY <1>9, <2>1, <2>2, PlayerPcs DEF PlayerInv
  <2>3. CASE player' = [player EXCEPT !.pc = "unlock", !.pcm = NULL]
    BY <1>0, <2>3, PlayerPcs DEF PlayerInv, PlayerRecord
  <2>4. CASE player' = [player EXCEPT !.pc = "write", !.ptr = buffer.stream]
    BY <1>0, <2>1, <2>4, PlayerPcs DEF PlayerInv, PlayerRecord
  <2>. QED
    BY <1>10, <2>2, <2>3, <2>4 DEF CheckPcm
<1>11. CASE WritePcm
  BY <1>9, <1>11, PlayerPcs DEF WritePcm, PlayerInv
<1>12. CASE StartPcm
  <2>1. player.pc \in Holding
    BY <1>12, PlayerPcs DEF StartPcm
  <2>2. CASE player' = Following(player)
    BY <1>9, <2>1, <2>2, PlayerPcs DEF PlayerInv
  <2>3. CASE player' = [player EXCEPT !.pc = "rewrite", !.ptr = buffer.stream]
    BY <1>0, <2>1, <2>3, PlayerPcs DEF PlayerInv, PlayerRecord
  <2>. QED
    BY <1>12, <2>2, <2>3 DEF StartPcm
<1>13. CASE PlayerUnlock
  <2>1. 1 \in 1..(CardMax + 1)
    BY StreamAssumption
  <2>. QED
    BY <1>0, <1>13, <2>1, PlayerPcs DEF PlayerUnlock, PlayerInv, PlayerRecord
<1>14. CASE CancelPlayer
  <2>1. 1 \in 1..(CardMax + 1)
    BY StreamAssumption
  <2>. QED
    BY <1>14, <2>1, PlayerPcs DEF CancelPlayer, PlayerInv, PlayerRecord
<1>. QED
  BY <1>2, <1>3, <1>4, <1>5, <1>6, <1>7, <1>8, <1>10, <1>11, <1>12, <1>13, <1>14 DEF Player

\* Every step keeps the stream buffer and its size together, whoever holds the mutex.
LEMMA BufferStep ==
    ASSUME BufferInv, ListInv, [Next]_vars
    PROVE  BufferInv'
<1>1. CASE UNCHANGED <<buffer, chunk_bytes, ipc>>
  BY <1>1 DEF BufferInv
<1>2. ASSUME NEW c \in Card, OpenPcm(c)
      PROVE  BufferInv'
  BY <1>2, StreamAssumption DEF OpenPcm, SetParams, BufferInv
<1>3. ASSUME NEW c \in Card, ClosePcm(c)
      PROVE  BufferInv'
  BY <1>3 DEF ClosePcm, BufferInv
<1>4. ipc \in [pc : IpcPc, card : Card \cup {NULL}]
  BY DEF ListInv, ListTypes
<1>5. ASSUME NEW from, NEW to, IpcGoes(from, to), UNCHANGED <<buffer, chunk_bytes>>,
             {from, to} \cap {"realloc", "store"} = {}
      PROVE  BufferInv'
  BY <1>4, <1>5 DEF BufferInv, IpcGoes
<1>6. CASE IpcGoesOn
  <2>1. CASE GrowStream
    <3>1. ipc.pc = "grow" /\ ipc.card \in Card
      BY <2>1 DEF GrowStream, ListInv, ListTypes
    <3>. DEFINE need == chunk_bytes[ipc.card]
    <3>2. need \in Nat
      BY <3>1 DEF BufferInv
    <3>3. CASE buffer.stream_len < need
      <4>1. /\ ipc' = [ipc EXCEPT !.pc = "realloc"] /\ chunk_bytes' = chunk_bytes
            /\ buffer' = [buffer EXCEPT !.chunk = need, !.stream_len = need]
        BY <2>1, <3>3 DEF GrowStream, IpcGoes
      <4>2. ipc'.pc = "realloc"
        BY <1>4, <4>1
      <4>. HIDE DEF need
      <4>3. buffer' \in [stream : Nat, stream_len : Nat, chunk : Nat, block : Nat]
            /\ buffer'.chunk = need /\ buffer'.stream_len = need
        BY <3>2, <4>1 DEF BufferInv
      <4>. QED
        BY <3>2, <4>1, <4>2, <4>3 DEF BufferInv
    <3>4. CASE ~(buffer.stream_len < need)
      BY <1>4, <2>1, <3>1, <3>2, <3>4 DEF GrowStream, IpcGoes, BufferInv
    <3>. QED
      BY <3>3, <3>4
  <2>2. CASE ReallocStream
    BY <1>4, <2>2 DEF ReallocStream, IpcGoes, BufferInv
  <2>3. CASE StoreStream
    BY <1>4, <2>3 DEF StoreStream, IpcGoes, BufferInv
  <2>4. CASE OpenLockStream
    BY <1>5, <2>4 DEF OpenLockStream
  <2>5. CASE OpenLock
    BY <1>5, <2>5 DEF OpenLock
  <2>6. CASE CloseLock
    BY <1>5, <2>6 DEF CloseLock
  <2>7. CASE OpenUnlockStream
    BY <1>5, <2>7 DEF OpenUnlockStream
  <2>8. CASE InsertPcm
    BY <1>5, <2>8 DEF InsertPcm
  <2>9. CASE FindPcm
    BY <1>5, <2>9 DEF FindPcm
  <2>10. CASE DropPcm
    BY <1>5, <2>10 DEF DropPcm, PcmBecomes
  <2>11. CASE ClearHandle
    BY <1>5, <2>11 DEF ClearHandle, PcmBecomes
  <2>12. CASE FreePcm
    BY <1>5, <2>12 DEF FreePcm, PcmBecomes
  <2>13. CASE ShiftList
    BY <1>5, <2>13 DEF ShiftList
  <2>14. CASE IpcUnlock
    BY <2>14 DEF IpcUnlock, BufferInv
  <2>. QED
    BY <1>6, <2>1, <2>2, <2>3, <2>4, <2>5, <2>6, <2>7, <2>8, <2>9, <2>10, <2>11, <2>12,
       <2>13, <2>14 DEF IpcGoesOn, IpcLocks
<1>7. ClientWrite \/ Deinit \/ Player \/ UNCHANGED vars => UNCHANGED <<buffer, chunk_bytes, ipc>>
  BY PlayerFrame DEF ClientWrite, Deinit, vars
<1>. QED
  BY <1>1, <1>2, <1>3, <1>6, <1>7 DEF Next

\* Every step keeps the bytes in the FIFO within those sent.
LEMMA FifoStep ==
    ASSUME FifoInv, PlayerInv, BufferInv, ListInv, [Next]_vars
    PROVE  FifoInv'
<1>1. CASE ClientWrite
  BY <1>1, StreamAssumption DEF ClientWrite, FifoInv
<1>2. CASE Deinit
  BY <1>2 DEF Deinit, FifoInv
<1>3. CASE Player
  <2>1. buffer.chunk \in Nat
    BY DEF BufferInv
  <2>2. fifo' \in Nat /\ fifo' <= fifo
    <3>1. CASE ReadFifo
      BY <2>1, <3>1 DEF ReadFifo, FifoInv
    <3>2. CASE ~ReadFifo
      BY <1>3, <3>2 DEF Player, Select, PlayerLockStream, LoadStream,
         PlayerUnlockStream, CountCards, PlayerLock, ScanList, CheckPcm, WritePcm, StartPcm,
         PlayerUnlock, CancelPlayer, FifoInv
    <3>. QED
      BY <3>1, <3>2
  <2>3. start' \subseteq Card
    <3>1. CASE WritePcm
      BY <3>1 DEF WritePcm, FifoInv, PlayerInv, Holding
    <3>2. CASE StartPcm
      BY <3>2 DEF StartPcm, FifoInv
    <3>3. CASE UNCHANGED start
      BY <3>3 DEF FifoInv
    <3>. QED
      BY <1>3, <3>1, <3>2, <3>3 DEF Player, Select, PlayerLockStream, LoadStream, ReadFifo,
         PlayerUnlockStream, CountCards, PlayerLock, ScanList, CheckPcm, PlayerUnlock, CancelPlayer
  <2>. QED
    BY <1>3, <2>2, <2>3, PlayerFrame, StreamAssumption DEF FifoInv
<1>4. CASE IpcSteps
  <2>1. start' \subseteq Card
    BY <1>4 DEF FifoInv, IpcSteps, IpcGoesOn, IpcLocks, OpenPcm, ClosePcm, OpenLockStream, OpenLock,
       CloseLock, GrowStream, ReallocStream, StoreStream, OpenUnlockStream, InsertPcm, FindPcm,
       DropPcm, ClearHandle, FreePcm, ShiftList, IpcUnlock, PcmBecomes
  <2>. QED
    BY <1>4, <2>1, IpcFrame DEF FifoInv
<1>5. CASE UNCHANGED vars
  BY <1>5 DEF vars, FifoInv
<1>. QED
  BY <1>1, <1>2, <1>3, <1>4, <1>5 DEF Next, IpcSteps

-----------------------------------------------------------------------------
(* The mutexes. *)

\* Mutexes are owned by threads.
LEMMA OwnerTypes == ASSUME OwnerInv, [Next]_vars PROVE owner' \in [Mutex -> Threads \cup {NULL}]
<1>1. owner \in [Mutex -> Threads \cup {NULL}]
  BY DEF OwnerInv
<1>2. ASSUME NEW m \in Mutex, NEW t \in Threads, Lock(m, t) \/ Unlock(m)
      PROVE  owner' \in [Mutex -> Threads \cup {NULL}]
  BY <1>1, <1>2 DEF Lock, Unlock
<1>3. {"mutex", "mutex_stream"} \subseteq Mutex /\ {"player", "ipc"} \subseteq Threads
  BY DEF Mutex, Threads
<1>4. CASE Player
  BY <1>1, <1>2, <1>3, <1>4 DEF Player, Select, PlayerLockStream, LoadStream, ReadFifo,
     PlayerUnlockStream, CountCards, PlayerLock, ScanList, CheckPcm, WritePcm, StartPcm,
     PlayerUnlock,
     CancelPlayer
<1>5. CASE IpcSteps
  BY <1>1, <1>2, <1>3, <1>5 DEF IpcSteps, IpcGoesOn, IpcLocks, OpenPcm, ClosePcm, OpenLockStream,
     OpenLock, CloseLock, GrowStream, ReallocStream, StoreStream, OpenUnlockStream, InsertPcm,
     FindPcm, DropPcm, ClearHandle, FreePcm, ShiftList, IpcUnlock, PcmBecomes
<1>6. CASE ClientWrite \/ Deinit \/ UNCHANGED vars
  BY <1>1, <1>6 DEF ClientWrite, Deinit, vars
<1>. QED
  BY <1>4, <1>5, <1>6 DEF Next, IpcSteps

\* A thread that stays inside or leaves, takes a free mutex, or unlocks the one it is inside.
LEMMA OwnerChange ==
    ASSUME OwnerInv, LocksWork, owner' \in [Mutex -> Threads \cup {NULL}], NEW t \in Threads,
           \A u \in Threads \ {t}, m \in Mutex : In(u, m)' => In(u, m),
           \/ owner' = owner /\ \A m \in Mutex : In(t, m)' => In(t, m)
           \/ \E m \in Mutex : Lock(m, t) /\ \A n \in Mutex \ {m} : In(t, n)' => In(t, n)
           \/ \E m \in Mutex : /\ Unlock(m) /\ In(t, m)
                               /\ \A n \in Mutex : In(t, n)' => In(t, n) /\ n # m
    PROVE  OwnerInv'
<1>1. NULL \notin Threads
  BY StreamAssumption DEF Threads
<1>2. \A u \in Threads, m \in Mutex : In(u, m) => owner[m] = u
  BY DEF OwnerInv
<1>3. owner \in [Mutex -> Threads \cup {NULL}]
  BY DEF OwnerInv
<1>4. ASSUME NEW u \in Threads, NEW n \in Mutex, In(u, n)'
      PROVE  owner'[n] = u
  <2>1. CASE owner' = owner /\ \A m \in Mutex : In(t, m)' => In(t, m)
    BY <1>2, <1>4, <2>1
  <2>2. ASSUME NEW m \in Mutex, Lock(m, t), \A k \in Mutex \ {m} : In(t, k)' => In(t, k)
        PROVE  owner'[n] = u
    BY <1>1, <1>2, <1>3, <1>4, <2>2 DEF Lock
  <2>3. ASSUME NEW m \in Mutex, Unlock(m), In(t, m),
               \A k \in Mutex : In(t, k)' => In(t, k) /\ k # m
        PROVE  owner'[n] = u
    BY <1>1, <1>2, <1>3, <1>4, <2>3 DEF Unlock
  <2>. QED
    BY <2>1, <2>2, <2>3
<1>. QED
  BY <1>4 DEF OwnerInv

\* Which places lie inside of which mutex.
InByPc ==
    /\ In("player", "mutex") <=> player.pc \in {"scan", "check", "write", "rewrite", "unlock"}
    /\ In("player", "mutex_stream") <=> player.pc \in {"load", "read", "unlock_stream"}
    /\ In("ipc", "mutex") <=>
          ipc.pc \in {"insert", "unlock", "find", "drop", "clear", "free", "shift"}
    /\ In("ipc", "mutex_stream") <=> ipc.pc \in {"grow", "realloc", "store", "open_unlock_stream"}

\* Those places are what PlayerIn and IpcIn say, before and after a step.
LEMMA InFacts == InByPc /\ InByPc'
BY DEF InByPc, In, PlayerIn, IpcIn, ClosePc

\* Every step keeps the owner of a mutex true to who is inside.
LEMMA OwnerStep ==
    ASSUME OwnerInv, PlayerInv, ListInv, [Next]_vars
    PROVE  OwnerInv'
<1>. SUFFICES ASSUME LocksWork PROVE OwnerInv'
  BY OwnerTypes DEF OwnerInv
<1>0. player \in PlayerRecord /\ ipc \in [pc : IpcPc, card : Card \cup {NULL}]
  BY DEF PlayerInv, ListInv, ListTypes
<1>1. owner' \in [Mutex -> Threads \cup {NULL}]
  BY OwnerTypes
<1>2. Mutex = {"mutex", "mutex_stream"} /\ Threads = {"player", "ipc"}
  BY DEF Mutex, Threads
<1>3. InByPc /\ InByPc'
  BY InFacts
<1>4. CASE Player
  <2>1. \A m \in Mutex : In("ipc", m)' => In("ipc", m)
    BY <1>2, <1>3, <1>4, PlayerFrame DEF InByPc
  <2>2. ASSUME UNCHANGED owner, \A m \in Mutex : In("player", m)' => In("player", m)
        PROVE  OwnerInv'
    BY <1>1, <1>2, <2>1, <2>2, OwnerChange
  <2>3. ASSUME NEW m \in Mutex, Lock(m, "player"),
               \A n \in Mutex \ {m} : In("player", n)' => In("player", n)
        PROVE  OwnerInv'
    BY <1>1, <1>2, <2>1, <2>3, OwnerChange
  <2>4. ASSUME NEW m \in Mutex, Unlock(m), In("player", m),
               \A n \in Mutex : In("player", n)' => In("player", n) /\ n # m
        PROVE  OwnerInv'
    BY <1>1, <1>2, <2>1, <2>4, OwnerChange
  <2>5. CASE Select
    <3>1. player'.pc \in {"lock_stream", "done"} /\ UNCHANGED owner
      BY <1>0, <2>5 DEF Select, PlayerGoes, PlayerRecord
    <3>. QED
      BY <1>2, <1>3, <2>2, <3>1 DEF InByPc
  <2>6. CASE PlayerLockStream
    <3>1. player'.pc = "load" /\ Lock("mutex_stream", "player")
      BY <1>0, <2>6 DEF PlayerLockStream, PlayerGoes, PlayerRecord
    <3>. QED
      BY <1>2, <1>3, <2>3, <3>1 DEF InByPc
  <2>7. CASE LoadStream \/ ReadFifo
    <3>1. player.pc \in {"load", "read"} /\ player'.pc \in {"read", "unlock_stream"}
          /\ UNCHANGED owner
      BY <1>0, <2>7 DEF LoadStream, ReadFifo, PlayerRecord
    <3>. QED
      BY <1>2, <1>3, <2>2, <3>1 DEF InByPc
  <2>8. CASE PlayerUnlockStream
    <3>1. player.pc = "unlock_stream" /\ player'.pc = "count"
          /\ Unlock("mutex_stream")
      BY <1>0, <2>8 DEF PlayerUnlockStream, PlayerGoes, PlayerRecord
    <3>. QED
      BY <1>2, <1>3, <2>4, <3>1 DEF InByPc
  <2>13. CASE CountCards
    <3>1. player'.pc \in {"lock", "select"} /\ UNCHANGED owner
      BY <1>0, <2>13 DEF CountCards, PlayerRecord
    <3>. QED
      BY <1>2, <1>3, <2>2, <3>1 DEF InByPc
  <2>9. CASE PlayerLock
    <3>1. player'.pc = "scan" /\ Lock("mutex", "player")
      BY <1>0, <2>9 DEF PlayerLock, PlayerGoes, PlayerRecord
    <3>. QED
      BY <1>2, <1>3, <2>3, <3>1 DEF InByPc
  <2>10. CASE ScanList \/ CheckPcm \/ WritePcm \/ StartPcm
    <3>1. player.pc \in {"scan", "check", "write", "rewrite"} /\ UNCHANGED owner
      BY <2>10 DEF ScanList, CheckPcm, WritePcm, StartPcm
    <3>2. player'.pc \in {"scan", "check", "write", "rewrite", "unlock"}
      BY <1>0, <2>10 DEF ScanList, CheckPcm, WritePcm, StartPcm, Following, PlayerRecord
    <3>. QED
      BY <1>2, <1>3, <2>2, <3>1, <3>2 DEF InByPc
  <2>11. CASE PlayerUnlock
    <3>1. player.pc = "unlock" /\ player'.pc = "select" /\ Unlock("mutex")
      BY <1>0, <2>11 DEF PlayerUnlock, PlayerRecord
    <3>. QED
      BY <1>2, <1>3, <2>4, <3>1 DEF InByPc
  <2>12. CASE CancelPlayer
    <3>1. player'.pc = "done" /\ UNCHANGED owner
      BY <2>12 DEF CancelPlayer
    <3>. QED
      BY <1>2, <1>3, <2>2, <3>1 DEF InByPc
  <2>. QED
    BY <1>4, <2>5, <2>6, <2>7, <2>8, <2>9, <2>10, <2>11, <2>12, <2>13 DEF Player
<1>5. CASE IpcSteps
  <2>1. \A m \in Mutex : In("player", m)' => In("player", m)
    BY <1>2, <1>3, <1>5, IpcFrame DEF InByPc
  <2>2. ASSUME UNCHANGED owner, \A m \in Mutex : In("ipc", m)' => In("ipc", m)
        PROVE  OwnerInv'
    BY <1>1, <1>2, <2>1, <2>2, OwnerChange
  <2>3. ASSUME NEW m \in Mutex, Lock(m, "ipc"),
               \A n \in Mutex \ {m} : In("ipc", n)' => In("ipc", n)
        PROVE  OwnerInv'
    BY <1>1, <1>2, <2>1, <2>3, OwnerChange
  <2>4. ASSUME NEW m \in Mutex, Unlock(m), In("ipc", m),
               \A n \in Mutex : In("ipc", n)' => In("ipc", n) /\ n # m
        PROVE  OwnerInv'
    BY <1>1, <1>2, <2>1, <2>4, OwnerChange
  <2>5. ASSUME NEW c \in Card, OpenPcm(c) \/ ClosePcm(c)
        PROVE  OwnerInv'
    <3>1. ipc'.pc \in {"open_lock_stream", "close_lock"} /\ UNCHANGED owner
      BY <2>5 DEF OpenPcm, ClosePcm
    <3>. QED
      BY <1>2, <1>3, <2>2, <3>1 DEF InByPc
  <2>6. CASE OpenLockStream
    <3>1. ipc'.pc = "grow" /\ Lock("mutex_stream", "ipc")
      BY <1>0, <2>6 DEF OpenLockStream, IpcGoes
    <3>. QED
      BY <1>2, <1>3, <2>3, <3>1 DEF InByPc
  <2>7. CASE OpenLock \/ CloseLock
    <3>1. ipc'.pc \in {"insert", "find"} /\ Lock("mutex", "ipc")
      BY <1>0, <2>7 DEF OpenLock, CloseLock, IpcGoes
    <3>. QED
      BY <1>2, <1>3, <2>3, <3>1 DEF InByPc
  <2>8. CASE GrowStream \/ ReallocStream \/ StoreStream
    <3>1. ipc.pc \in {"grow", "realloc", "store"} /\ UNCHANGED owner
          /\ ipc'.pc \in {"realloc", "store", "open_unlock_stream"}
      BY <1>0, <2>8 DEF GrowStream, ReallocStream, StoreStream, IpcGoes
    <3>. QED
      BY <1>2, <1>3, <2>2, <3>1 DEF InByPc
  <2>9. CASE OpenUnlockStream
    <3>1. ipc.pc = "open_unlock_stream" /\ ipc'.pc = "open_lock" /\ Unlock("mutex_stream")
      BY <1>0, <2>9 DEF OpenUnlockStream, IpcGoes
    <3>. QED
      BY <1>2, <1>3, <2>4, <3>1 DEF InByPc
  <2>10. CASE InsertPcm \/ FindPcm \/ DropPcm \/ ClearHandle \/ FreePcm \/ ShiftList
    <3>1. ipc.pc \in {"insert", "find", "drop", "clear", "free", "shift"} /\ UNCHANGED owner
      BY <2>10 DEF InsertPcm, FindPcm, DropPcm, ClearHandle, FreePcm, ShiftList, IpcGoes,
         PcmBecomes
    <3>2. ipc'.pc \in {"unlock", "drop", "clear", "free", "shift"}
      BY <1>0, <2>10 DEF InsertPcm, FindPcm, DropPcm, ClearHandle, FreePcm, ShiftList, IpcGoes
    <3>. QED
      BY <1>2, <1>3, <2>2, <3>1, <3>2 DEF InByPc
  <2>11. CASE IpcUnlock
    <3>1. ipc.pc = "unlock" /\ ipc'.pc = "idle" /\ Unlock("mutex")
      BY <2>11 DEF IpcUnlock
    <3>. QED
      BY <1>2, <1>3, <2>4, <3>1 DEF InByPc
  <2>. QED
    BY <1>5, <2>5, <2>6, <2>7, <2>8, <2>9, <2>10, <2>11 DEF IpcSteps, IpcGoesOn, IpcLocks
<1>6. CASE ClientWrite \/ Deinit \/ UNCHANGED vars
  BY <1>6 DEF ClientWrite, Deinit, vars, OwnerInv, In, PlayerIn, IpcIn
<1>. QED
  BY <1>4, <1>5, <1>6 DEF Next, IpcSteps

\* Neither the list nor the stream buffer changes under the playback thread.
LEMMA UseStep == ASSUME Invariant, [Next]_vars PROVE UseInv'
<1>. SUFFICES ASSUME LocksWork PROVE UseInv'
  BY DEF UseInv
<1>0. player \in PlayerRecord /\ ipc \in [pc : IpcPc, card : Card \cup {NULL}]
  BY DEF Invariant, Types, PlayerInv, ListInv, ListTypes
<1>1. InByPc
  BY InFacts
<1>2. player.pc = "read" => player.ptr = buffer.stream
  BY DEF Invariant, UseInv
<1>3. player.pc \in Holding => player.idx <= list.card_num /\ list.slot[player.idx] = player.pcm
  BY DEF Invariant, UseInv
<1>4. CASE Player
  <2>1. UNCHANGED <<buffer, list>>
    BY <1>4, PlayerFrame
  <2>2. ASSUME player'.pc \notin Holding \cup {"read"}
        PROVE  UseInv'
    BY <2>2 DEF UseInv
  <2>3. ASSUME player.pc \in Holding, player'.pc \in Holding, player'.idx = player.idx,
               player'.pcm = player.pcm
        PROVE  UseInv'
    BY <1>3, <2>1, <2>3 DEF UseInv, Holding
  <2>4. Following(player).pc = "scan"
    BY <1>0 DEF PlayerRecord, Following
  <2>5. CASE Select \/ PlayerLockStream \/ PlayerLock
    <3>1. player'.pc \in {"lock_stream", "done", "load", "scan"}
      BY <1>0, <2>5 DEF Select, PlayerLockStream, PlayerLock, PlayerGoes, PlayerRecord
    <3>. QED
      BY <2>2, <3>1 DEF Holding
  <2>6. CASE LoadStream
    <3>1. player'.pc = "read" /\ player'.ptr = buffer.stream
      BY <1>0, <2>6 DEF LoadStream, PlayerRecord
    <3>2. player'.pc \notin Holding /\ player'.ptr = buffer'.stream
      BY <2>1, <3>1 DEF Holding
    <3>. QED
      BY <3>2 DEF UseInv
  <2>7. CASE ReadFifo \/ PlayerUnlockStream \/ CountCards \/ PlayerUnlock \/ CancelPlayer
    <3>1. CASE ReadFifo \/ PlayerUnlockStream \/ CountCards
      <4>1. player'.pc \in {"unlock_stream", "count", "lock", "select"}
        BY <1>0, <3>1 DEF ReadFifo, PlayerUnlockStream, PlayerGoes, CountCards, PlayerRecord
      <4>. QED
        BY <2>2, <4>1 DEF Holding
    <3>2. CASE PlayerUnlock
      <4>1. player'.pc = "select"
        BY <1>0, <3>2 DEF PlayerUnlock, PlayerRecord
      <4>. QED
        BY <2>2, <4>1 DEF Holding
    <3>3. CASE CancelPlayer
      <4>1. player'.pc = "done"
        BY <3>3 DEF CancelPlayer
      <4>. QED
        BY <2>2, <4>1 DEF Holding
    <3>. QED
      BY <2>7, <3>1, <3>2, <3>3
  <2>8. CASE ScanList
    <3>1. CASE player.idx <= list.card_num /\ list.slot[player.idx] # NULL
      <4>1. player' = [player EXCEPT !.pc = "check", !.pcm = list.slot[player.idx]]
        BY <2>8, <3>1 DEF ScanList
      <4>2. player'.pc = "check" /\ player'.idx = player.idx
            /\ player'.pcm = list.slot[player.idx]
        BY <1>0, <4>1 DEF PlayerRecord
      <4>. QED
        BY <2>1, <3>1, <4>2 DEF UseInv
    <3>2. CASE ~(player.idx <= list.card_num /\ list.slot[player.idx] # NULL)
      <4>1. player'.pc = "unlock"
        BY <1>0, <2>8, <3>2 DEF ScanList, PlayerRecord
      <4>. QED
        BY <2>2, <4>1 DEF Holding
    <3>. QED
      BY <3>1, <3>2
  <2>9. CASE CheckPcm \/ WritePcm \/ StartPcm
    <3>1. player.pc \in Holding
      BY <2>9 DEF CheckPcm, WritePcm, StartPcm, Holding
    <3>2. \/ player' = Following(player)
          \/ player' = [player EXCEPT !.pc = "unlock", !.pcm = NULL]
          \/ player' = [player EXCEPT !.pc = "write", !.ptr = buffer.stream]
          \/ player' = [player EXCEPT !.pc = "rewrite", !.ptr = buffer.stream]
      BY <2>9 DEF CheckPcm, WritePcm, StartPcm
    <3>3. CASE player'.pc \in {"scan", "unlock"}
      BY <2>2, <3>3 DEF Holding
    <3>4. CASE player'.pc \notin {"scan", "unlock"}
      <4>1. player'.pc \in {"write", "rewrite"} /\ player'.idx = player.idx
            /\ player'.pcm = player.pcm
        BY <1>0, <2>4, <3>2, <3>4 DEF PlayerRecord
      <4>. QED
        BY <2>3, <3>1, <4>1 DEF Holding
    <3>. QED
      BY <3>3, <3>4
  <2>. QED
    BY <1>4, <2>5, <2>6, <2>7, <2>8, <2>9 DEF Player
<1>5. CASE IpcSteps
  <2>1. player' = player
    BY <1>5, IpcFrame
  <2>2. player.pc = "read" => buffer'.stream = buffer.stream
    <3>1. CASE StoreStream
      <4>1. In("ipc", "mutex_stream")
        BY <1>1, <3>1 DEF InByPc, StoreStream, IpcGoes
      <4>2. player.pc # "read"
        BY <1>1, <4>1 DEF InByPc, Invariant, OwnerInv, Mutex, Threads
      <4>. QED
        BY <4>2
    <3>2. CASE GrowStream \/ ReallocStream
      BY <3>2 DEF GrowStream, ReallocStream, Invariant, Types, BufferInv
    <3>3. CASE ~(StoreStream \/ GrowStream \/ ReallocStream)
      BY <1>5, <3>3 DEF IpcSteps, IpcGoesOn, IpcLocks, OpenPcm, ClosePcm, OpenLockStream,
         OpenLock, CloseLock, OpenUnlockStream, InsertPcm, FindPcm, DropPcm, ClearHandle, FreePcm,
         ShiftList, IpcUnlock, PcmBecomes
    <3>. QED
      BY <3>1, <3>2, <3>3
  <2>3. player.pc \in Holding => list' = list
    <3>1. CASE InsertPcm \/ FindPcm \/ ShiftList
      <4>1. In("ipc", "mutex")
        BY <1>1, <3>1 DEF InByPc, InsertPcm, FindPcm, ShiftList, IpcGoes
      <4>2. player.pc \notin Holding
        BY <1>1, <4>1 DEF InByPc, Invariant, OwnerInv, Mutex, Threads, Holding
      <4>. QED
        BY <4>2
    <3>2. CASE ~(InsertPcm \/ FindPcm \/ ShiftList)
      BY <1>5, <3>2 DEF IpcSteps, IpcGoesOn, IpcLocks, OpenPcm, ClosePcm, OpenLockStream,
         OpenLock, CloseLock, GrowStream, ReallocStream, StoreStream, OpenUnlockStream, DropPcm,
         ClearHandle, FreePcm, IpcUnlock, PcmBecomes
    <3>. QED
      BY <3>1, <3>2
  <2>. QED
    BY <1>2, <1>3, <2>1, <2>2, <2>3 DEF UseInv
<1>6. CASE ClientWrite \/ Deinit \/ UNCHANGED vars
  BY <1>2, <1>3, <1>6 DEF ClientWrite, Deinit, vars, UseInv
<1>. QED
  BY <1>4, <1>5, <1>6 DEF Next, IpcSteps

-----------------------------------------------------------------------------
(* The theorems. *)

\* The invariant holds once la_playback_start has returned.
LEMMA InvariantInit == Init => Invariant
<1>. SUFFICES ASSUME Init PROVE Invariant
  OBVIOUS
<1>1. ipc.pc = "idle" /\ player.pc = "select"
  BY DEF Init
<1>2. PlayerInv
  BY PlayerPcs, StreamAssumption DEF Init, PlayerInv, PlayerRecord
<1>3. ListInv
  BY ListInit
<1>4. BufferInv
  BY <1>1, StreamAssumption DEF Init, BufferInv
<1>5. FifoInv
  BY StreamAssumption DEF Init, FifoInv
<1>6. OwnerInv
  BY <1>1, InFacts DEF Init, OwnerInv, InByPc, Mutex, Threads
<1>7. UseInv
  BY <1>1 DEF UseInv, Holding
<1>. QED
  BY <1>2, <1>3, <1>4, <1>5, <1>6, <1>7 DEF Invariant, Types

\* Every step of both threads, of the client and of the main loop keeps the invariant.
THEOREM Inductive == Spec => []Invariant
<1>1. Invariant /\ [Next]_vars => Invariant'
  BY PlayerStep, ListStep, BufferStep, FifoStep, OwnerStep, UseStep DEF Invariant, Types
<1>. QED
  BY <1>1, InvariantInit, PTL DEF Spec

\* Every variable stays in its range: la_playback_open_pcm never fills a slot behind the last,
\* la_playback_close_pcm never counts below zero.
THEOREM TypeAlways == Spec => []TypeOK
<1>1. Invariant => TypeOK
  <2>. SUFFICES ASSUME Invariant PROVE TypeOK
    OBVIOUS
  <2>1. running \in BOOLEAN /\ fifo \in 0..Bytes /\ sent \in 0..Bytes /\ start \subseteq Card
    BY StreamAssumption DEF Invariant, Types, FifoInv
  <2>2. owner \in [Mutex -> Threads \cup {NULL}]
    BY DEF Invariant, OwnerInv
  <2>3. player \in [pc : PlayerPc, got : Nat, ptr : Nat, idx : 1..(CardMax + 1),
                    pcm : Card \cup {NULL}]
    BY DEF Invariant, Types, PlayerInv, PlayerRecord
  <2>. QED
    BY <2>1, <2>2, <2>3 DEF TypeOK, Invariant, Types, ListInv, ListTypes, BufferInv
<1>. QED
  BY <1>1, Inductive, PTL

\* Between requests the list tells which PCMs exist, with or without working locks: only the
\* IPC receive thread changes it.
THEOREM ListAlwaysTrue == Spec => []ListIsTrue
<1>1. Invariant => ListIsTrue
  BY ListInvIsTrue DEF Invariant, Types
<1>. QED
  BY <1>1, Inductive, PTL

\* With working locks la_playback_close_pcm never frees a PCM that la_playback_write uses.
THEOREM HeldAlwaysOpen == ASSUME LocksWork PROVE Spec => []HeldPcmIsOpen
<1>1. ASSUME Invariant
      PROVE  HeldPcmIsOpen
  <2>. SUFFICES ASSUME player.pc \in Holding PROVE pcm[player.pcm] = "open"
    BY DEF HeldPcmIsOpen, Holding
  <2>1. player.pcm \in Card /\ player.idx \in Slots /\ list.slot[player.idx] = player.pcm
    BY <1>1, StreamAssumption DEF Invariant, Types, PlayerInv, PlayerRecord, UseInv, Slots
  <2>2. Listed(player.pcm)
    BY <2>1 DEF Listed
  <2>. QED
    BY <1>1, <2>1, <2>2 DEF Invariant, Types, ListInv, PcmIsListed
<1>. QED
  BY <1>1, Inductive, PTL

\* With working locks la_read reads into the block that is allocated, and within it.
THEOREM ReadAlwaysFits == ASSUME LocksWork PROVE Spec => []ReadFits
<1>1. ASSUME Invariant
      PROVE  ReadFits
  <2>. SUFFICES ASSUME player.pc = "read"
                PROVE  player.ptr = buffer.block /\ buffer.chunk <= player.ptr
    BY DEF ReadFits
  <2>1. ipc.pc \notin {"realloc", "store"}
    BY <1>1, InFacts DEF InByPc, Invariant, OwnerInv, Mutex, Threads
  <2>. QED
    BY <1>1, <2>1 DEF Invariant, UseInv, Types, BufferInv
<1>. QED
  BY <1>1, Inductive, PTL

\* With working locks no two threads are inside of one mutex.
THEOREM MutexesExclude == ASSUME LocksWork PROVE Spec => []MutualExclusion
<1>1. ASSUME Invariant
      PROVE  MutualExclusion
  <2>1. \A m \in Mutex : ~(In("player", m) /\ In("ipc", m))
    BY <1>1 DEF Invariant, OwnerInv, Threads
  <2>. QED
    BY <2>1 DEF MutualExclusion, In
<1>. QED
  BY <1>1, Inductive, PTL

\* The stream buffer only grows, so that what has been read fits into it until it is written.
SizeInv ==
    /\ buffer.stream <= buffer.stream_len
    /\ player.got <= buffer.stream
    /\ Writing => player.got <= player.ptr

\* With working locks every step keeps it.
LEMMA SizeStep == ASSUME LocksWork, Invariant, SizeInv, [Next]_vars PROVE SizeInv'
<1>0. player \in PlayerRecord /\ ipc \in [pc : IpcPc, card : Card \cup {NULL}]
      /\ buffer \in [stream : Nat, stream_len : Nat, chunk : Nat, block : Nat]
      /\ chunk_bytes \in [Card -> Nat] /\ fifo \in Nat
  BY DEF Invariant, Types, PlayerInv, ListInv, ListTypes, BufferInv, FifoInv
<1>1. CASE Player
  <2>1. UNCHANGED <<buffer, ipc>>
    BY <1>1, PlayerFrame
  <2>2. ASSUME player'.got \in {0, player.got}, ~Writing'
        PROVE  SizeInv'
    BY <1>0, <2>1, <2>2 DEF SizeInv
  <2>3. ASSUME player'.got = player.got, player'.ptr = buffer.stream
        PROVE  SizeInv'
    BY <2>1, <2>3 DEF SizeInv
  <2>4. Following(player).got = player.got /\ Following(player).pc = "scan"
    BY <1>0 DEF PlayerRecord, Following
  <2>5. CASE ReadFifo
    <3>1. buffer.chunk <= buffer.stream
      BY <2>5, InFacts DEF InByPc, Invariant, Types, OwnerInv, BufferInv, Mutex, Threads, ReadFifo
    <3>2. player'.got <= buffer.stream /\ player'.pc = "unlock_stream"
      BY <1>0, <2>5, <3>1 DEF ReadFifo, PlayerRecord
    <3>. QED
      BY <2>1, <3>2 DEF SizeInv, Writing
  <2>6. CASE CheckPcm \/ WritePcm \/ StartPcm
    <3>1. CASE player' = Following(player)
      BY <2>2, <2>4, <3>1 DEF Writing
    <3>2. CASE player' = [player EXCEPT !.pc = "unlock", !.pcm = NULL]
      BY <1>0, <2>2, <3>2 DEF PlayerRecord, Writing
    <3>3. ASSUME NEW to, player' = [player EXCEPT !.pc = to, !.ptr = buffer.stream]
          PROVE  SizeInv'
      BY <1>0, <2>3, <3>3 DEF PlayerRecord
    <3>. QED
      BY <2>6, <3>1, <3>2, <3>3 DEF CheckPcm, WritePcm, StartPcm
  <2>7. CASE ~(ReadFifo \/ CheckPcm \/ WritePcm \/ StartPcm)
    <3>1. CASE Select \/ PlayerLockStream \/ PlayerUnlockStream \/ PlayerLock
      BY <1>0, <2>2, <3>1 DEF PlayerRecord, Select, PlayerLockStream, PlayerUnlockStream,
         PlayerLock, PlayerGoes, Writing
    <3>2. CASE LoadStream \/ CountCards
      BY <1>0, <2>2, <3>2 DEF PlayerRecord, LoadStream, CountCards, Writing
    <3>3. CASE ScanList
      BY <1>0, <2>2, <3>3 DEF PlayerRecord, ScanList, Writing
    <3>4. CASE PlayerUnlock
      BY <1>0, <2>2, <3>4 DEF PlayerRecord, PlayerUnlock, Writing
    <3>5. CASE CancelPlayer
      BY <2>2, <3>5 DEF CancelPlayer, Writing
    <3>. QED
      BY <1>1, <2>7, <3>1, <3>2, <3>3, <3>4, <3>5 DEF Player
  <2>. QED
    BY <2>5, <2>6, <2>7
<1>2. CASE IpcSteps
  <2>1. player' = player
    BY <1>2, IpcFrame
  <2>2. ASSUME buffer.stream <= buffer'.stream, buffer'.stream <= buffer'.stream_len,
               buffer' \in [stream : Nat, stream_len : Nat, chunk : Nat, block : Nat]
        PROVE  SizeInv'
    BY <1>0, <2>1, <2>2 DEF SizeInv, Writing, PlayerRecord
  <2>3. CASE GrowStream
    <3>1. ipc.card \in Card
      BY <2>3 DEF GrowStream, Invariant, Types, ListInv, ListTypes
    <3>2. chunk_bytes[ipc.card] \in Nat
      BY <1>0, <3>1
    <3>3. CASE buffer.stream_len < chunk_bytes[ipc.card]
      <4>1. buffer' = [buffer EXCEPT !.chunk = chunk_bytes[ipc.card],
                                     !.stream_len = chunk_bytes[ipc.card]]
        BY <2>3, <3>3 DEF GrowStream
      <4>2. buffer'.stream = buffer.stream /\ buffer'.stream_len = chunk_bytes[ipc.card]
            /\ buffer' \in [stream : Nat, stream_len : Nat, chunk : Nat, block : Nat]
        BY <1>0, <3>2, <4>1
      <4>3. buffer.stream <= buffer'.stream_len /\ buffer.stream <= buffer.stream
        BY <1>0, <3>2, <3>3, <4>2 DEF SizeInv
      <4>. QED
        BY <2>2, <4>2, <4>3
    <3>4. CASE ~(buffer.stream_len < chunk_bytes[ipc.card])
      <4>1. buffer' = [buffer EXCEPT !.chunk = chunk_bytes[ipc.card]]
        BY <2>3, <3>4 DEF GrowStream
      <4>. QED
        BY <1>0, <2>2, <3>2, <4>1 DEF SizeInv
    <3>. QED
      BY <3>3, <3>4
  <2>4. CASE ReallocStream
    BY <1>0, <2>2, <2>4 DEF ReallocStream, SizeInv
  <2>5. CASE StoreStream
    <3>1. buffer.block = buffer.stream_len
      BY <2>5 DEF StoreStream, IpcGoes, Invariant, Types, BufferInv
    <3>. QED
      BY <1>0, <2>2, <2>5, <3>1 DEF StoreStream, SizeInv
  <2>6. CASE UNCHANGED buffer
    BY <1>0, <2>2, <2>6 DEF SizeInv
  <2>. QED
    BY <1>2, <2>3, <2>4, <2>5, <2>6 DEF IpcSteps, IpcGoesOn, IpcLocks, OpenPcm, ClosePcm,
       OpenLockStream, OpenLock, CloseLock, OpenUnlockStream, InsertPcm, FindPcm, DropPcm,
       ClearHandle, FreePcm, ShiftList, IpcUnlock, PcmBecomes
<1>3. CASE ClientWrite \/ Deinit \/ UNCHANGED vars
  BY <1>3 DEF ClientWrite, Deinit, vars, SizeInv, Writing
<1>. QED
  BY <1>1, <1>2, <1>3 DEF Next, IpcSteps

\* With working locks what la_read has read fits into the block that la_playback_write writes it
\* from, whatever a request has done to the stream buffer between the two.
THEOREM WriteAlwaysFits == ASSUME LocksWork PROVE Spec => []WriteFits
<1>1. Init => SizeInv
  BY StreamAssumption DEF Init, SizeInv, Writing
<1>2. Invariant /\ SizeInv /\ [Next]_vars => SizeInv'
  BY SizeStep
<1>3. SizeInv => WriteFits
  BY DEF SizeInv, WriteFits, Writing
<1>. QED
  BY <1>1, <1>2, <1>3, Inductive, PTL DEF Spec

=============================================================================
