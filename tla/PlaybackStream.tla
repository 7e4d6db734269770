--------------------------- MODULE PlaybackStream ---------------------------
(***************************************************************************)
(* One playback and the two threads that share it: the playback thread,    *)
(* which moves a chunk from the FIFO to the stream buffer and writes it to *)
(* the PCM of every card in card_list, and the IPC receive thread, which   *)
(* opens and closes PCMs at the request of clients.  The stream buffer is  *)
(* filled under mutex_stream, the card list is read and changed under      *)
(* mutex.                                                                  *)
(*                                                                         *)
(* The PCM of a card is named by the card: a playback has at most one.  A  *)
(* buffer is named by its size, which grows with every realloc.            *)
(***************************************************************************)
EXTENDS Naturals, Sequences, FiniteSets

CONSTANTS
    Card,        \* the panels that are not the master panel of this playback
    NULL,        \* an empty slot of card_list
    CardMax,     \* LA_PLAYBACK_CARD_MAX
    BufferSize,  \* LA_CARD_BUFFER_SIZE
    Period,      \* the bytes of a period of each card
    Bytes,       \* bound: the bytes the client writes to the FIFO
    LocksWork    \* la_assert evaluates its argument: a build with -DLA_ASSERT

ASSUME StreamAssumption ==
    /\ NULL \notin Card \cup {"player", "ipc"}
    /\ CardMax \in Nat \ {0}
    /\ BufferSize \in Nat \ {0}
    /\ Period \in [Card -> Nat]
    /\ Bytes \in Nat
    /\ LocksWork \in BOOLEAN

VARIABLES
    running,      \* la_is_running()
    fifo,         \* the bytes in the FIFO
    sent,         \* the bytes the client has written so far
    owner,        \* who holds mutex and mutex_stream
    buffer,       \* stream, stream_len, chunk, and the block that is allocated
    chunk_bytes,  \* card->param.chunk_bytes
    list,         \* card_list and card_num
    pcm,          \* the state of the PCM of each card
    start,        \* the cards with pcm->start
    player,       \* the playback thread: where it is, the bytes it read, the buffer and the
                  \* slot it is using and the PCM it holds
    ipc           \* the IPC receive thread: where it is and the card of its request

vars == <<running, fifo, sent, owner, buffer, chunk_bytes, list, pcm, start, player, ipc>>

Mutex   == {"mutex", "mutex_stream"}
Threads == {"player", "ipc"}
Slots   == 1..CardMax

PlayerPc == {"select", "lock_stream", "load", "read", "unlock_stream",
             "count", "lock", "scan", "check", "write", "rewrite", "unlock", "done"}

OpenPc  == {"open_lock_stream", "grow", "realloc", "store", "open_unlock_stream",
            "open_lock", "insert"}
ClosePc == {"close_lock", "find", "drop", "clear", "free", "shift"}
IpcPc   == {"idle", "unlock"} \cup OpenPc \cup ClosePc

PcmState == {"none", "open", "closed", "null"}

TypeOK ==
    /\ running \in BOOLEAN
    /\ fifo \in 0..Bytes /\ sent \in 0..Bytes
    /\ owner \in [Mutex -> Threads \cup {NULL}]
    /\ buffer \in [stream : Nat, stream_len : Nat, chunk : Nat, block : Nat]
    /\ chunk_bytes \in [Card -> Nat]
    /\ list \in [slot : [Slots -> Card \cup {NULL}], card_num : 0..CardMax]
    /\ pcm \in [Card -> PcmState]
    /\ start \subseteq Card
    /\ player \in [pc : PlayerPc, got : Nat, ptr : Nat, idx : 1..(CardMax + 1),
                   pcm : Card \cup {NULL}]
    /\ ipc \in [pc : IpcPc, card : Card \cup {NULL}]

\* la_playback_probe, then la_playback_start
Init ==
    /\ running = TRUE
    /\ fifo = 0 /\ sent = 0
    /\ owner = [m \in Mutex |-> NULL]
    /\ buffer = [stream |-> BufferSize, stream_len |-> BufferSize,
                 chunk |-> BufferSize, block |-> BufferSize]
    /\ chunk_bytes = [c \in Card |-> 0]
    /\ list = [slot |-> [i \in Slots |-> NULL], card_num |-> 0]
    /\ pcm = [c \in Card |-> "none"]
    /\ start = {}
    /\ player = [pc |-> "select", got |-> 0, ptr |-> 0, idx |-> 1, pcm |-> NULL]
    /\ ipc = [pc |-> "idle", card |-> NULL]

-----------------------------------------------------------------------------
(* la_mutex_lock and la_mutex_unlock: the pthread calls are the arguments of la_assert. *)

Lock(m, t) ==
    IF LocksWork
    THEN owner[m] = NULL /\ owner' = [owner EXCEPT ![m] = t]
    ELSE UNCHANGED owner

Unlock(m) ==
    owner' = IF LocksWork THEN [owner EXCEPT ![m] = NULL] ELSE owner

-----------------------------------------------------------------------------
(* The client and the main loop. *)

ClientWrite ==
    /\ sent < Bytes
    /\ sent' = sent + 1
    /\ fifo' = fifo + 1
    /\ UNCHANGED <<running, owner, buffer, chunk_bytes, list, pcm, start, player, ipc>>

\* la_deinit begins; what it frees afterwards is outside this module
Deinit ==
    /\ running
    /\ running' = FALSE
    /\ UNCHANGED <<fifo, sent, owner, buffer, chunk_bytes, list, pcm, start, player, ipc>>

-----------------------------------------------------------------------------
(* The playback thread: la_playback_thread_func and la_playback_write. *)

PlayerGoes(from, to) ==
    /\ player.pc = from
    /\ player' = [player EXCEPT !.pc = to]

\* select returns; a timeout changes nothing
Select ==
    /\ ~running \/ fifo > 0
    /\ PlayerGoes("select", IF running THEN "lock_stream" ELSE "done")
    /\ UNCHANGED <<running, fifo, sent, owner, buffer, chunk_bytes, list, pcm, start, ipc>>

PlayerLockStream ==
    /\ PlayerGoes("lock_stream", "load")
    /\ Lock("mutex_stream", "player")
    /\ UNCHANGED <<running, fifo, sent, buffer, chunk_bytes, list, pcm, start, ipc>>

LoadStream ==
    /\ player.pc = "load"
    /\ player' = [player EXCEPT !.pc = "read", !.ptr = buffer.stream]
    /\ UNCHANGED <<running, fifo, sent, owner, buffer, chunk_bytes, list, pcm, start, ipc>>

\* Bug: room is left for a terminating zero.
ReadFifo_Short ==
    /\ player.pc = "read"
    /\ LET got == IF fifo < buffer.chunk THEN fifo
                  ELSE IF buffer.chunk = 0 THEN 0 ELSE buffer.chunk - 1
       IN  /\ fifo' = fifo - got
           /\ player' = [player EXCEPT !.pc = "unlock_stream", !.got = got, !.ptr = 0]
    /\ UNCHANGED <<running, sent, owner, buffer, chunk_bytes, list, pcm, start, ipc>>

\* la_read takes what the FIFO has, at most chunk bytes
ReadFifo ==
    /\ player.pc = "read"
    /\ LET got == IF fifo < buffer.chunk THEN fifo ELSE buffer.chunk
       IN  /\ fifo' = fifo - got
           /\ player' = [player EXCEPT !.pc = "unlock_stream", !.got = got, !.ptr = 0]
    /\ UNCHANGED <<running, sent, owner, buffer, chunk_bytes, list, pcm, start, ipc>>

PlayerUnlockStream ==
    /\ PlayerGoes("unlock_stream", "count")
    /\ Unlock("mutex_stream")
    /\ UNCHANGED <<running, fifo, sent, buffer, chunk_bytes, list, pcm, start, ipc>>

\* card_num is read without a lock
CountCards ==
    /\ player.pc = "count"
    /\ player' = IF player.got > 0 /\ list.card_num # 0
                 THEN [player EXCEPT !.pc = "lock"]
                 ELSE [player EXCEPT !.pc = "select", !.got = 0]
    /\ UNCHANGED <<running, fifo, sent, owner, buffer, chunk_bytes, list, pcm, start, ipc>>

PlayerLock ==
    /\ PlayerGoes("lock", "scan")
    /\ Lock("mutex", "player")
    /\ UNCHANGED <<running, fifo, sent, buffer, chunk_bytes, list, pcm, start, ipc>>

\* list_for_each_pcm: up to card_num or the first empty slot
ScanList ==
    /\ player.pc = "scan"
    /\ player' = IF player.idx <= list.card_num /\ list.slot[player.idx] # NULL
                 THEN [player EXCEPT !.pc = "check", !.pcm = list.slot[player.idx]]
                 ELSE [player EXCEPT !.pc = "unlock"]
    /\ UNCHANGED <<running, fifo, sent, owner, buffer, chunk_bytes, list, pcm, start, ipc>>

Following(p) == [p EXCEPT !.pc = "scan", !.idx = @ + 1, !.pcm = NULL, !.ptr = 0]

\* A NULL handle is skipped, a daemon that stops leaves the loop.
CheckPcm ==
    /\ player.pc = "check"
    /\ player' = IF pcm[player.pcm] = "null" THEN Following(player)
                 ELSE IF ~running THEN [player EXCEPT !.pc = "unlock", !.pcm = NULL]
                 ELSE [player EXCEPT !.pc = "write", !.ptr = buffer.stream]
    /\ UNCHANGED <<running, fifo, sent, owner, buffer, chunk_bytes, list, pcm, start, ipc>>

\* snd_pcm_writei returns; la_playback_recovery may set pcm->start after an error
WritePcm ==
    /\ player.pc \in {"write", "rewrite"}
    /\ player' = Following(player)
    /\ start' \in {start, start \cup {player.pcm}}
    /\ UNCHANGED <<running, fifo, sent, owner, buffer, chunk_bytes, list, pcm, ipc>>

\* EAGAIN from a PCM that is to be started: if snd_pcm_start succeeds, write again
StartPcm ==
    /\ player.pc = "write" /\ player.pcm \in start
    /\ start' = start \ {player.pcm}
    /\ player' \in {Following(player),
                    [player EXCEPT !.pc = "rewrite", !.ptr = buffer.stream]}
    /\ UNCHANGED <<running, fifo, sent, owner, buffer, chunk_bytes, list, pcm, ipc>>

PlayerUnlock ==
    /\ player.pc = "unlock"
    /\ player' = [player EXCEPT !.pc = "select", !.got = 0, !.idx = 1]
    /\ Unlock("mutex")
    /\ UNCHANGED <<running, fifo, sent, buffer, chunk_bytes, list, pcm, start, ipc>>

\* la_deinit cancels the thread: it ends in select, in read or in snd_pcm_writei, with the
\* mutex it holds.
CancelPlayer ==
    /\ ~running
    /\ player.pc \in {"select", "read", "write", "rewrite"}
    /\ player' = [pc |-> "done", got |-> 0, ptr |-> 0, idx |-> 1, pcm |-> NULL]
    /\ UNCHANGED <<running, fifo, sent, owner, buffer, chunk_bytes, list, pcm, start, ipc>>

Player ==
    \/ Select \/ PlayerLockStream \/ LoadStream \/ ReadFifo \/ PlayerUnlockStream
    \/ CountCards \/ PlayerLock \/ ScanList \/ CheckPcm \/ WritePcm \/ StartPcm \/ PlayerUnlock
    \/ CancelPlayer

-----------------------------------------------------------------------------
(* The IPC receive thread: la_playback_open_pcm. *)

Opened == {list.slot[i] : i \in 1..list.card_num} \ {NULL}

IpcGoes(from, to) ==
    /\ ipc.pc = from
    /\ ipc' = [ipc EXCEPT !.pc = to]

\* la_card_set_params gives up wherever the hardware refuses, and then leaves chunk_bytes as an
\* earlier open of the card has set it.
SetParams(c) == \E n \in {chunk_bytes[c], Period[c]} : chunk_bytes' = [chunk_bytes EXCEPT ![c] = n]

\* Bug: the card list is not searched.
OpenPcm_Twice(c) ==
    /\ ipc.pc = "idle"
    /\ list.card_num < CardMax
    /\ pcm' = [pcm EXCEPT ![c] = "open"]
    /\ start' = start \cup {c}
    /\ SetParams(c)
    /\ ipc' = [pc |-> "open_lock_stream", card |-> c]
    /\ UNCHANGED <<running, fifo, sent, owner, buffer, list, player>>

\* The checks, snd_pcm_open and la_card_set_params.  A request refused here changes nothing.
OpenPcm(c) ==
    /\ ipc.pc = "idle"
    /\ list.card_num < CardMax
    /\ c \notin Opened
    /\ pcm' = [pcm EXCEPT ![c] = "open"]
    /\ start' = start \cup {c}
    /\ SetParams(c)
    /\ ipc' = [pc |-> "open_lock_stream", card |-> c]
    /\ UNCHANGED <<running, fifo, sent, owner, buffer, list, player>>

OpenLockStream ==
    /\ IpcGoes("open_lock_stream", "grow")
    /\ Lock("mutex_stream", "ipc")
    /\ UNCHANGED <<running, fifo, sent, buffer, chunk_bytes, list, pcm, start, player>>

\* Bug: the test forgets the size of the buffer.
GrowStream_Unchecked ==
    /\ IpcGoes("grow", "open_unlock_stream")
    /\ buffer' = [buffer EXCEPT !.chunk = chunk_bytes[ipc.card]]
    /\ UNCHANGED <<running, fifo, sent, owner, chunk_bytes, list, pcm, start, player>>

\* Bug: the buffer is fitted to the chunk, in both directions.
GrowStream_Fitted ==
    /\ IpcGoes("grow", "realloc")
    /\ LET need == chunk_bytes[ipc.card]
       IN  buffer' = [buffer EXCEPT !.chunk = need, !.stream_len = need]
    /\ UNCHANGED <<running, fifo, sent, owner, chunk_bytes, list, pcm, start, player>>

GrowStream ==
    /\ ipc.pc = "grow"
    /\ LET need == chunk_bytes[ipc.card]
       IN  IF buffer.stream_len < need
           THEN /\ IpcGoes("grow", "realloc")
                /\ buffer' = [buffer EXCEPT !.chunk = need, !.stream_len = need]
           ELSE /\ IpcGoes("grow", "open_unlock_stream")
                /\ buffer' = [buffer EXCEPT !.chunk = need]
    /\ UNCHANGED <<running, fifo, sent, owner, chunk_bytes, list, pcm, start, player>>

\* realloc frees the old block, then its result is stored
ReallocStream ==
    /\ IpcGoes("realloc", "store")
    /\ buffer' = [buffer EXCEPT !.block = buffer.stream_len]
    /\ UNCHANGED <<running, fifo, sent, owner, chunk_bytes, list, pcm, start, player>>

StoreStream ==
    /\ IpcGoes("store", "open_unlock_stream")
    /\ buffer' = [buffer EXCEPT !.stream = buffer.block]
    /\ UNCHANGED <<running, fifo, sent, owner, chunk_bytes, list, pcm, start, player>>

OpenUnlockStream ==
    /\ IpcGoes("open_unlock_stream", "open_lock")
    /\ Unlock("mutex_stream")
    /\ UNCHANGED <<running, fifo, sent, buffer, chunk_bytes, list, pcm, start, player>>

OpenLock ==
    /\ IpcGoes("open_lock", "insert")
    /\ Lock("mutex", "ipc")
    /\ UNCHANGED <<running, fifo, sent, buffer, chunk_bytes, list, pcm, start, player>>

InsertPcm ==
    /\ IpcGoes("insert", "unlock")
    /\ list' = [slot |-> [list.slot EXCEPT ![list.card_num + 1] = ipc.card],
                card_num |-> list.card_num + 1]
    /\ UNCHANGED <<running, fifo, sent, owner, buffer, chunk_bytes, pcm, start, player>>

-----------------------------------------------------------------------------
(* The IPC receive thread: la_playback_close_pcm. *)

ClosePcm(c) ==
    /\ ipc.pc = "idle"
    /\ list.card_num # 0
    /\ ipc' = [pc |-> "close_lock", card |-> c]
    /\ UNCHANGED <<running, fifo, sent, owner, buffer, chunk_bytes, list, pcm, start, player>>

\* Bug: the other mutex.
CloseLock_OfStream ==
    /\ IpcGoes("close_lock", "find")
    /\ Lock("mutex_stream", "ipc")
    /\ UNCHANGED <<running, fifo, sent, buffer, chunk_bytes, list, pcm, start, player>>

CloseLock ==
    /\ IpcGoes("close_lock", "find")
    /\ Lock("mutex", "ipc")
    /\ UNCHANGED <<running, fifo, sent, buffer, chunk_bytes, list, pcm, start, player>>

\* Bug: without such a card the function returns, with the mutex.
FindPcm_Returns ==
    /\ ipc.pc = "find"
    /\ ipc' = IF ipc.card \in Opened THEN [ipc EXCEPT !.pc = "drop"]
              ELSE [pc |-> "idle", card |-> NULL]
    /\ list' = [list EXCEPT !.slot = [i \in Slots |->
                                         IF @[i] = ipc.card THEN NULL ELSE @[i]]]
    /\ UNCHANGED <<running, fifo, sent, owner, buffer, chunk_bytes, pcm, start, player>>

\* The slot of the card is emptied; without one there is nothing to close.
FindPcm ==
    /\ IpcGoes("find", IF ipc.card \in Opened THEN "drop" ELSE "unlock")
    /\ list' = [list EXCEPT !.slot = [i \in Slots |->
                                         IF @[i] = ipc.card THEN NULL ELSE @[i]]]
    /\ UNCHANGED <<running, fifo, sent, owner, buffer, chunk_bytes, pcm, start, player>>

PcmBecomes(state) ==
    /\ pcm' = [pcm EXCEPT ![ipc.card] = state]
    /\ UNCHANGED <<running, fifo, sent, owner, buffer, chunk_bytes, list, player>>

\* snd_pcm_drop, snd_pcm_close
DropPcm == IpcGoes("drop", "clear") /\ PcmBecomes("closed") /\ UNCHANGED start

\* pcm->handle = NULL
ClearHandle == IpcGoes("clear", "free") /\ PcmBecomes("null") /\ UNCHANGED start

FreePcm ==
    /\ IpcGoes("free", "shift")
    /\ PcmBecomes("none")
    /\ start' = start \ {ipc.card}

\* Bug: the slots behind the emptied one stay where they are.
ShiftList_Unshifted ==
    /\ IpcGoes("shift", "unlock")
    /\ list' = [list EXCEPT !.card_num = @ - 1]
    /\ UNCHANGED <<running, fifo, sent, owner, buffer, chunk_bytes, pcm, start, player>>

\* The slots behind the emptied one move up.
Shifted(l) ==
    LET hole == CHOOSE i \in 1..l.card_num : l.slot[i] = NULL
        last == l.card_num
    IN  [slot |-> [i \in Slots |-> IF i = last THEN NULL
                                  ELSE IF i \in hole..(last - 1) THEN l.slot[i + 1]
                                  ELSE l.slot[i]],
         card_num |-> last - 1]

\* Bug: card_num has been counted down with the slot already.
ShiftList_Recounted ==
    /\ IpcGoes("shift", "unlock")
    /\ list' = [Shifted(list) EXCEPT !.card_num = @ - 1]
    /\ UNCHANGED <<running, fifo, sent, owner, buffer, chunk_bytes, pcm, start, player>>

ShiftList ==
    /\ IpcGoes("shift", "unlock")
    /\ list' = Shifted(list)
    /\ UNCHANGED <<running, fifo, sent, owner, buffer, chunk_bytes, pcm, start, player>>

IpcUnlock ==
    /\ ipc.pc = "unlock"
    /\ ipc' = [pc |-> "idle", card |-> NULL]
    /\ Unlock("mutex")
    /\ UNCHANGED <<running, fifo, sent, buffer, chunk_bytes, list, pcm, start, player>>

IpcLocks == OpenLockStream \/ OpenLock \/ CloseLock

IpcGoesOn ==
    \/ IpcLocks
    \/ GrowStream \/ ReallocStream \/ StoreStream \/ OpenUnlockStream \/ InsertPcm
    \/ FindPcm \/ DropPcm \/ ClearHandle \/ FreePcm \/ ShiftList
    \/ IpcUnlock

-----------------------------------------------------------------------------
Next ==
    \/ ClientWrite \/ Deinit
    \/ Player
    \/ \E c \in Card : OpenPcm(c) \/ ClosePcm(c)
    \/ IpcGoesOn

Spec == Init /\ [][Next]_vars

\* Both threads are scheduled.  The mutexes are priority inheriting: an unlock hands the mutex
\* to a waiter, so a thread that waits for one gets it.
Fairness ==
    /\ WF_vars(Player)
    /\ SF_vars(PlayerLockStream) /\ SF_vars(PlayerLock)
    /\ WF_vars(IpcGoesOn)
    /\ SF_vars(OpenLockStream) /\ SF_vars(OpenLock) /\ SF_vars(CloseLock)

FairSpec == Spec /\ Fairness

-----------------------------------------------------------------------------
(* Properties. *)

\* The PCM the playback thread is about to use is open: close_pcm has neither closed its
\* handle nor freed it.
HeldPcmIsOpen ==
    player.pc \in {"check", "write", "rewrite"} => pcm[player.pcm] = "open"

\* The FIFO is read into the block that is allocated, and never behind its end, whatever
\* chunk the last opened card has asked for.
ReadFits ==
    player.pc = "read" => player.ptr = buffer.block /\ buffer.chunk <= player.ptr

\* The bytes that were read under mutex_stream and are written under mutex still fit into the
\* block they are written from, although a request may have replaced it between the two.
WriteFits == player.pc \in {"write", "rewrite"} => player.got <= player.ptr

\* Between requests the list tells which PCMs exist: none is lost, none listed twice.
ListIsTrue ==
    ipc.pc = "idle" =>
        /\ \A c \in Card : pcm[c] = IF c \in Opened THEN "open" ELSE "none"
        /\ Cardinality(Opened) = list.card_num
        /\ \A i \in Slots : i > list.card_num => list.slot[i] = NULL

\* la_mutex_lock asserts that the lock is taken: the two threads are never both between the
\* la_mutex_lock and the la_mutex_unlock of the same mutex.
PlayerIn(m) ==
    player.pc \in IF m = "mutex" THEN {"scan", "check", "write", "rewrite", "unlock"}
                                 ELSE {"load", "read", "unlock_stream"}
IpcIn(m) ==
    ipc.pc \in IF m = "mutex" THEN {"insert", "unlock"} \cup (ClosePc \ {"close_lock"})
                              ELSE {"grow", "realloc", "store", "open_unlock_stream"}

MutualExclusion == \A m \in Mutex : ~(PlayerIn(m) /\ IpcIn(m))

\* A request that has begun is finished, however busy the playback is, as long as the daemon
\* runs: a thread that la_deinit cancels may leave a mutex locked.
RequestsReturn == ipc.pc # "idle" ~> ipc.pc = "idle" \/ ~running

\* The FIFO is drained, unless the chunk is 0 because the last opened card refused its
\* parameters, or the daemon stops.
FifoIsDrained == fifo > 0 ~> fifo = 0 \/ buffer.chunk = 0 \/ ~running

-----------------------------------------------------------------------------
(* The rounds of a playback. *)

\* The cards of a list; while one is taken out, those that the list will hold.
CardsOf(l) ==
    LET full == IF \E i \in 1..l.card_num : l.slot[i] = NULL THEN Shifted(l) ELSE l
    IN  SubSeq(full.slot, 1, full.card_num)

Cards == CardsOf(list)

Writing == player.pc \in {"write", "rewrite"}

Todo ==
    IF Writing THEN SubSeq(Cards, player.idx + 1, Len(Cards))
    ELSE IF player.pc \in {"scan", "check"} THEN SubSeq(Cards, player.idx, Len(Cards))
    ELSE <<>>

Rounds == INSTANCE Fanout WITH cards <- Cards, todo <- Todo,
    visiting <- IF Writing THEN player.pcm ELSE NULL

\* Every chunk is written to every open card, in order, and the cards change only between
\* two chunks.
FanoutSpec == Rounds!FanoutSpec

=============================================================================
