----------------------------- MODULE LifeCycle ------------------------------
(***************************************************************************)
(* The life of the daemon: main and its status machine, la_init and        *)
(* la_deinit, the IPC channel, the start and the stop of the DSP           *)
(* extension, and the signal handler, which runs all of the teardown on    *)
(* the thread that the signal interrupts, while the other threads go on.   *)
(* The daemon may be killed at any time and starts again; the settings     *)
(* files and the chip survive.                                             *)
(*                                                                         *)
(* The handlers of requests, the playback and the capture threads are in   *)
(* modules of their own: here they only use the lists.                     *)
(***************************************************************************)
EXTENDS Saf7741, Sequences

CONSTANTS
    EnableDsp,   \* option -e
    Threads,     \* the threads that a signal may interrupt: "main", "ipc"
    MaxSignals,  \* SIGINT and SIGTERM: at most two handlers
    LocksWork    \* la_mutex_lock locks

ASSUME LifeCycleAssumption ==
    /\ {MayFail, EnableDsp, LocksWork} \subseteq BOOLEAN
    /\ Threads \subseteq {"main", "ipc"}
    /\ MaxSignals \in 0..2

VARIABLES
    proc,    \* the process: "up", or how it has ended
    main,    \* where the main thread is
    lists,   \* the lists of captures, playbacks and cards
    run,     \* qa.run
    player,  \* the playback thread: its state, and that of its la_thread_t
    ipc,     \* the IPC channel and the request that is served
    frames,  \* the signal handlers: thread, place, and whether the daemon was running
    dsp,     \* enable_dsp, qdsp.ops, and the settings that are loaded
    file     \* the settings files

vars == <<at, chip, proc, main, lists, run, player, ipc, frames, dsp, file>>

List    == {"capture", "playback", "card"}
Setting == {"audio", "radio"}
SavePc  == {"open_audio", "write_audio", "open_radio", "write_radio"}

TypeOK ==
    /\ at \in Place /\ chip \in Chip
    /\ proc \in {"up", "down", "crashed"}
    /\ main \in {"load", "captures", "playbacks", "cards", "start", "signals", "channel", "dsp",
                 "reset", "load_audio", "load_radio", "running"}
    /\ lists \in [List -> {"none", "listed", "probed"}]
    /\ run \in BOOLEAN
    /\ player \in [state : {"none", "goes", "locks", "ended"}, cancelled : BOOLEAN,
                   joined : BOOLEAN, block : {"null", "set", "freed"}]
    /\ ipc \in [open : BOOLEAN, pc : {"idle", "route", "locked"} \cup SavePc]
    /\ Len(frames) <= MaxSignals
    /\ \A i \in DOMAIN frames :
          frames[i] \in [thread : Threads, running : BOOLEAN,
                         pc : {"stop", "cancel", "join", "wait", "free", "forget", "captures",
                               "cards", "playbacks", "dsp", "close", "exit"} \cup SavePc]
    /\ dsp \in [enable : BOOLEAN, ops : BOOLEAN, loaded : SUBSET Setting]
    /\ file \in [Setting -> {"none", "cut", "blank", "saved"}]

Init ==
    /\ at = "off" /\ chip = PowerUp
    /\ proc = "down" /\ main = "load"
    /\ lists = [l \in List |-> "none"]
    /\ run = FALSE
    /\ player = [state |-> "none", cancelled |-> FALSE, joined |-> FALSE, block |-> "null"]
    /\ ipc = [open |-> FALSE, pc |-> "idle"]
    /\ frames = <<>>
    /\ dsp = [enable |-> EnableDsp, ops |-> FALSE, loaded |-> {}]
    /\ file = [s \in Setting |-> "none"]

-----------------------------------------------------------------------------
(* The process. *)

Start ==
    /\ proc # "up"
    /\ proc' = "up" /\ main' = "load" /\ at' = "off"
    /\ lists' = [l \in List |-> "none"]
    /\ run' = FALSE
    /\ player' = [state |-> "none", cancelled |-> FALSE, joined |-> FALSE, block |-> "null"]
    /\ ipc' = [open |-> FALSE, pc |-> "idle"]
    /\ frames' = <<>>
    /\ dsp' = [enable |-> EnableDsp, ops |-> FALSE, loaded |-> {}]
    /\ UNCHANGED <<chip, file>>

Ended(how) ==
    /\ proc' = how
    /\ UNCHANGED <<at, chip, main, lists, run, player, ipc, frames, dsp, file>>

\* SIGKILL, or SIGTERM before main has called signal
Kill == proc = "up" /\ Ended("down")

\* A thread that a handler has interrupted goes on only when the handler returns, which it
\* never does.
Interrupted(thread) == \E i \in DOMAIN frames : frames[i].thread = thread

Goes(thread) == proc = "up" /\ ~Interrupted(thread)

-----------------------------------------------------------------------------
(* main *)

MainAt(here, next) ==
    /\ Goes("main")
    /\ main = here
    /\ main' = next
    /\ UNCHANGED <<proc, frames, file>>

\* la_load_asound_conf; at least one playback is configured.
LoadConf ==
    /\ MainAt("load", "captures")
    /\ run' = TRUE
    /\ lists' = [l \in List |-> "listed"]
    /\ UNCHANGED <<at, chip, player, ipc, dsp>>

Probe(here, next, list) ==
    /\ MainAt(here, next)
    /\ lists' = [lists EXCEPT ![list] = "probed"]
    /\ UNCHANGED <<at, chip, run, player, ipc, dsp>>

ProbeCaptures  == Probe("captures", "playbacks", "capture")
ProbePlaybacks == Probe("playbacks", "cards", "playback")
ProbeCards     == Probe("cards", "start", "card")

\* No memory for a stream: la_deinit, and la_init again after a while.
InitFails ==
    /\ MayFail
    /\ main \in {"captures", "playbacks"} /\ MainAt(main, "load")
    /\ run' = FALSE
    /\ lists' = [l \in List |-> "none"]
    /\ UNCHANGED <<at, chip, player, ipc, dsp>>

\* la_playback_start
StartPlayer ==
    /\ MainAt("start", "signals")
    /\ player' = [state |-> "goes", cancelled |-> FALSE, joined |-> FALSE, block |-> "set"]
    /\ UNCHANGED <<at, chip, lists, run, ipc, dsp>>

\* signal
SetSignals ==
    /\ MainAt("signals", "channel")
    /\ UNCHANGED <<at, chip, lists, run, player, ipc, dsp>>

\* la_ipc_open, which is called until it succeeds
OpenChannel ==
    /\ MainAt("channel", IF dsp.enable THEN "dsp" ELSE "running")
    /\ ipc' = [ipc EXCEPT !.open = TRUE]
    /\ UNCHANGED <<at, chip, lists, run, player, dsp>>

\* Bug: enable_dsp stays set.
DspFails_Enabled(here) == MainAt(here, "running") /\ dsp' = [dsp EXCEPT !.ops = TRUE]

DspFails(here) ==
    /\ MainAt(here, "running")
    /\ dsp' = [dsp EXCEPT !.ops = TRUE, !.enable = FALSE]

\* qdsp_open, which sets qdsp.ops even if it fails
OpenDsp ==
    /\ OpenDev
    /\ \/ at' = "tuner" /\ MainAt("dsp", "reset") /\ dsp' = [dsp EXCEPT !.ops = TRUE]
       \/ at' = "failed" /\ DspFails("dsp")
    /\ UNCHANGED <<lists, run, player, ipc>>

\* saf7741_StartUp, and how qext_dsp_init takes its end
ResetDsp ==
    /\ \/ MainAt("reset", "reset") /\ StartUp /\ UNCHANGED dsp
       \/ at = "done" /\ MainAt("reset", "load_audio") /\ UNCHANGED <<at, chip, dsp>>
       \/ at = "failed" /\ DspFails("reset") /\ UNCHANGED <<at, chip>>
    /\ UNCHANGED <<lists, run, player, ipc>>

\* qext_dsp_load_data
LoadSetting(here, next, setting) ==
    /\ MainAt(here, next)
    /\ dsp' = [dsp EXCEPT !.loaded = @ \cup {setting}]
    /\ UNCHANGED <<at, chip, lists, run, player, ipc>>

Main ==
    \/ LoadConf
    \/ ProbeCaptures \/ ProbePlaybacks \/ ProbeCards \/ InitFails
    \/ StartPlayer \/ SetSignals \/ OpenChannel
    \/ OpenDsp \/ ResetDsp
    \/ LoadSetting("load_audio", "load_radio", "audio")
    \/ LoadSetting("load_radio", "running", "radio")

-----------------------------------------------------------------------------
(* The playback thread: it ends at the first cancellation point, which a lock is not. *)

PlayerDoes(from, to) ==
    /\ proc = "up"
    /\ player.state = from
    /\ player' = [player EXCEPT !.state = to]
    /\ UNCHANGED <<at, chip, proc, main, lists, run, ipc, frames, dsp, file>>

PlayerLocks == PlayerDoes("goes", "locks")

\* Bug: the lock waits for its holder.
PlayerUnlocks_Waits == ipc.pc # "locked" /\ PlayerDoes("locks", "goes")

PlayerUnlocks == (LocksWork => ipc.pc # "locked") /\ PlayerDoes("locks", "goes")

PlayerEnds == (player.cancelled \/ ~run) /\ PlayerDoes("goes", "ended")

-----------------------------------------------------------------------------
(* The settings files: qext_dsp_audio_save, then qext_dsp_radio_save. *)

Opens  == [open_audio |-> "audio", open_radio |-> "radio"]
Writes == [write_audio |-> "audio", write_radio |-> "radio"]
Then   == [open_audio |-> "write_audio", write_audio |-> "open_radio", open_radio |-> "write_radio"]

Saved(pc) ==
    IF pc \in DOMAIN Opens THEN [file EXCEPT ![Opens[pc]] = "cut"]
    ELSE [file EXCEPT ![Writes[pc]] = IF Writes[pc] \in dsp.loaded THEN "saved" ELSE "blank"]

After(pc, next) == IF pc \in DOMAIN Then THEN Then[pc] ELSE next

-----------------------------------------------------------------------------
(* The IPC receive thread: a request that walks through the lists, or a backup. *)

Request ==
    /\ Goes("ipc") /\ ipc.open /\ ipc.pc = "idle"
    /\ \E pc \in {"route", "open_audio"} : ipc' = [ipc EXCEPT !.pc = pc]
    /\ UNCHANGED <<at, chip, proc, main, lists, run, player, frames, dsp, file>>

\* A list that a handler has freed may still look as it was.
UseLists ==
    /\ Goes("ipc") /\ ipc.pc \in {"route", "locked"}
    /\ \/ /\ ipc' = [ipc EXCEPT !.pc = IF ipc.pc = "route" THEN "locked" ELSE "idle"]
          /\ UNCHANGED <<at, chip, proc, main, lists, run, player, frames, dsp, file>>
       \/ /\ \E l \in List : lists[l] = "none"
          /\ Ended("crashed")

Backup ==
    /\ Goes("ipc") /\ ipc.pc \in SavePc
    /\ file' = Saved(ipc.pc)
    /\ ipc' = [ipc EXCEPT !.pc = After(ipc.pc, "idle")]
    /\ UNCHANGED <<at, chip, proc, main, lists, run, player, frames, dsp>>

-----------------------------------------------------------------------------
(* The signal handler. *)

\* Bug: a signal is not blocked while its handler runs.
Signal_Unblocked(thread) ==
    /\ proc = "up" /\ main = "running" /\ ipc.open
    /\ frames' = Append(frames, [thread |-> thread, pc |-> "stop", running |-> TRUE])
    /\ UNCHANGED <<at, chip, proc, main, lists, run, player, ipc, dsp, file>>

Signal(thread) ==
    /\ proc = "up" /\ Len(frames) < MaxSignals
    /\ main \notin {"load", "captures", "playbacks", "cards", "start", "signals"}
    /\ thread = "ipc" => ipc.open
    /\ frames' = Append(frames, [thread |-> thread, pc |-> "stop", running |-> main = "running"])
    /\ UNCHANGED <<at, chip, proc, main, lists, run, player, ipc, dsp, file>>

\* Of two handlers on one thread the later one goes on.
HandlerAt(i, here, next) ==
    /\ proc = "up"
    /\ frames[i].pc = here
    /\ \A j \in DOMAIN frames : j > i => frames[j].thread # frames[i].thread
    /\ frames' = [frames EXCEPT ![i].pc = next]
    /\ UNCHANGED <<proc, main, ipc>>

StopRun(i) ==
    /\ HandlerAt(i, "stop", IF player.block = "null" THEN "captures" ELSE "cancel")
    /\ run' = FALSE
    /\ UNCHANGED <<at, chip, lists, player, dsp, file>>

\* la_thread_wait_free; the second of two handlers may find the block freed
CancelPlayer(i) ==
    \/ /\ HandlerAt(i, "cancel", "join")
       /\ player' = [player EXCEPT !.cancelled = TRUE]
       /\ UNCHANGED <<at, chip, lists, run, dsp, file>>
    \/ /\ proc = "up" /\ frames[i].pc = "cancel" /\ player.block = "freed"
       /\ Ended("crashed")

JoinPlayer(i) ==
    /\ HandlerAt(i, "join", IF player.joined THEN "free" ELSE "wait")
    /\ player' = [player EXCEPT !.joined = TRUE]
    /\ UNCHANGED <<at, chip, lists, run, dsp, file>>

\* Bug: the thread is cancelled and not waited for.
WaitPlayer_Detached(i) ==
    /\ HandlerAt(i, "wait", "free")
    /\ UNCHANGED <<at, chip, lists, run, player, dsp, file>>

WaitPlayer(i) ==
    /\ player.state = "ended"
    /\ HandlerAt(i, "wait", "free")
    /\ UNCHANGED <<at, chip, lists, run, player, dsp, file>>

FreeThread(i) ==
    /\ \/ HandlerAt(i, "free", "forget") /\ player' = [player EXCEPT !.block = "freed"]
       \/ HandlerAt(i, "forget", "captures") /\ player' = [player EXCEPT !.block = "null"]
    /\ UNCHANGED <<at, chip, lists, run, dsp, file>>

Delete(i, here, next, list) ==
    /\ HandlerAt(i, here, next)
    /\ lists' = [lists EXCEPT ![list] = "none"]
    /\ UNCHANGED <<at, chip, run, player, dsp, file>>

DeleteCaptures(i)  == Delete(i, "captures", "cards", "capture")
DeleteCards(i)     == Delete(i, "cards", "playbacks", "card")
DeletePlaybacks(i) == Delete(i, "playbacks", "dsp", "playback")

\* if(la_mainloop.enable_dsp) qext_dsp_deinit()
StopDsp(i) ==
    /\ HandlerAt(i, "dsp", IF dsp.enable THEN "open_audio" ELSE "exit")
    /\ UNCHANGED <<at, chip, lists, run, player, dsp, file>>

SaveSettings(i) ==
    /\ frames[i].pc \in SavePc
    /\ HandlerAt(i, frames[i].pc, After(frames[i].pc, "close"))
    /\ file' = Saved(frames[i].pc)
    /\ UNCHANGED <<at, chip, lists, run, player, dsp>>

\* qdsp_close, through qdsp.ops
CloseDsp(i) ==
    \/ /\ dsp.ops
       /\ HandlerAt(i, "close", "exit")
       /\ CloseDev
       /\ UNCHANGED <<lists, run, player, dsp, file>>
    \/ /\ proc = "up" /\ frames[i].pc = "close" /\ ~dsp.ops
       /\ Ended("crashed")

Exit(i) ==
    /\ proc = "up" /\ frames[i].pc = "exit"
    /\ Ended("down")

Handler ==
    \E i \in DOMAIN frames :
        \/ StopRun(i) \/ CancelPlayer(i) \/ JoinPlayer(i) \/ WaitPlayer(i) \/ FreeThread(i)
        \/ DeleteCaptures(i) \/ DeleteCards(i) \/ DeletePlaybacks(i)
        \/ StopDsp(i) \/ SaveSettings(i) \/ CloseDsp(i) \/ Exit(i)

-----------------------------------------------------------------------------
Next ==
    \/ Start \/ Kill
    \/ Main
    \/ PlayerLocks \/ PlayerUnlocks \/ PlayerEnds
    \/ Request \/ UseLists \/ Backup
    \/ \E thread \in Threads : Signal(thread)
    \/ Handler

Spec == Init /\ [][Next]_vars

\* The threads are scheduled, except that no request need ever be sent; a mutex is handed to
\* a waiter; every round of the playback thread passes select, a cancellation point.
Fairness ==
    /\ WF_vars(Handler) /\ WF_vars(UseLists)
    /\ SF_vars(PlayerUnlocks) /\ SF_vars(PlayerEnds)

FairSpec == Spec /\ Fairness

-----------------------------------------------------------------------------
(* Properties. *)

\* The lists outlive the threads that use them: the playback thread, which la_deinit joins
\* first, and requests, unless a signal handler frees the lists under them.
ListsOutliveThreads ==
    proc = "up" =>
        /\ player.state \in {"goes", "locks"} => lists["playback"] = "probed"
        /\ ipc.pc \in {"route", "locked"} /\ frames = <<>> => \A l \in List : lists[l] = "probed"

\* A signal that stops a running daemon never replaces settings by those of a DSP that has not
\* been set up, whatever part of the start has failed: only a backup request does, and a signal
\* during the start.
SignalKeepsSettings ==
    [][\A i \in DOMAIN frames \cap DOMAIN frames' :
          frames[i].running /\ frames'[i].pc # frames[i].pc =>
              \A s \in Setting : file'[s] = "blank" => file[s] = "blank"]_vars

\* A signal ends the daemon, whatever the threads are doing.
SignalEnds == proc = "up" /\ frames # <<>> ~> proc # "up"

=============================================================================
