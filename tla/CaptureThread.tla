--------------------------- MODULE CaptureThread ---------------------------
(***************************************************************************)
(* One capture: the thread that records from its PCM and plays into the    *)
(* PCM of a playback (the pipe), and the two that start and stop it, the   *)
(* IPC receive thread and the thread that runs la_deinit.  connect is a    *)
(* volatile flag and no mutex is taken: what keeps a handle from being     *)
(* closed while it is used is the join in la_capture_stop.                 *)
(***************************************************************************)
EXTENDS Naturals, FiniteSets

CONSTANTS
    Thread,      \* the la_thread_t blocks that malloc hands out
    NULL,        \* no thread
    Frames,      \* the frames of a period
    FrameBytes,  \* LA_CARD_FRAME_BYTES
    BufferSize,  \* LA_CARD_BUFFER_SIZE
    Overlap      \* la_deinit may run while a request is being served

ASSUME CaptureAssumption ==
    /\ NULL \notin Thread
    /\ Frames \in Nat \ {0} /\ FrameBytes \in Nat \ {0} /\ BufferSize \in Nat \ {0}
    /\ Overlap \in BOOLEAN

VARIABLES
    run,         \* qa.run
    connect,     \* capture->connect
    thread,      \* capture->thread
    block,       \* what each la_thread_t is: free or allocated, its joined flag, cancelled
    handles,     \* capture->handle and capture->pipe_handle
    pipe_start,  \* capture->pipe_start
    stream,      \* capture->chunk and capture->stream_len
    worker,      \* the capture threads
    actor        \* the threads that start and stop: IPC receive, and the one in la_deinit

vars == <<run, connect, thread, block, handles, pipe_start, stream, worker, actor>>

Actor    == {"ipc", "main"}
Handle   == {"null", "open", "closed"}
WorkerPc == {"none", "loop", "read", "readi", "got", "write", "rewrite", "sleep", "done"}
ActorPc  == {"idle", "open_pipe", "open_handle", "create",
             "disconnect", "cancel", "join", "wait", "free", "close", "gone"}

TypeOK ==
    /\ run \in BOOLEAN /\ connect \in BOOLEAN /\ pipe_start \in BOOLEAN
    /\ thread \in Thread \cup {NULL}
    /\ block \in [Thread -> [used : BOOLEAN, joined : BOOLEAN, cancelled : BOOLEAN]]
    /\ handles \in [capture : Handle, pipe : Handle]
    /\ stream \in [chunk : Nat, len : Nat]
    /\ worker \in [Thread -> [pc : WorkerPc, count : 0..Frames, data : 0..Frames,
                              failed : BOOLEAN]]
    /\ actor \in [Actor -> [pc : ActorPc, thread : Thread \cup {NULL}]]

Unused == [used |-> FALSE, joined |-> FALSE, cancelled |-> FALSE]
NoWork == [pc |-> "none", count |-> 0, data |-> 0, failed |-> FALSE]

\* la_capture_probe
Init ==
    /\ run = TRUE /\ connect = FALSE /\ thread = NULL /\ pipe_start = FALSE
    /\ block = [t \in Thread |-> Unused]
    /\ handles = [capture |-> "null", pipe |-> "null"]
    /\ stream = [chunk |-> 0, len |-> BufferSize]
    /\ worker = [t \in Thread |-> NoWork]
    /\ actor = [a \in Actor |-> [pc |-> "idle", thread |-> NULL]]

-----------------------------------------------------------------------------
(* la_capture_start, on the IPC receive thread. *)

Goes(a, from, to) ==
    /\ actor[a].pc = from
    /\ actor' = [actor EXCEPT ![a].pc = to]

StartCapture ==
    /\ ~connect
    /\ Goes("ipc", "idle", "open_pipe")
    /\ UNCHANGED <<run, connect, thread, block, handles, pipe_start, stream, worker>>

\* On an error the name of the PCM, an array on the stack, is freed; where free does not
\* abort, the request is refused.
OpenPipe ==
    /\ \/ /\ Goes("ipc", "open_pipe", "open_handle")
          /\ handles' = [handles EXCEPT !.pipe = "open"]
       \/ /\ Goes("ipc", "open_pipe", "idle")
          /\ UNCHANGED handles
    /\ UNCHANGED <<run, connect, thread, block, pipe_start, stream, worker>>

\* Bug: the pipe stays open if the capture cannot be opened.
OpenHandle_Leaks ==
    /\ \/ /\ Goes("ipc", "open_handle", "idle")
          /\ UNCHANGED <<handles, connect, pipe_start, stream>>
       \/ /\ Goes("ipc", "open_handle", "create")
          /\ handles' = [handles EXCEPT !.capture = "open"]
          /\ connect' = TRUE
          /\ UNCHANGED <<pipe_start, stream>>
    /\ UNCHANGED <<run, thread, block, worker>>

\* An error closes the pipe and leaves its pointer.  Otherwise the chunk is what the hardware
\* granted, or what it was if it refused the parameters.
OpenHandle ==
    /\ \/ /\ Goes("ipc", "open_handle", "idle")
          /\ handles' = [handles EXCEPT !.pipe = "closed"]
          /\ UNCHANGED <<connect, pipe_start, stream>>
       \/ /\ Goes("ipc", "open_handle", "create")
          /\ handles' = [handles EXCEPT !.capture = "open"]
          /\ \E chunk \in {stream.chunk, Frames * FrameBytes} :
                stream' = [chunk |-> chunk,
                           len   |-> IF stream.len < chunk THEN chunk ELSE stream.len]
          /\ pipe_start' = TRUE
          /\ connect' = TRUE
    /\ UNCHANGED <<run, thread, block, worker>>

\* la_thread_new
CreateThread ==
    /\ Goes("ipc", "create", "idle")
    /\ \E t \in Thread :
          /\ ~block[t].used /\ worker[t].pc \in {"none", "done"}
          /\ block' = [block EXCEPT ![t] = [Unused EXCEPT !.used = TRUE]]
          /\ worker' = [worker EXCEPT ![t] = [NoWork EXCEPT !.pc = "loop"]]
          /\ thread' = t
    /\ UNCHANGED <<run, connect, handles, pipe_start, stream>>

-----------------------------------------------------------------------------
(* la_capture_stop, on the IPC receive thread and in la_capture_delet. *)

StopCapture ==
    /\ connect
    /\ Goes("ipc", "idle", "disconnect")
    /\ UNCHANGED <<run, connect, thread, block, handles, pipe_start, stream, worker>>

Disconnect(a) ==
    /\ actor[a].pc = "disconnect"
    /\ connect' = FALSE
    /\ actor' = [actor EXCEPT ![a] = [pc |-> IF thread = NULL THEN "close" ELSE "cancel",
                                      thread |-> thread]]
    /\ UNCHANGED <<run, thread, block, handles, pipe_start, stream, worker>>

Cancel(a) ==
    /\ Goes(a, "cancel", "join")
    /\ block' = [block EXCEPT ![actor[a].thread].cancelled = TRUE]
    /\ UNCHANGED <<run, connect, thread, handles, pipe_start, stream, worker>>

\* Bug: la_thread_free, which detaches the thread instead.
Join_Detached(a) ==
    /\ Goes(a, "join", "free")
    /\ UNCHANGED <<run, connect, thread, block, handles, pipe_start, stream, worker>>

\* la_thread_join returns at once if the thread is joined already
Join(a) ==
    /\ LET t == actor[a].thread
       IN  /\ Goes(a, "join", IF block[t].joined THEN "free" ELSE "wait")
           /\ block' = [block EXCEPT ![t].joined = TRUE]
    /\ UNCHANGED <<run, connect, thread, handles, pipe_start, stream, worker>>

\* pthread_join
Wait(a) ==
    /\ actor[a].pc = "wait"
    /\ worker[actor[a].thread].pc \in {"none", "done"}
    /\ Goes(a, "wait", "free")
    /\ UNCHANGED <<run, connect, thread, block, handles, pipe_start, stream, worker>>

\* la_free(t), then capture->thread = NULL
FreeThread(a) ==
    /\ actor[a].pc = "free"
    /\ block' = [block EXCEPT ![actor[a].thread] = Unused]
    /\ worker' = [worker EXCEPT ![actor[a].thread] = IF @.pc = "done" THEN NoWork ELSE @]
    /\ thread' = NULL
    /\ actor' = [actor EXCEPT ![a] = [pc |-> "close", thread |-> NULL]]
    /\ UNCHANGED <<run, connect, handles, pipe_start, stream>>

\* la_capture_close_pcm; la_capture_delet then frees the capture
ClosePcm(a) ==
    /\ Goes(a, "close", IF a = "main" THEN "gone" ELSE "idle")
    /\ handles' = [capture |-> "null", pipe |-> "null"]
    /\ UNCHANGED <<run, connect, thread, block, pipe_start, stream, worker>>

\* la_deinit: qa.run = false, and la_capture_delet stops a capture that is connected
Deinit ==
    /\ Overlap \/ actor["ipc"].pc = "idle"
    /\ Goes("main", "idle", IF connect THEN "disconnect" ELSE "gone")
    /\ run' = FALSE
    /\ UNCHANGED <<connect, thread, block, handles, pipe_start, stream, worker>>

Request == (Overlap \/ run) /\ (StartCapture \/ StopCapture)

Serve(a) ==
    \/ a = "ipc" /\ (OpenPipe \/ OpenHandle \/ CreateThread)
    \/ Disconnect(a) \/ Cancel(a) \/ Join(a) \/ Wait(a) \/ FreeThread(a) \/ ClosePcm(a)

-----------------------------------------------------------------------------
(* The capture thread: la_capture_thread_func, la_capture_read, la_capture_write. *)

Works(t, from, to) ==
    /\ worker[t].pc = from
    /\ worker' = [worker EXCEPT ![t].pc = to]
    /\ UNCHANGED <<run, connect, thread, block, handles, stream, actor>>

\* The loop condition; a new read has the frames of a chunk to get.
Loop(t) ==
    /\ worker[t].pc = "loop"
    /\ worker' = [worker EXCEPT ![t] =
                    IF run /\ connect
                    THEN [pc |-> "read", count |-> stream.chunk \div FrameBytes,
                          data |-> 0, failed |-> FALSE]
                    ELSE [NoWork EXCEPT !.pc = "done"]]
    /\ UNCHANGED <<run, connect, thread, block, handles, pipe_start, stream, actor>>

\* Bug: the loop looks only at the frames that are missing.
ReadMore_Unchecked(t) ==
    /\ Works(t, "read", IF worker[t].count > 0 THEN "readi" ELSE "got")
    /\ UNCHANGED pipe_start

ReadMore(t) ==
    /\ Works(t, "read", IF worker[t].count > 0 /\ connect THEN "readi" ELSE "got")
    /\ UNCHANGED pipe_start

\* EAGAIN (then snd_pcm_wait), an error recovered from, or nothing read
ReadNothing(t) == Works(t, "readi", "read") /\ UNCHANGED pipe_start

\* Bug: the frames still to read are not counted down.
ReadFrames_Uncounted(t) ==
    /\ worker[t].pc = "readi"
    /\ \E n \in 1..worker[t].count :
          worker' = [worker EXCEPT ![t].pc = "read",
                                   ![t].data = IF @ + n > Frames THEN Frames ELSE @ + n]
    /\ UNCHANGED <<run, connect, thread, block, handles, pipe_start, stream, actor>>

\* Bug: one frame more than asked for is counted.
ReadFrames_OneMore(t) ==
    /\ worker[t].pc = "readi"
    /\ \E n \in 1..worker[t].count :
          worker' = [worker EXCEPT ![t].pc = "read", ![t].count = @ - n,
                                   ![t].data = @ + n + 1]
    /\ UNCHANGED <<run, connect, thread, block, handles, pipe_start, stream, actor>>

\* n frames are read; data, the byte where the next ones go, advances by n as well
ReadFrames(t) ==
    /\ worker[t].pc = "readi"
    /\ \E n \in 1..worker[t].count :
          worker' = [worker EXCEPT ![t].pc = "read", ![t].count = @ - n, ![t].data = @ + n]
    /\ UNCHANGED <<run, connect, thread, block, handles, pipe_start, stream, actor>>

ReadFails(t) ==
    /\ worker[t].pc = "readi"
    /\ worker' = [worker EXCEPT ![t].pc = "got", ![t].failed = TRUE]
    /\ UNCHANGED <<run, connect, thread, block, handles, pipe_start, stream, actor>>

\* What was read is written unless the capture was stopped; nothing or an error is waited out
\* (an error other than EBADFD and ENODEV is retried at once).
Got(t) ==
    LET w == worker[t]
    IN  /\ Works(t, "got", IF ~connect THEN "done"
                           ELSE IF ~w.failed /\ w.data > 0 THEN "write" ELSE "sleep")
        /\ UNCHANGED pipe_start

Sleep(t) == Works(t, "sleep", "loop") /\ UNCHANGED pipe_start

\* snd_pcm_writei, or recv_cb without a pipe; a recovered error starts the pipe anew
WritePipe(t) ==
    /\ \E from \in {"write", "rewrite"} : Works(t, from, "loop")
    /\ pipe_start' \in {pipe_start, TRUE}

\* EAGAIN from a pipe that is to be started
StartPipe(t) ==
    /\ pipe_start /\ handles.pipe # "null"
    /\ \E to \in {"rewrite", "loop"} : Works(t, "write", to)
    /\ pipe_start' = FALSE

\* A cancelled thread ends where it blocks.
EndCancelled(t) ==
    /\ block[t].cancelled
    /\ \E from \in {"readi", "write", "rewrite", "sleep"} : Works(t, from, "done")
    /\ UNCHANGED pipe_start

Work(t) ==
    \/ Loop(t) \/ ReadMore(t) \/ ReadNothing(t) \/ ReadFrames(t) \/ ReadFails(t)
    \/ Got(t) \/ Sleep(t) \/ WritePipe(t) \/ StartPipe(t) \/ EndCancelled(t)

-----------------------------------------------------------------------------
Next ==
    \/ Request \/ Deinit
    \/ \E a \in Actor : Serve(a)
    \/ \E t \in Thread : Work(t)

Spec == Init /\ [][Next]_vars

\* Every thread is scheduled, and the blocking calls of ALSA return.
Fairness ==
    /\ \A a \in Actor : WF_vars(Serve(a))
    /\ \A t \in Thread : WF_vars(Work(t))

FairSpec == Spec /\ Fairness

-----------------------------------------------------------------------------
(* Properties. *)

Alive == {t \in Thread : worker[t].pc \notin {"none", "done"}}

\* The capture thread uses a PCM only while it is open: la_capture_stop closes none that a
\* thread may still read or write.
UsedIsOpen ==
    \A t \in Thread :
        /\ worker[t].pc = "readi" => handles.capture = "open"
        /\ worker[t].pc \in {"write", "rewrite"} => handles.pipe = "open"

\* A capture never has two threads, however fast it is stopped and started.
OneThread == Cardinality(Alive) <= 1

\* When no request is in progress, a capture that is not connected holds nothing: no thread,
\* no block, no open PCM; one that is connected holds its thread and both PCMs.
ConnectIsTrue ==
    (\A a \in Actor : actor[a].pc \in {"idle", "gone"}) =>
        IF connect
        THEN /\ thread # NULL /\ block[thread].used
             /\ handles = [capture |-> "open", pipe |-> "open"]
        ELSE /\ Alive = {} /\ thread = NULL
             /\ \A t \in Thread : ~block[t].used
             /\ handles.capture # "open" /\ handles.pipe # "open"

\* The rest of a chunk fits behind the frames already read, although data counts frames and
\* is used as a byte offset.
ReadFits ==
    \A t \in Thread :
        worker[t].pc = "readi" =>
            worker[t].data + worker[t].count * FrameBytes <= stream.len

\* A stop ends: the thread it joins sees connect or is cancelled.
StopEnds ==
    \A a \in Actor :
        actor[a].pc \in {"disconnect", "cancel", "join", "wait", "free", "close"}
            ~> actor[a].pc \in {"idle", "gone"}

=============================================================================
