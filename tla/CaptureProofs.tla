--------------------------- MODULE CaptureProofs ----------------------------
(***************************************************************************)
(* What CaptureThread keeps true for any number of thread blocks and any   *)
(* size of a period.  The counts of la_capture_read stay right however     *)
(* la_deinit and the requests meet.  That a PCM is closed only once its    *)
(* thread has ended is proved for requests and la_deinit that do not       *)
(* overlap: one stop is then on at a time, and its place tells what it has *)
(* already undone.                                                         *)
(***************************************************************************)
EXTENDS CaptureThread, FiniteSetTheorems, TLAPS

-----------------------------------------------------------------------------
(* Division of a chunk into frames. *)

\* The whole frames of a chunk fill no more than the chunk.
LEMMA WholeFrames ==
    ASSUME NEW c \in Nat, NEW b \in Nat \ {0}
    PROVE  c \div b \in Nat /\ (c \div b) * b <= c
BY Z3

\* A chunk of whole frames has that many frames.
LEMMA FramesOfChunk ==
    ASSUME NEW f \in Nat, NEW b \in Nat \ {0}
    PROVE  (f * b) \div b = f /\ 0 \div b = 0
<1>1. (f * b) \div b = f
  BY Z3
<1>2. 0 \div b = 0
  BY Z3
<1>. QED
  BY <1>1, <1>2

\* Counting frames as bytes reserves no more than counting them as frames.
LEMMA FramesAsBytes ==
    ASSUME NEW d \in Nat, NEW c \in Nat, NEW b \in Nat \ {0}
    PROVE  d + c * b <= (d + c) * b
BY Z3

-----------------------------------------------------------------------------
(* The counts of la_capture_read. *)

WorkerRecord == [pc : WorkerPc, count : 0..Frames, data : 0..Frames, failed : BOOLEAN]

Reading(t) == worker[t].pc \in {"read", "readi"}

\* While a chunk is read, what is there and what is missing are the frames of a chunk.  The
\* chunk may change meanwhile, stream_len only grows.
WorkInv ==
    /\ worker \in [Thread -> WorkerRecord]
    /\ stream \in [chunk : Nat, len : Nat]
    /\ stream.chunk \in {0, Frames * FrameBytes}
    /\ stream.chunk <= stream.len
    /\ \A t \in Thread :
          /\ worker[t].data + worker[t].count <= Frames
          /\ Reading(t) => (worker[t].data + worker[t].count) * FrameBytes <= stream.len

\* A worker that goes on without counting.
LEMMA GoesOnWork ==
    ASSUME WorkInv, NEW t \in Thread, NEW w \in WorkerRecord,
           worker' = [worker EXCEPT ![t] = w], stream' = stream,
           w.data + w.count <= Frames,
           w.pc \in {"read", "readi"} => (w.data + w.count) * FrameBytes <= stream.len
    PROVE  WorkInv'
BY DEF WorkInv, Reading

\* A capture thread that goes on keeps its part of the invariant.
LEMMA WorksWork ==
    ASSUME WorkInv, NEW t \in Thread, NEW from, NEW to \in WorkerPc, Works(t, from, to),
           to \in {"read", "readi"} => from \in {"read", "readi"}
    PROVE  WorkInv'
<1>. DEFINE w == [worker[t] EXCEPT !.pc = to]
<1>1. worker[t] \in WorkerRecord /\ worker[t].pc = from /\ stream' = stream
      /\ worker' = [worker EXCEPT ![t].pc = to]
  BY DEF WorkInv, Works
<1>2. w \in WorkerRecord /\ w.pc = to /\ w.data = worker[t].data /\ w.count = worker[t].count
  BY <1>1 DEF WorkerRecord
<1>3. worker' = [worker EXCEPT ![t] = w]
  BY <1>1
<1>. HIDE DEF w
<1>. QED
  BY <1>1, <1>2, <1>3, GoesOnWork DEF WorkInv, Reading

\* The places of the capture thread.
LEMMA WorkerPcs ==
    {"none", "loop", "read", "readi", "got", "write", "rewrite", "sleep", "done"} \subseteq WorkerPc
BY DEF WorkerPc

\* A step of a capture thread keeps its counts.
LEMMA WorkWork == ASSUME WorkInv, NEW t \in Thread, Work(t) PROVE WorkInv'
<1>. DEFINE w == worker[t]
<1>1. w \in WorkerRecord /\ w.data \in 0..Frames /\ w.count \in 0..Frames
      /\ w.data + w.count <= Frames
  BY DEF WorkInv, WorkerRecord
<1>2. Frames \in Nat \ {0} /\ FrameBytes \in Nat \ {0}
  BY CaptureAssumption
<1>3. CASE Loop(t)
  <2>. DEFINE n == stream.chunk \div FrameBytes
              v == IF run /\ connect
                   THEN [pc |-> "read", count |-> n, data |-> 0, failed |-> FALSE]
                   ELSE [NoWork EXCEPT !.pc = "done"]
  <2>1. stream.chunk \in Nat /\ stream.len \in Nat /\ stream.chunk <= stream.len
        /\ stream.chunk \in {0, Frames * FrameBytes}
    BY DEF WorkInv
  <2>2. n \in Nat /\ n * FrameBytes <= stream.len
    <3>1. n \in Nat /\ n * FrameBytes <= stream.chunk
      BY <1>2, <2>1, WholeFrames
    <3>2. n * FrameBytes \in Nat
      BY <1>2, <3>1
    <3>. QED
      BY <2>1, <3>1, <3>2
  <2>3. n \in 0..Frames
    BY <1>2, <2>1, FramesOfChunk
  <2>4. worker' = [worker EXCEPT ![t] = v] /\ stream' = stream
    BY <1>3 DEF Loop
  <2>. HIDE DEF n
  <2>5. v \in WorkerRecord /\ v.data + v.count <= Frames
        /\ (v.pc \in {"read", "readi"} => v.data = 0 /\ v.count = n)
    <3>1. CASE run /\ connect
      BY <1>2, <2>3, <3>1, WorkerPcs DEF WorkerRecord
    <3>2. CASE ~(run /\ connect)
      <4>1. v = [pc |-> "done", count |-> 0, data |-> 0, failed |-> FALSE]
        BY <3>2 DEF NoWork
      <4>2. 0 \in 0..Frames /\ 0 + 0 <= Frames
        BY <1>2
      <4>. QED
        BY <4>1, <4>2, WorkerPcs DEF WorkerRecord
    <3>. QED
      BY <3>1, <3>2
  <2>. HIDE DEF v
  <2>6. v.pc \in {"read", "readi"} => (v.data + v.count) * FrameBytes <= stream.len
    BY <2>2, <2>3, <2>5
  <2>. QED
    BY <2>4, <2>5, <2>6, GoesOnWork
<1>4. CASE ReadMore(t) \/ ReadNothing(t) \/ Got(t) \/ Sleep(t) \/ WritePipe(t) \/ StartPipe(t)
           \/ EndCancelled(t)
  <2>1. CASE ReadMore(t)
    BY <2>1, WorkerPcs, WorksWork DEF ReadMore
  <2>2. CASE ReadNothing(t)
    BY <2>2, WorkerPcs, WorksWork DEF ReadNothing
  <2>3. CASE Got(t)
    BY <2>3, WorkerPcs, WorksWork DEF Got
  <2>4. CASE Sleep(t)
    BY <2>4, WorkerPcs, WorksWork DEF Sleep
  <2>5. CASE WritePipe(t)
    BY <2>5, WorkerPcs, WorksWork DEF WritePipe
  <2>6. CASE StartPipe(t)
    BY <2>6, WorkerPcs, WorksWork DEF StartPipe
  <2>7. CASE EndCancelled(t)
    BY <2>7, WorkerPcs, WorksWork DEF EndCancelled
  <2>. QED
    BY <1>4, <2>1, <2>2, <2>3, <2>4, <2>5, <2>6, <2>7
<1>5. CASE ReadFrames(t)
  <2>1. PICK n \in 1..w.count :
          worker' = [worker EXCEPT ![t].pc = "read", ![t].count = @ - n, ![t].data = @ + n]
    BY <1>5 DEF ReadFrames
  <2>. DEFINE v == [w EXCEPT !.pc = "read", !.count = @ - n, !.data = @ + n]
  <2>2. worker' = [worker EXCEPT ![t] = v]
    BY <2>1 DEF WorkInv
  <2>3. v.pc = "read" /\ v.count = w.count - n /\ v.data = w.data + n
        /\ v \in WorkerRecord
    <3>1. w.count - n \in 0..Frames /\ w.data + n \in 0..Frames
      BY <1>1, <1>2
    <3>. HIDE DEF w
    <3>. QED
      BY <1>1, <3>1, WorkerPcs DEF WorkerRecord
  <2>. HIDE DEF v
  <2>4. v.data + v.count = w.data + w.count
    BY <1>1, <2>3
  <2>5. stream' = stream /\ Reading(t)
    BY <1>5 DEF ReadFrames, Reading
  <2>. QED
    BY <1>1, <2>2, <2>3, <2>4, <2>5, GoesOnWork DEF WorkInv
<1>6. CASE ReadFails(t)
  <2>. DEFINE v == [w EXCEPT !.pc = "got", !.failed = TRUE]
  <2>1. worker' = [worker EXCEPT ![t] = v] /\ stream' = stream
    BY <1>6 DEF ReadFails, WorkInv
  <2>2. v \in WorkerRecord /\ v.pc = "got" /\ v.data = w.data /\ v.count = w.count
    BY <1>1, WorkerPcs DEF WorkerRecord
  <2>. HIDE DEF v
  <2>. QED
    BY <1>1, <2>1, <2>2, GoesOnWork
<1>. QED
  BY <1>3, <1>4, <1>5, <1>6 DEF Work

-----------------------------------------------------------------------------
(* The types. *)

BlockRecord == [used : BOOLEAN, joined : BOOLEAN, cancelled : BOOLEAN]
ActorRecord == [pc : ActorPc, thread : Thread \cup {NULL}]
HandlePair  == [capture : Handle, pipe : Handle]

\* The places of la_capture_stop between the read of capture->thread and its la_free.
Joining == {"cancel", "join", "wait", "free"}

\* A stop that joins has read a thread: it is not NULL.
StateInv ==
    /\ run \in BOOLEAN /\ connect \in BOOLEAN /\ pipe_start \in BOOLEAN
    /\ thread \in Thread \cup {NULL}
    /\ block \in [Thread -> BlockRecord]
    /\ handles \in HandlePair
    /\ actor \in [Actor -> ActorRecord]
    /\ \A a \in Actor : actor[a].pc \in Joining => actor[a].thread \in Thread

\* The places of the two threads that start and stop.
LEMMA ActorPcs ==
    /\ {"idle", "open_pipe", "open_handle", "create", "disconnect", "cancel", "join", "wait",
        "free", "close", "gone"} \subseteq ActorPc
    /\ {"idle", "open_pipe", "open_handle", "create", "disconnect", "close", "gone"}
          \cap Joining = {}
    /\ Joining = {"cancel", "join", "wait", "free"}
    /\ "ipc" \in Actor /\ "main" \in Actor
BY DEF ActorPc, Joining, Actor

\* One of the two goes on and joins only what it has joined before.
LEMMA GoesFacts ==
    ASSUME StateInv, NEW a \in Actor, NEW from, NEW to \in ActorPc, Goes(a, from, to)
    PROVE  /\ actor' \in [Actor -> ActorRecord]
           /\ actor[a].pc = from /\ actor'[a].pc = to /\ actor'[a].thread = actor[a].thread
           /\ \A b \in Actor : b # a => actor'[b] = actor[b]
BY DEF StateInv, Goes, ActorRecord

\* A start or a stop that goes on joins none but a thread it has found.
LEMMA GoesActors ==
    ASSUME StateInv, NEW a \in Actor, NEW from, NEW to \in ActorPc, Goes(a, from, to),
           to \in Joining => from \in Joining
    PROVE  /\ actor' \in [Actor -> ActorRecord]
           /\ \A b \in Actor : actor'[b].pc \in Joining => actor'[b].thread \in Thread
BY GoesFacts DEF StateInv

\* Every step of the capture thread leaves the state that starts and stops share, but for
\* pipe_start.
LEMMA WorkFrame ==
    ASSUME NEW t \in Thread, Work(t)
    PROVE  /\ UNCHANGED <<run, connect, thread, block, handles, stream, actor>>
           /\ pipe_start \in BOOLEAN => pipe_start' \in BOOLEAN
BY DEF Work, Loop, ReadMore, ReadNothing, ReadFrames, ReadFails, Got, Sleep, WritePipe, StartPipe,
   EndCancelled, Works

\* Every step keeps these types.
LEMMA StateStep == ASSUME StateInv, [Next]_vars PROVE StateInv'
<1>. USE ActorPcs
<1>1. CASE StartCapture
  BY <1>1, GoesActors DEF StartCapture, StateInv
<1>2. CASE StopCapture
  BY <1>2, GoesActors DEF StopCapture, StateInv
<1>3. CASE Deinit
  BY <1>3, GoesActors DEF Deinit, StateInv
<1>4. ASSUME NEW a \in Actor, Serve(a)
      PROVE  StateInv'
  <2>1. CASE OpenPipe
    BY <2>1, GoesActors DEF OpenPipe, StateInv, HandlePair, Handle
  <2>2. CASE OpenHandle
    BY <2>2, GoesActors DEF OpenHandle, StateInv, HandlePair, Handle
  <2>3. CASE CreateThread
    <3>1. [Unused EXCEPT !.used = TRUE] \in BlockRecord
      BY DEF Unused, BlockRecord
    <3>. QED
      BY <2>3, <3>1, GoesActors DEF CreateThread, StateInv
  <2>4. CASE Disconnect(a)
    BY <2>4 DEF Disconnect, StateInv, ActorRecord
  <2>5. CASE Cancel(a)
    BY <2>5, GoesActors DEF Cancel, StateInv, BlockRecord
  <2>6. CASE Join(a)
    BY <2>6, GoesActors DEF Join, StateInv, BlockRecord
  <2>7. CASE Wait(a)
    BY <2>7, GoesActors DEF Wait, StateInv
  <2>8. CASE FreeThread(a)
    <3>1. Unused \in BlockRecord
      BY DEF Unused, BlockRecord
    <3>. QED
      BY <2>8, <3>1 DEF FreeThread, StateInv, ActorRecord
  <2>9. CASE ClosePcm(a)
    BY <2>9, GoesActors DEF ClosePcm, StateInv, HandlePair, Handle
  <2>. QED
    BY <1>4, <2>1, <2>2, <2>3, <2>4, <2>5, <2>6, <2>7, <2>8, <2>9 DEF Serve
<1>5. ASSUME NEW t \in Thread, Work(t)
      PROVE  StateInv'
  BY <1>5, WorkFrame DEF StateInv
<1>6. CASE UNCHANGED vars
  BY <1>6 DEF vars, StateInv
<1>. QED
  BY <1>1, <1>2, <1>3, <1>4, <1>5, <1>6 DEF Next, Request

\* Every step keeps the counts, as stream_len only grows.
LEMMA WorkStep == ASSUME WorkInv, StateInv, [Next]_vars PROVE WorkInv'
<1>1. CASE UNCHANGED <<worker, stream>>
  BY <1>1 DEF WorkInv, Reading
<1>2. CASE OpenHandle
  <2>1. worker' = worker
    BY <1>2 DEF OpenHandle
  <2>2. ASSUME NEW chunk \in {stream.chunk, Frames * FrameBytes},
               stream' = [chunk |-> chunk,
                          len |-> IF stream.len < chunk THEN chunk ELSE stream.len]
        PROVE  WorkInv'
    <3>1. stream.chunk \in Nat /\ stream.len \in Nat /\ stream.chunk \in {0, Frames * FrameBytes}
      BY DEF WorkInv
    <3>2. chunk \in Nat /\ chunk \in {0, Frames * FrameBytes}
      BY <3>1, CaptureAssumption
    <3>3. stream'.chunk = chunk /\ stream'.len \in Nat /\ stream.len <= stream'.len
          /\ chunk <= stream'.len /\ stream' \in [chunk : Nat, len : Nat]
      BY <2>2, <3>1, <3>2
    <3>4. ASSUME NEW t \in Thread, Reading(t)'
          PROVE  (worker'[t].data + worker'[t].count) * FrameBytes <= stream'.len
      <4>1. (worker[t].data + worker[t].count) * FrameBytes <= stream.len
        BY <2>1, <3>4 DEF WorkInv, Reading
      <4>2. worker[t].data + worker[t].count \in Nat
        BY CaptureAssumption DEF WorkInv, WorkerRecord
      <4>3. (worker[t].data + worker[t].count) * FrameBytes \in Nat
        BY <4>2, CaptureAssumption
      <4>. QED
        BY <2>1, <3>1, <3>3, <4>1, <4>3
    <3>. QED
      BY <2>1, <3>2, <3>3, <3>4 DEF WorkInv
  <2>. QED
    BY <1>1, <1>2, <2>1, <2>2 DEF OpenHandle
<1>3. CASE CreateThread
  <2>1. PICK t \in Thread : worker' = [worker EXCEPT ![t] = [NoWork EXCEPT !.pc = "loop"]]
    BY <1>3 DEF CreateThread
  <2>. DEFINE w == [NoWork EXCEPT !.pc = "loop"]
  <2>2. NoWork \in WorkerRecord /\ NoWork.count = 0 /\ NoWork.data = 0
    BY WorkerPcs, CaptureAssumption DEF NoWork, WorkerRecord
  <2>3. w \in WorkerRecord /\ w.data + w.count <= Frames /\ w.pc \notin {"read", "readi"}
    BY <2>2, WorkerPcs, CaptureAssumption DEF WorkerRecord
  <2>. HIDE DEF w
  <2>4. worker' = [worker EXCEPT ![t] = w] /\ stream' = stream
    BY <1>3, <2>1 DEF CreateThread, w
  <2>. QED
    BY <2>3, <2>4, GoesOnWork
<1>4. ASSUME NEW a \in Actor, FreeThread(a)
      PROVE  WorkInv'
  <2>. DEFINE t == actor[a].thread
              w == IF worker[t].pc = "done" THEN NoWork ELSE worker[t]
  <2>1. t \in Thread /\ stream' = stream /\ worker' = [worker EXCEPT ![t] = w]
    BY <1>4, ActorPcs DEF FreeThread, StateInv
  <2>2. w \in WorkerRecord /\ w.data + w.count <= Frames
        /\ (w.pc \in {"read", "readi"} => (w.data + w.count) * FrameBytes <= stream.len)
    <3>1. CASE worker[t].pc = "done"
      BY <3>1, WorkerPcs, CaptureAssumption DEF NoWork, WorkerRecord
    <3>2. CASE worker[t].pc # "done"
      BY <2>1, <3>2 DEF WorkInv, Reading
    <3>. QED
      BY <3>1, <3>2
  <2>. HIDE DEF w, t
  <2>. QED
    BY <2>1, <2>2, GoesOnWork
<1>5. ASSUME NEW t \in Thread, Work(t)
      PROVE  WorkInv'
  BY <1>5, WorkWork
<1>6. ASSUME NEW a \in Actor, Serve(a), ~OpenHandle, ~CreateThread, ~FreeThread(a)
      PROVE  UNCHANGED <<worker, stream>>
  BY <1>6 DEF Serve, OpenPipe, Disconnect, Cancel, Join, Wait, ClosePcm
<1>7. Request \/ Deinit \/ UNCHANGED vars => UNCHANGED <<worker, stream>>
  BY DEF Request, StartCapture, StopCapture, Deinit, vars
<1>. QED
  BY <1>1, <1>2, <1>3, <1>4, <1>5, <1>6, <1>7 DEF Next

\* la_capture_probe leaves these types and an idle capture.
LEMMA TypesInit == Init => WorkInv /\ StateInv
<1>. SUFFICES ASSUME Init PROVE WorkInv /\ StateInv
  OBVIOUS
<1>1. \A t \in Thread : worker[t] = [pc |-> "none", count |-> 0, data |-> 0, failed |-> FALSE]
  BY DEF Init, NoWork
<1>2. worker \in [Thread -> WorkerRecord]
  BY CaptureAssumption, WorkerPcs DEF Init, NoWork, WorkerRecord
<1>3. WorkInv
  BY <1>1, <1>2, CaptureAssumption DEF Init, WorkInv, Reading
<1>4. StateInv
  BY ActorPcs DEF Init, StateInv, BlockRecord, Unused, HandlePair, Handle, ActorRecord
<1>. QED
  BY <1>3, <1>4

\* These types and counts hold in every state.
LEMMA TypesAlways == Spec => [](WorkInv /\ StateInv)
<1>1. WorkInv /\ StateInv /\ [Next]_vars => (WorkInv /\ StateInv)'
  BY WorkStep, StateStep
<1>. QED
  BY <1>1, TypesInit, PTL DEF Spec

\* Flags, blocks, handles and the places of the threads keep their types, and a thread never
\* counts more frames than a period has.
THEOREM TypeAlways == Spec => []TypeOK
<1>1. WorkInv /\ StateInv => TypeOK
  BY DEF WorkInv, StateInv, TypeOK, WorkerRecord, BlockRecord, ActorRecord, HandlePair
<1>. QED
  BY <1>1, TypesAlways, PTL

\* Whether requests and la_deinit overlap or not, the rest of a chunk fits behind the frames
\* already read.
THEOREM ReadAlwaysFits == Spec => []ReadFits
<1>1. ASSUME WorkInv, NEW t \in Thread, worker[t].pc = "readi"
      PROVE  worker[t].data + worker[t].count * FrameBytes <= stream.len
  <2>. DEFINE d == worker[t].data
              c == worker[t].count
  <2>1. d \in Nat /\ c \in Nat /\ (d + c) * FrameBytes <= stream.len /\ stream.len \in Nat
    BY <1>1, CaptureAssumption DEF WorkInv, Reading, WorkerRecord
  <2>. HIDE DEF d, c
  <2>2. d + c * FrameBytes <= (d + c) * FrameBytes
    BY <2>1, FramesAsBytes, CaptureAssumption
  <2>3. d + c * FrameBytes \in Nat /\ (d + c) * FrameBytes \in Nat
    BY <2>1, CaptureAssumption
  <2>4. d + c * FrameBytes <= stream.len
    BY <2>1, <2>2, <2>3
  <2>. QED
    BY <2>4 DEF d, c
<1>2. WorkInv => ReadFits
  BY <1>1 DEF ReadFits
<1>. QED
  BY <1>2, TypesAlways, PTL

-----------------------------------------------------------------------------
(* One stop at a time: requests and la_deinit do not overlap. *)

\* la_deinit starts when no request is served, and none is served after.
Stopper == IF actor["main"].pc = "idle" THEN "ipc" ELSE "main"

Phase == actor[Stopper].pc

Starting == {"open_pipe", "open_handle", "create"}

\* The thread that starts or stops the capture is alone, and its place tells what exists.
\* From the la_free of a stop to the la_thread_new of a start there is no thread.
StopInv ==
    /\ actor["main"].pc # "idle" => ~run /\ actor["ipc"].pc = "idle"
    /\ actor["main"].pc \notin Starting /\ actor["ipc"].pc # "gone"
    /\ connect <=> Phase = "create" \/ (thread # NULL /\ Phase \notin Joining)
    /\ Phase \in Joining \cup {"disconnect"} => thread # NULL
    /\ Phase \in Starting \cup {"close"} => thread = NULL
    /\ Phase \in Joining => actor[Stopper].thread = thread
    /\ handles.pipe = "open" <=> Phase \in {"open_handle", "create", "close"} \/ thread # NULL
    /\ handles.capture = "open" <=> Phase \in {"create", "close"} \/ thread # NULL
    /\ \A t \in Thread :
          /\ t \in Alive => t = thread
          /\ block[t].used <=> t = thread
          /\ block[t].joined => t = thread /\ Phase \in {"wait", "free"}
          /\ t \in Alive => Phase # "free"

\* A thread is alive until it has left its function.
LEMMA AliveDef == \A t : t \in Alive <=> t \in Thread /\ worker[t].pc \notin {"none", "done"}
BY DEF Alive

\* A step of a capture thread is that of a thread alive, and wakes no other.
LEMMA WorkAlive ==
    ASSUME WorkInv, NEW t \in Thread, Work(t)
    PROVE  t \in Alive /\ Alive' \subseteq Alive
<1>1. worker[t].pc \notin {"none", "done"} /\ \A u \in Thread \ {t} : worker'[u] = worker[u]
  BY DEF WorkInv, Work, Loop, ReadMore, ReadNothing, ReadFrames, ReadFails, Got, Sleep, WritePipe,
     StartPipe, EndCancelled, Works
<1>. QED
  BY <1>1 DEF Alive

\* The places of a stop are apart from those of a start.
LEMMA Phases ==
    /\ Starting = {"open_pipe", "open_handle", "create"}
    /\ Joining = {"cancel", "join", "wait", "free"}
    /\ "ipc" \in Actor /\ "main" \in Actor
    /\ \A a \in Actor : a = "ipc" \/ a = "main"
BY DEF Starting, Joining, Actor

\* Only the stopper serves, and it stays the stopper.
LEMMA ServeStopper ==
    ASSUME StateInv, StopInv, NEW a \in Actor, Serve(a)
    PROVE  /\ a = Stopper /\ Stopper' = a
           /\ actor["main"].pc # "idle" <=> a = "main"
           /\ actor'["main"].pc # "idle" <=> a = "main"
           /\ actor'["main"].pc # "idle" => actor'["ipc"].pc = "idle"
<1>1. actor[a].pc \notin {"idle", "gone"} /\ \A b \in Actor \ {a} : actor'[b] = actor[b]
  BY DEF Serve, OpenPipe, OpenHandle, CreateThread, Disconnect, Cancel, Join, Wait, FreeThread,
     ClosePcm, Goes, StateInv
<1>2. a = "main" => actor'[a].pc # "idle"
  BY DEF Serve, Disconnect, Cancel, Join, Wait, FreeThread, ClosePcm, Goes, StateInv, ActorRecord
<1>. QED
  BY <1>1, <1>2, Phases DEF StopInv, Stopper

\* A start or a stop that goes on is the only one, and takes the phase along.
LEMMA GoesPhase ==
    ASSUME StateInv, StopInv, NEW a \in Actor, Serve(a), NEW from, NEW to \in ActorPc,
           Goes(a, from, to)
    PROVE  /\ Phase = from /\ Phase' = to /\ actor[Stopper].thread = actor[a].thread
           /\ (actor[Stopper].thread)' = actor[a].thread
           /\ actor'["main"].pc = "idle" => actor'["ipc"].pc = IF a = "ipc" THEN to ELSE "idle"
           /\ actor'["main"].pc = IF a = "main" THEN to ELSE "idle"
BY ServeStopper, GoesFacts, Phases DEF Phase, StopInv

\* A stop or a start goes on in the order that keeps a capture whole.
LEMMA ServeStop ==
    ASSUME StateInv, WorkInv, StopInv, NEW a \in Actor, Serve(a)
    PROVE  StopInv'
<1>. USE Phases, ActorPcs, AliveDef
<1>1. CASE a = "ipc" /\ OpenPipe
  BY <1>1, ServeStopper, GoesPhase DEF OpenPipe, StopInv, StateInv, HandlePair, Alive
<1>2. CASE a = "ipc" /\ OpenHandle
  BY <1>2, ServeStopper, GoesPhase DEF OpenHandle, StopInv, StateInv, HandlePair, Alive
<1>3. CASE a = "ipc" /\ CreateThread
  <2>1. Goes(a, "create", "idle") /\ UNCHANGED <<run, connect, handles>>
    BY <1>3 DEF CreateThread
  <2>2. Phase = "create" /\ Phase' = "idle" /\ thread = NULL /\ connect
    BY <2>1, GoesPhase DEF StopInv
  <2>3. PICK t \in Thread :
          /\ block' = [block EXCEPT ![t] = [Unused EXCEPT !.used = TRUE]]
          /\ worker' = [worker EXCEPT ![t] = [NoWork EXCEPT !.pc = "loop"]]
          /\ thread' = t
    BY <1>3 DEF CreateThread
  <2>4. \A u \in Thread : u \notin Alive /\ ~block[u].used /\ ~block[u].joined
    BY <2>2, CaptureAssumption DEF StopInv
  <2>5. block'[t].used = TRUE /\ block'[t].joined = FALSE
        /\ \A u \in Thread \ {t} : block'[u] = block[u] /\ worker'[u] = worker[u]
    BY <2>3 DEF StateInv, WorkInv, Unused
  <2>6. \A u \in Thread : (u \in Alive' => u = t) /\ (block'[u].used <=> u = t)
                             /\ ~block'[u].joined
    BY <2>4, <2>5 DEF Alive
  <2>7. Phase' \notin Joining \cup Starting \cup {"disconnect", "close"} /\ Phase' # "free"
    BY <2>2
  <2>8. /\ actor'["main"].pc # "idle" => ~run' /\ actor'["ipc"].pc = "idle"
        /\ actor'["main"].pc \notin Starting /\ actor'["ipc"].pc # "gone"
    BY <1>3, <2>1, ServeStopper, GoesPhase DEF StopInv
  <2>9. thread' \in Thread /\ thread' = t /\ thread' # NULL
    BY <2>3, CaptureAssumption
  <2>. QED
    BY <2>1, <2>2, <2>6, <2>7, <2>8, <2>9 DEF StopInv
<1>4. CASE Disconnect(a)
  BY <1>4, ServeStopper DEF Disconnect, StopInv, StateInv, Alive, Phase
<1>5. CASE Cancel(a)
  BY <1>5, ServeStopper, GoesPhase DEF Cancel, StopInv, StateInv, BlockRecord, Alive
<1>6. CASE Join(a)
  BY <1>6, ServeStopper, GoesPhase DEF Join, StopInv, StateInv, BlockRecord, Alive
<1>7. CASE Wait(a)
  BY <1>7, ServeStopper, GoesPhase DEF Wait, StopInv, StateInv, Alive
<1>8. CASE FreeThread(a)
  <2>1. Phase = "free" /\ thread = actor[a].thread /\ thread \in Thread
    BY <1>8, ServeStopper DEF FreeThread, StopInv, StateInv, Phase
  <2>2. /\ UNCHANGED <<run, connect, handles>> /\ thread' = NULL
        /\ block' = [block EXCEPT ![thread] = Unused]
        /\ worker' = [worker EXCEPT ![thread] = IF @.pc = "done" THEN NoWork ELSE @]
    BY <1>8, <2>1 DEF FreeThread
  <2>3. Phase' = "close" /\ actor'[a].pc = "close"
        /\ \A b \in Actor : b # a => actor'[b] = actor[b]
    BY <1>8, ServeStopper DEF FreeThread, StateInv, Phase
  <2>4. \A u \in Thread : u \notin Alive /\ (u # thread => ~block[u].used) /\ ~connect
                             /\ (u # thread => worker'[u] = worker[u] /\ block'[u] = block[u])
    BY <2>1, <2>2 DEF StopInv, WorkInv, StateInv
  <2>5. worker'[thread].pc \in {"none", "done"}
    BY <2>1, <2>2, <2>4 DEF WorkInv, NoWork
  <2>6. block'[thread] = Unused /\ ~Unused.used /\ ~Unused.joined
    BY <2>1, <2>2 DEF StateInv, Unused
  <2>7. \A u \in Thread : u \notin Alive' /\ ~block'[u].used /\ NULL # u
                             /\ (block'[u].joined => u # thread /\ block[u].joined)
    BY <2>4, <2>5, <2>6, CaptureAssumption DEF Alive
  <2>8. \A u \in Thread : ~block'[u].joined
    BY <2>7 DEF StopInv
  <2>9. /\ actor'["main"].pc # "idle" => ~run' /\ actor'["ipc"].pc = "idle"
        /\ actor'["main"].pc \notin Starting /\ actor'["ipc"].pc # "gone"
    BY <2>2, <2>3, ServeStopper DEF StopInv
  <2>. QED
    BY <2>1, <2>2, <2>3, <2>7, <2>8, <2>9 DEF StopInv
<1>9. CASE ClosePcm(a)
  BY <1>9, ServeStopper, GoesPhase DEF ClosePcm, StopInv, StateInv, Alive
<1>. QED
  BY <1>1, <1>2, <1>3, <1>4, <1>5, <1>6, <1>7, <1>8, <1>9 DEF Serve

\* Without overlap, a request or la_deinit begins only when no other is on.
LEMMA StopStep ==
    ASSUME Overlap = FALSE, StateInv, WorkInv, StopInv, [Next]_vars
    PROVE  StopInv'
<1>. USE Phases, ActorPcs
<1>1. CASE Request
  BY <1>1, GoesFacts
     DEF Request, StartCapture, StopCapture, StopInv, StateInv, Alive, Phase, Stopper
<1>2. CASE Deinit
  BY <1>2, GoesFacts DEF Deinit, StopInv, StateInv, Alive, Phase, Stopper
<1>3. ASSUME NEW t \in Thread, Work(t)
      PROVE  StopInv'
  BY <1>3, WorkAlive, WorkFrame DEF StopInv, Phase, Stopper
<1>4. CASE UNCHANGED vars
  BY <1>4 DEF vars, StopInv, Alive, Phase, Stopper
<1>. QED
  BY <1>1, <1>2, <1>3, <1>4, ServeStop DEF Next

\* The requests and la_deinit do not overlap.
LEMMA StopAlways == ASSUME Overlap = FALSE PROVE Spec => [](WorkInv /\ StateInv /\ StopInv)
<1>1. Init => StopInv
  BY CaptureAssumption, Phases DEF Init, StopInv, Phase, Stopper, Unused, NoWork, Alive
<1>2. WorkInv /\ StateInv /\ StopInv /\ [Next]_vars => (WorkInv /\ StateInv /\ StopInv)'
  BY WorkStep, StateStep, StopStep
<1>. QED
  BY <1>1, <1>2, TypesInit, PTL DEF Spec

\* Where the requests and la_deinit do not overlap, the capture thread uses a PCM only while it
\* is open: la_capture_stop closes none that a thread may still read or write.
THEOREM UsedAlwaysOpen == ASSUME Overlap = FALSE PROVE Spec => []UsedIsOpen
<1>1. WorkInv /\ StateInv /\ StopInv => UsedIsOpen
  BY CaptureAssumption DEF StopInv, UsedIsOpen, Alive
<1>. QED
  BY <1>1, StopAlways, PTL

\* Where they do not overlap, a capture never has two threads, however fast it is stopped and
\* started.
THEOREM OneThreadAlways == ASSUME Overlap = FALSE PROVE Spec => []OneThread
<1>1. ASSUME StopInv PROVE OneThread
  <2>1. Alive \subseteq {thread}
    BY <1>1, AliveDef DEF StopInv
  <2>2. IsFiniteSet({thread}) /\ Cardinality({thread}) = 1
    BY FS_Singleton
  <2>3. Cardinality(Alive) <= Cardinality({thread})
    BY <2>1, <2>2, FS_Subset
  <2>. QED
    BY <2>2, <2>3 DEF OneThread
<1>. QED
  BY <1>1, StopAlways, PTL

\* Where they do not overlap, an idle capture that is not connected holds no thread, no block
\* and no open PCM, and one that is connected holds its thread and both PCMs.
THEOREM ConnectAlwaysTrue == ASSUME Overlap = FALSE PROVE Spec => []ConnectIsTrue
<1>1. ASSUME WorkInv, StateInv, StopInv, \A a \in Actor : actor[a].pc \in {"idle", "gone"}
      PROVE  IF connect
             THEN /\ thread # NULL /\ block[thread].used
                  /\ handles = [capture |-> "open", pipe |-> "open"]
             ELSE /\ Alive = {} /\ thread = NULL
                  /\ \A t \in Thread : ~block[t].used
                  /\ handles.capture # "open" /\ handles.pipe # "open"
  <2>1. Phase \in {"idle", "gone"}
    BY <1>1, Phases DEF Phase, Stopper
  <2>2. Phase \notin Joining \cup Starting \cup {"close"}
    BY <2>1, Phases
  <2>3. connect <=> thread # NULL
    BY <1>1, <2>2, Phases DEF StopInv
  <2>4. handles = [capture |-> handles.capture, pipe |-> handles.pipe]
    BY <1>1 DEF StateInv, HandlePair
  <2>5. CASE connect
    BY <1>1, <2>3, <2>4, <2>5 DEF StopInv, StateInv
  <2>6. CASE ~connect
    BY <1>1, <2>2, <2>3, <2>6, CaptureAssumption, AliveDef, Phases DEF StopInv
  <2>. QED
    BY <2>5, <2>6
<1>2. WorkInv /\ StateInv /\ StopInv => ConnectIsTrue
  BY <1>1 DEF ConnectIsTrue
<1>. QED
  BY <1>2, StopAlways, PTL

=============================================================================
