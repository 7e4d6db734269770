# lst-audio in TLA+

TLA+ models of the `lst-audio` daemon (`src/daemon`) and of its DSP library
(`src/dsp`: audio, radio and the start-up of the chip), the TLC runs that check them on small units, and TLAPS
proofs of their safety properties and of all three refinements for units of every size. `PROJECT.json` maps every
definition to the lines it models and lists the runs, the seeded bugs that each
property is shown to catch (operators named `<Definition>_<Bug>` that stand
before the definition they break), the findings, the hazards and the theorems.

## The system

The daemon mixes audio *streams* into audio *panels* of a car unit. ALSA's
`asound.conf` names the panels (`la_card_t`), the streams a client can play
(`la_playback_t`, each with a FIFO, a softvol and a *master panel*) and the
captures (`la_capture_t`, each feeding one playback). Clients send one-byte
commands over a vendor IPC library, whose receive thread calls `la_ipc_recv`.

| component | state | operations | interacts with |
|---|---|---|---|
| Routing (`qAudioCard.c`, `qAudioIpc.c`, parts of `qAudioPlayback.c`) | `card->playback_list`, `playback->card_list`, `master_mute`, the softvol set with `amixer` | set, clear, append, remove PCM | opens and closes PCMs of a playback, starts and stops captures |
| Playback stream (`qAudioPlayback.c`) | `card_list`, `stream`, `chunk`, two mutexes, the FIFO, ALSA PCMs | thread: select, read FIFO, write to all cards; requests: open, close PCM | playback thread and IPC thread share one playback |
| Capture (`qAudioCapture.c`) | `connect`, `thread`, `handle`, `pipe_handle`, stream buffer | start, stop; thread: read a period, write it to the pipe | started by a request or by routing, stopped by either and by `la_deinit` |
| Main loop, core (`qAudioMainLoop.c`, `qAudioCore.c`) | daemon status, list heads, `qa.run` | init, deinit, IPC open, signal handler | starts everything, and tears it down on the thread that a signal interrupts |
| IPC (`qAudioIpc.c`) | the channel | receive, send | calls all request handlers, one at a time |
| Threads, mutexes (`qAudioUtil.c`) | `la_thread_t`, `la_mutex_t` | new, join, cancel, lock, unlock | playback, capture |
| DSP extension (`ext/`) | `audio`, `radio`, files in `/tmp/dsp` | audio and radio requests, backup, load | IPC above, DSP library below |
| DSP library and HAL (`dsp/`) | `qdsp`, `gsAudioState`, `gsRadioState`, chip registers | start-up, volume, mute, source, tones, band, frequency | I2C |
| Log (`qAudioLog.c`) | target, level | print, show the status | reads the routing lists |

What is hard here: two threads in one playback with a list that is shifted, a
buffer that is reallocated and two mutexes that split it; a capture thread
without any mutex; state that is kept twice or three times (both sides of a
route; flag and mixer; daemon, driver and register) with failures between the
updates; teardown from a signal handler; a chip that outlives the daemon; and
settings that must survive restarts in `char` fields. `PROJECT.json` lists these as hazards, each at its line.

## Modules

| module | models | abstract specification |
|---|---|---|
| `Routing` | routing and record requests | `RouteTable` |
| `RoutingProofs`, `LogProofs` | proofs about `Routing` and `RouteLog` | |
| `RouteLog` | the status printed after a routing request | |
| `PlaybackStream` | one playback, two threads | `Fanout` |
| `CaptureThread` | one capture, its thread and two stoppers | |
| `DspAudio` | audio requests, driver, registers, settings file | `AudioSettings` |
| `DspRadio` | radio requests, radio settings, `radio` | |
| `RadioDriver` | the radio driver and the tuner, used by `DspRadio` | |
| `Saf7741` | the start-up sequence of the chip, used by `LifeCycle` | |
| `LifeCycle` | start, stop, signals and kills of the daemon | |
| `StreamProofs`, `FanoutProofs` | proofs about `PlaybackStream` | |
| `CaptureProofs`, `AudioProofs`, `RadioProofs` | proofs about `CaptureThread`, `DspAudio`, `DspRadio` with `RadioDriver` | |
| `LifeCycleProofs` | proofs about `LifeCycle` with `Saf7741` | |
| `MCRouting`, `MCStream`, `MCRadio` | small units for TLC | |

**Routing.** The variable `la` holds the two lists of every route, the flag and
the mixer of every softvol and the set of recording captures. Only the IPC
receive thread changes them, so each request handler is one action;
`Cleared`, `Removed` and `Appended` are the functions of `qAudioCard.c`, as
operators from a state to the states they may leave. What ALSA or `amixer` may
refuse is a choice in the action (`deaf`: playbacks whose `amixer` call fails).
A request that names an unknown id, or that the code refuses without a change,
is a stuttering step. Only the first capture that feeds a playback follows its
route, as `la_capture_get_by_pipe` finds only that one. `ListsAgree` is the
heart: a card lists a playback exactly when the playback holds an open PCM of
it. `RouteSpec` says what a client may rely on: a request touches one panel,
adds at most the route it names and removes only what it names. `RouteLog` adds
what `la_log_show_status` makes of the state.

**PlaybackStream.** One action per unlocked access: where the code does
`lock; read; unlock` there are three. The playback thread is in `player` (its
place, the bytes it has, the buffer and slot in use), the IPC thread in `ipc`.
A buffer is named by its size, as it only grows; a PCM by its card, as a playback
opens a card once. `LocksWork` chooses what `la_mutex_lock` does: the pthread
calls are arguments of `la_assert`, which is empty unless `LA_ASSERT` is defined,
and the Makefile does not define it. The player unlocks `mutex_stream` and then
counts the cards without it (`CountCards`), a step of its own. `Fanout` is the promise: every chunk is
written to all open cards in one round, and cards join and leave only between
rounds.

**CaptureThread.** `actor["ipc"]` serves requests, `actor["main"]` runs
`la_deinit`; both go through `la_capture_stop`. `block` keeps the `la_thread_t`
that `malloc` hands out, so that a stale one is visible. `Overlap` lets
`la_deinit` begin while a request is served.

**DspAudio.** From a request to the registers: `audio` is what the extension
keeps, `dsp` has the driver's `mute` and `percentVol` and the registers (`muteP`
is the mute of the primary channel, `main1` and `main2` the two halves of the
volume), `file` is the settings file. The driver's functions are operators that
take, beside the state, which of their I2C writes succeed. The daemon is `down`,
`listening` (IPC open), `opened` (device open), `started` (registers set up),
`up` (settings loaded) or `failed`. The main volumes of a chip that was just set
up are 0 dB (`ZeroDb`), which is no entry of the driver's table. `prevSource`, which is only reported, is left
out. A handler is one step, and so is the load; how they interleave inside is not
modelled. `fault` is a ghost: a transfer has failed since the start.
`AudioSettings` says that the settings survive a restart; `VolumeFollows` and
`TonesFollow` say that the registers are what `audio` holds.

**DspRadio.** `radio` is `struct qext_dsp_radio`, with the pointer `param` as the
type whose limits it points to; `drv` is `gsRadioState` and the registers that a
band change writes. A handler calls the driver several times and goes on by the
results, so a handler is an operator from a state to the set of states it may end
in, `AndThen` chains them, and `Serve` makes a request of one. The driver
(`RadioDriver`) works the same way on outcomes: `Write` is a transfer that
succeeds or fails, `Then` is `if(call < 0) return -1`, `Dropped` a result that is
ignored. Seek, scan and AST are empty in this version of the code and stand as
`ModeRequest`.

The phases are those of `DspAudio`: `Start` opens the IPC channel, `OpenDsp` the
device, `StartUp` runs the sequence of the chip, `Load` restores `radio`. Requests
are served in every one of them, as nothing in `qext_dsp_ipc_radio` looks at the
state (`Early`), and go on when the DSP has failed or was not asked for. Until it
is open the driver refuses every call (`IfOpen`), so that no band is ever set and
`param` stays null; a handler that reads through it ends the daemon (phase
`dead`). A restart from a saved file overwrites `radio`, so that the `set_type` after
it finds the type in place and returns at once: clients are told the saved band,
while the driver is on AM and mode and mixer of the DSP are as the start-up left
them (`"reset"`). `param` is saved as a raw address; the model takes it for valid
after the restart, which holds for the same program at fixed addresses. `Stop`
leaves the tuner its last command, `file` may then hold a new save, an earlier one
or nothing, and a new process has a new driver (`Off`). After `Load` nothing reads
`file`, so it is set to `NoFile` until the stop chooses it anew.

**LifeCycle.** `main` is the place in `main`, one action per call of `la_init`, of
the opening of the channel and of `qext_dsp_init`; `frames` are the signal
handlers, each a walk through `la_deinit` and the save of the settings on the
thread it interrupted, which does not go on before the handler returns, and it
never returns. The playback thread and the requests are reduced to what the
teardown meets: whether they use the lists and whether they hold the mutex.
`file` tells an empty file (`cut`), the zeros of a DSP that was never set up
(`blank`) and real settings. `Kill` may come at any time; files and chip survive
it. `LifeCycle` extends `Saf7741`, whose `StartUp` is the ordered sequence of
transfers: `chip.ctr` is the register `DSP_CTR` with its reset and dynamic bits,
bit for bit, `patch` what each patch memory holds, `hook` the hooks that are set.

## Runs

| run | instance | shows |
|---|---|---|
| `Routing` | 2 panels, 3 streams (two share a master panel, one has none), 3 captures (two feed one stream), card lists of 1 | the lists agree and stay inside their arrays, the mute flag and the printed status are true, feeds follow routes, and the route table is implemented |
| `Stream` | 2 cards, one period larger than the buffer, 3 bytes, fair, locks work | the list is true between requests, no PCM is closed in use, reads fit the buffer and writes its grown size, `Fanout` is implemented, requests return, the FIFO is drained |
| `StreamNoLocks` | 2 cards, locks do nothing | **violation**: `la_mutex_lock` does not exclude |
| `Capture` | 2 thread blocks, 2 frames of 2 bytes, buffer of 3 bytes (less than a period, so that it grows) | no thread, block or PCM is leaked or closed in use; a stop ends |
| `Audio` | 1 channel, one tone, volume 0..1, tones -2..2 on a table of -1..1, 6-valued unsigned char, every I2C write may fail, no early request | the driver knows the mute, the tones follow unless a transfer has failed, the settings survive restarts |
| `AudioFaults` | 2 channels, no tone, volume 0..3, 10-valued unsigned char, every I2C write may fail, early requests | no mute without a flag and no other volume than clients are told unless a transfer has failed; a source switch never unmutes |
| `AudioVolume` | unsigned char | **violation**: DEC at volume 0 stores 255 |
| `Radio` | 2 bands of 3 channels, FM 20..22 and AM 5, no transfer fails, nobody writes the last preset of a band | the current bands and channels stay in their arrays |
| `RadioPreset` | 2 channels, anybody writes any preset | **violation**: the write of the last preset of a band lands in the current channel of the next one |
| `RadioFaults` | FM and AM with 1 band of 1 channel, every transfer may fail, early requests | type and band change together, a new frequency is the one that was sent; in a loaded radio only a failure makes a request read through a null `param` or mode and mixer disagree |
| `RadioBand` | 2 channels, no transfer fails | **violation**: a band change leaves the tuner on the old band |
| `LifeCycle` | one signal on the main or the IPC thread, any step may fail, locks do nothing | the playback thread never uses freed lists, no DSP runs half a patch, a signal ends the daemon and keeps the settings |

*Bounds.* Two panels and three streams suffice for the routing because a request
touches one panel and one stream at a time, and what a third list entry adds is
the shift past a hole, which three streams give; the theorems remove the bound.
Three bytes give up to three rounds, with full chunks, partial ones and none,
and cards that come and go between them. Two cards shift a hole; that a full list refuses
a third one and what holds of the list without locks is left to the theorems, which
are about any number of cards and slots and both kinds of lock. Two thread blocks let a new
capture thread reuse the block of the last one or take another. The DSP numbers
keep what matters about the real ones: the volume limit lies inside the range of
a char and not at its end, the tone table is smaller than the accepted range (7
against 6 in the code), and a char wraps. The two runs that hold split the settings
between them: one channel and one tone, or two channels, which a source switch
needs, and no tone. Two bands and two or three channels have a first and a last
one, with the wrap of both; three have one in between; with one band of one
channel for each type (`RadioFaults`) every handler still calls the driver as often and
in the same order, which is where transfers fail, and presets still give the station
another frequency than the start; the FM numbers keep a step that is
the grid of the tuner, a start frequency off the default and off the grid (21),
and one that is out of range for every type (`Asked`, 23); AM has a single
frequency, as what distinguishes the types is their limits. Two thread
identities carry the life cycle because a handler on the main thread finds a
request going on beside it, and one on the IPC thread interrupts the request
itself; a handler runs to the end of the process, so that one signal meets every
place of the start and of a request.

*Deadlock* is not checked in the stream and capture runs: a unit that
has stopped takes no more steps, and a playback thread that is cancelled inside
`snd_pcm_writei` keeps its mutex, so that a pending request hangs. The routing,
audio, radio and life cycle runs check it.

*Fairness* (`FairSpec`). Every thread is scheduled (weak fairness of its
actions) and blocking ALSA calls return. A thread that waits for a mutex gets it
(strong fairness of the lock actions): `la_mutex_new` asks for priority
inheritance, and the unlock of such a mutex hands it to a waiter. Clients and
`la_deinit` are not fair: nothing makes them act. In `LifeCycle` the handler and
a request that has begun are scheduled, a mutex is handed to a waiter, and the
playback thread, once cancelled, ends (strong fairness: every one of its rounds
passes `select`, which is a cancellation point, and a round always comes).
Neither signals nor requests nor the start are fair.

## What the runs taught

- *Locks.* With the shipped flags no lock is taken (`StreamNoLocks`). The close
  of a PCM then runs beside the write to it, and `HeldPcmIsOpen`, which holds
  with working locks, fails.
- *The buffer.* With a period above `LA_CARD_BUFFER_SIZE` the buffer is replaced
  *even with working locks* while the playback thread uses it:
  `la_playback_open_pcm` reallocates it under `mutex_stream`, while
  `la_playback_write` reads it under `mutex`. `WriteFits` does not exclude that: it
  says that the frames lie within the size to which the buffer has grown, not that
  the thread holds the block of that size.
- *Zero chunk.* If `la_card_set_params` returns early, `chunk_bytes` is 0 after
  the first open, reads take 0 bytes and the FIFO stays readable.
  `FifoIsDrained` excludes exactly that.
- *Capture against `la_deinit`.* With `Overlap = TRUE`, `ConnectIsTrue`, `OneThread`
  and `UsedIsOpen` fail: the second of two stoppers gets -1 from `la_thread_join`
  and closes the PCMs of the running thread, and a stop between `connect = true`
  and the creation of the thread finds nothing to join.
- *Settings.* `AudioVolume` fails as shipped. So does `TonesInRange`, an invariant that
  TLC refutes with `CharIsSigned = FALSE`: a fade of -3 is kept as 253, which INC and DEC
  then refuse and which the next start sets to the far end of the other side.
  `SettingsSpec` needs only `Early = FALSE`: it lets the settings be what the requests
  made of them. With `Early`, a
  backup request or a SIGTERM between the opening of the IPC channel and the load
  writes an empty `audio` over the saved one. Before `qdsp_open` such a signal
  ends in a call through the null `qdsp.ops`. Without `-e`, or when the start of
  the DSP has failed, a backup request writes zeros at any later time;
  `SignalKeepsSettings` says that a signal to a running daemon does not.
- *Two mute flags.* The DSP follows the flag that changed last, so dropping one
  unmutes while the other is set. If the unmute after a source switch fails, no
  flag is set and `USER_UNMUTE` has no effect: `MutedIsFlagged` allows this after
  a failed transfer. With requests during the start-up (`Early`) as well,
  `DriverKnowsMute` fails too: a source switch whose unmute fails, the unmute of
  the start-up and a load whose mute fails leave a driver that takes an open DSP
  for a muted one. A tone that is set before the start-up, with no file to load,
  is told to clients and not in the DSP, so that `TonesFollow` fails.
- *The last preset.* `ch[ch_num]` is one past the channel that was asked for: the
  write of the last one of a band makes a frequency the current channel of the next
  band (`RadioPreset`), and the next band change reads far behind the table. All
  other requests keep the indexes, which is why the theorem has `Careful`.
- *Requests without a radio.* A request before the DSP is open, or to a daemon
  whose DSP has failed or was not asked for, finds no `param`: `NEXT_FREQ` and its
  like read through it, with no transfer failed: with `Early = TRUE` TLC finds a state with
  `phase = "dead"` in the first steps, although `qext_dsp_radio_get_band_data` asserts
  `radio.param`, and without `Early` one after a DSP that failed to open. In a loaded
  radio that takes a failed transfer, which is what `DeathNeedsFault` says.
- *Restart of the radio.* The start-up leaves the mode of the DSP to the first
  `SetFMBand`, which a restart from a file never calls: with `MayFail = FALSE` TLC finds
  `phase = "up"` with `drv.mode = "reset"` after one stop that saves. The saved
  frequency goes to the AM tuner and clients are told FM. `ReceiverFits` and
  `TypeFollowsBand` hold all the same: they speak of a DSP that has been given a mode
  and of what a request changes.
- *Band changes.* `SetFMBand` and `SetAMBand` tune to the frequency of the last
  visit while the driver still counts as on the old band (`RadioBand`): the tuner
  gets a command of the old band with a number of the new one, and the memory of
  the old band is overwritten.
- *Signals and locks.* With `LocksWork = TRUE`, signals that only interrupt `main`
  keep `SignalEnds`; one that interrupts the IPC thread inside a critical section
  does not, as the handler joins a playback thread that waits for the mutex of the
  interrupted request. The shipped build escapes this only because its mutexes do
  not lock. With two signals (`MaxSignals = 2`, SIGTERM during the handler of
  SIGINT) `ListsOutliveThreads` fails: the second `la_thread_join` returns -1 and
  the lists are freed under the playback thread.
- *Start-up.* `HookedIsPatched` holds because `ResetAllDSP` comes before the patch
  and each DSP is released after it; what is *in* the patch of TDSP2 is, but for
  its first word, the table of TDSP1E (`Patch`). One register of three bytes is
  filled by `i_to_2uc`, so that its third byte is the one of an earlier register.

## Proofs

Every invariant and every safety property of a step that the passing runs check
is also proved, for every value of the constants that satisfies the `...Assumption` of its
module; where a theorem needs more than that, the hypothesis stands in its
statement as `ASSUME ... PROVE`. The hypotheses are no facts about the code: they
say where a property ends.

| hypothesis | says | without it |
|---|---|---|
| `LocksWork` | `la_mutex_lock` locks, as the code means it to | the shipped build: `StreamNoLocks` |
| `Overlap = FALSE` | `la_deinit` waits until no request is served | `UsedIsOpen`, `ConnectIsTrue` fail |
| `MaxSignals <= 1` | no SIGTERM comes during the handler of SIGINT | `ListsOutliveThreads` fails |
| `Early = FALSE`, audio | no request and no signal comes between the opening of the channel and the load | `DriverKnowsMute`, `TonesFollow`, `SettingsSpec` fail |
| `Careful = TRUE`, audio | no DEC at volume 0 | `AudioVolume` |
| `CharIsSigned = TRUE` | `char` as on a PC, not as on ARM; only for `TonesInRange` | `TonesInRange` fails |
| `Careful = TRUE`, radio | no client writes the last preset of a band but the last, which the code would store in `curCh` of the next one | `RadioPreset` |

**Routing** (`RoutingProofs`, `LogProofs`). Type correctness, `ListsAgree`,
`NoDuplicates`, `NoOverflow`, `UnmutedIsRouted`, `FeedFollowsRoute`, the
refinement `RouteSpec`, and `LogIsTrue`. `RoutingAssumption` says that there
are at most `LA_CARD_PLAYBACK_MAX` playbacks and that a capture feeds a
configured one; the code relies on both. None of the invariants is inductive
alone. `NoOverflow` for the unguarded `playback_list` needs `NoDuplicates` (a
list without repetition is no longer than the set it draws from);
`NoDuplicates` of a card list needs the check in `CanOpen`; `UnmutedIsRouted`
survives a removal only because the lists agree on what is removed. Their
conjunction is inductive. The lemmas are about `Shifted` (elements,
distinctness, length) and the state transformers `Undone`, `Removed`, `Cleared`
and `Appended`, each preserving the conjunction; `SetPcm` is their composition.
The status needs one fact more: what records has a master panel to play on.

**Playback stream** (`StreamProofs`, `FanoutProofs`). `TypeOK` and `ListIsTrue`
hold whether locks work or not, as only the IPC thread changes the list and the
PCMs: `ListInv` says of every place of a request what the list and the PCM of its
card look like there, `BufferInv` the same of the buffer. With `LocksWork`,
`OwnerInv` ties the owner of each mutex to *both* program counters, so that a
thread between its lock and its unlock excludes the other (`MutualExclusion`), and
`UseInv` says that what the playback thread holds is still in the list. From these
follow `HeldPcmIsOpen` and `ReadFits`. `WriteFits` adds `SizeInv`: the stream buffer
only grows, so that what has been read fits into it until it is written.
`FanoutSpec` follows from the same invariant: the list is whole during a round, so
that its index tells which cards are still to come; a close counts as a leave when
the slot is emptied, and the shift that follows changes no card.

**Capture** (`CaptureProofs`). `TypeOK` and `ReadFits` need no hypothesis: what a
thread counts depends on its own steps (`WorkInv`). For `UsedIsOpen`, `OneThread`
and `ConnectIsTrue`, `StopInv` says that at most one of the two stoppers is at
work and what exists at each of its places: from the `la_free` of a stop to the
`la_thread_new` of a start there is no thread, and the one block in use is the one
in `capture->thread`, even if a new thread gets an old block.

**DSP audio** (`AudioProofs`). `TypeOK` holds in every configuration. For the
mutes any transfer may fail. `MutedIsFlagged` and `UnmuteIsAsked` need no
hypothesis: `FlagInv` says that the driver at least knows when the DSP *is* muted,
so that a source switch leaves it alone, and requests during the start-up do not
disturb that. They do disturb the converse, so that `DriverKnowsMute` has `Early =
FALSE`; `MuteInv` adds that the driver starts with the mute off, which `StartUp`
relies on. `VolumeInRange` and `TonesInRange`, which TLC refutes as shipped,
are proved under one hypothesis each: the missing lower bound is the only cause of
the first, the sign of `char` the only one of the second, whatever fails.
`VolumeFollows` has no hypothesis: `VolumeInv` ties the register, the driver and
`audio` to each other unless a transfer has failed or DEC has taken the volume out of its
range. `TonesFollow` has `Early = FALSE`, with `HeardInv`: the tones of a chip that
was just set up are 0, and so are those of the `audio` that a load without a file
leaves. So has the refinement `SettingsSpec`, whatever transfers fail, with `SaveInv`:
only a daemon that has come up, or whose DSP has failed, saves.

**DSP radio** (`RadioProofs`). `TypeOK` (which bounds frequencies by the limits of
the types, so that nothing out of range is ever sent or kept), `IndexesInRange`,
`DeathNeedsFault`, `ReceiverFits`, `TypeFollowsBand` and `FreqIsTuned`, all with
`Careful` and for any `Early`. A handler is an operator on states, composed of
others with `AndThen`, so the proof is too. Of the driver there are facts call by call (a
band change that fails has met a fault; one that succeeds leaves mode, mixer and
band together). Of a handler there are two relations between the state it finds
and a state it leaves: `Follows` (type and band change together, and a new
frequency is the one in the register) and `Keeps`, which a step satisfies that may
come after the frequency has been set. A chain of one `Follows` and then `Keeps`
is a `Follows`. Both keep what the later properties rest on: `Safe` (a radio without
a `param` has met a fault) and `Fits` (mode and mixer agree). `RadioInv` says from
which phase on each holds: the driver is open from `opened`, the DSP fits from
`started`, and the radio is safe in `up`, as the load has set a band or met a
fault.

**Life cycle** (`LifeCycleProofs`). `HookedIsPatched`, `TypeOK` and
`SignalKeepsSettings` hold for any number of signals. The patches need to know what
is held in reset at each place of the start-up, and that `ResetAllDSP` changes only
that: `ChipInv` says that a DSP whose patch is not whole is held, and survives a
kill at any place. `LoadInv` says that a running daemon with an enabled DSP has
loaded both files, which is why what its handler saves is never blank.
`ListsOutliveThreads` is about one signal: `ListsInv` says that until the
handler has waited nobody has set `joined`, which is what makes it wait.

Left to TLC: all liveness (`RequestsReturn`, `FifoIsDrained`, `StopEnds`,
`SignalEnds`), which rests on fairness and on `ENABLED`, beyond the prover. The
properties of the four violation runs are false as shipped: the runs show
counterexamples, and no theorem says how often they occur.

## Plan

1. `FifoSelect`: the choice among several FIFOs and starvation.
2. Theorems with weaker hypotheses: which registers still follow once a transfer has
   failed; `Fanout` for a playback whose locks do not work but whose requests come
   between rounds; the block of the buffer as a thing of its own, to say when it is
   replaced under the playback thread.
3. In `LifeCycle`, which PCMs are open when the cards are freed.

## Not modelled

- A signal that interrupts the playback or a capture thread, which then joins
  itself; functions that are not safe in a signal handler (`malloc` and `printf`
  interrupted inside themselves).
- The selection among several FIFOs, a FIFO that could not be made or opened, and
  `pthread_create` failing.
- The parsing of `asound.conf`, and log targets and formatting: text, with no
  influence on the state modelled.
- Values of registers that no modelled decision reads (filters, levels, alignment,
  the secondary, phone and navigation channels): their transfers are there, as
  steps that may fail.
- Replies to clients, and the test program.
