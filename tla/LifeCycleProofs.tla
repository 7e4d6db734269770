-------------------------- MODULE LifeCycleProofs ---------------------------
(***************************************************************************)
(* What LifeCycle and Saf7741 keep true, with and without faults, with and *)
(* without locks.  The patches of the chip, first: they outlive daemons    *)
(* that are killed anywhere.  Then the types, the settings that a signal   *)
(* saves, and the lists that threads use while la_deinit frees them.       *)
(***************************************************************************)
EXTENDS LifeCycle, SequenceTheorems, TLAPS

-----------------------------------------------------------------------------
(* The patches. *)

\* Where saf7741_StartUp is while all DSPs are held in reset.
Holding == {"clock", "patch_1e", "words_1e", "patch_2", "words_2", "front_end", "release_1"}

\* Where it is once both patches are written.
Later == {"front_end", "release_1", "kick_radio", "release_1e", "release_all", "dynamic", "hook_1e",
          "hook_2", "kick_audio", "settings", "qiming", "start_tuner", "unmute", "adsp_io",
          "channels", "source", "volumes", "mutes", "done"}

\* A DSP whose patch is not whole is held in reset, whatever its hook is: only the DSPs that are
\* all held are patched, and they are released once both patches are whole.
ChipInv ==
    /\ at \in Place /\ chip \in Chip
    /\ \A dsp1 \in Patched : chip.patch[dsp1] \notin Patched => dsp1 \in Held(chip.ctr)
    /\ at \in Holding => chip.ctr = \h1249
    /\ at \in {"patch_2", "words_2"} \cup Later => chip.patch["TDSP1E"] \in Patched
    /\ at \in Later => chip.patch["TDSP2"] \in Patched

\* DSP_CTR as ResetAllDSP writes it holds both DSPs that are patched.
LEMMA ResetHolds == Patched \subseteq Held(\h1249)
<1>1. DOMAIN Position = {"TDSP1", "TDSP2", "TDSP1E", "SDSP", "ADSP"}
      /\ Position["TDSP1E"] = 2 /\ Position["TDSP2"] = 1
  BY DEF Position
<1>2. Field(\h1249, "TDSP1E") % 2 = 1
  BY <1>1 DEF Field
<1>3. Field(\h1249, "TDSP2") % 2 = 1
  BY <1>1 DEF Field
<1>. QED
  BY <1>1, <1>2, <1>3 DEF Held, Patched

\* The values that saf7741_StartUp gives to DSP_CTR.
LEMMA Controls ==
    /\ \h1249 \in CtrWord /\ \h1248 \in CtrWord /\ \h1208 \in CtrWord
    /\ 0 \in CtrWord /\ \h90 \in CtrWord
<1>1. 8^5 = 32768
  BY Z3
<1>. QED
  BY <1>1 DEF CtrWord

\* The fields of the chip after a write.
LEMMA ControlFacts ==
    ASSUME chip \in Chip, NEW ctr \in CtrWord, chip' = [chip EXCEPT !.ctr = ctr]
    PROVE  chip' \in Chip /\ chip'.ctr = ctr /\ chip'.patch = chip.patch
BY DEF Chip

\* A write to a patch memory leaves the rest of the chip alone.
LEMMA PatchFacts ==
    ASSUME chip \in Chip, NEW d \in Patched, NEW p \in {"none", "part"} \cup Patched,
           chip' = [chip EXCEPT !.patch[d] = p]
    PROVE  chip' \in Chip /\ chip'.ctr = chip.ctr /\ chip'.patch = [chip.patch EXCEPT ![d] = p]
BY DEF Chip

\* A hook that is set leaves DSP_CTR and the patch memories alone.
LEMMA HookFacts ==
    ASSUME chip \in Chip, NEW d \in Patched, chip' = [chip EXCEPT !.hook = @ \cup {d}]
    PROVE  chip' \in Chip /\ chip'.ctr = chip.ctr /\ chip'.patch = chip.patch
BY DEF Chip

\* A transfer of a register that is not kept.
LEMMA SetStep ==
    ASSUME ChipInv, NEW here, NEW next \in Place, at = here, at' \in {next, "failed"}, chip' = chip,
           next \in Holding => here \in Holding,
           next \in {"patch_2", "words_2"} \cup Later => here \in {"patch_2", "words_2"} \cup Later,
           next \in Later => here \in Later
    PROVE  ChipInv'
<1>1. "failed" \in Place /\ "failed" \notin Holding \cup Later \cup {"patch_2", "words_2"}
  BY DEF Place, Holding, Later
<1>. QED
  BY <1>1 DEF ChipInv

\* A transfer that fails.
LEMMA FailStep == ASSUME ChipInv, at' = "failed", chip' = chip PROVE ChipInv'
BY DEF ChipInv, Place, Holding, Later

\* A transfer of DSP_CTR, once both patches are written.
LEMMA ControlStep ==
    ASSUME ChipInv, NEW here \in Later, NEW next \in Later \ Holding, NEW ctr \in CtrWord,
           Control(here, next, ctr)
    PROVE  ChipInv'
<1>1. CASE at' = "failed" /\ chip' = chip
  BY <1>1, FailStep
<1>2. CASE at' = next /\ chip' = [chip EXCEPT !.ctr = ctr]
  <2>1. chip' \in Chip /\ chip'.patch = chip.patch
    BY <1>2, ControlFacts DEF ChipInv
  <2>2. \A d \in Patched : chip.patch[d] \in Patched
    BY DEF ChipInv, Control, Transfer, Patched
  <2>3. next \in Place /\ next \notin Holding
    BY DEF Place, Later
  <2>. QED
    BY <1>2, <2>1, <2>2, <2>3 DEF ChipInv, Patched
<1>. QED
  BY <1>1, <1>2 DEF Control, Transfer

\* A write of a patch, while all DSPs are held.
LEMMA PatchStep ==
    ASSUME ChipInv, NEW here \in Holding, NEW next \in Holding, NEW d \in Patched,
           NEW p \in {"part"} \cup Patched,
           Transfer(here, next, [chip EXCEPT !.patch[d] = p]),
           next \in {"patch_2", "words_2"} \cup Later =>
               \/ d = "TDSP1E" /\ p \in Patched
               \/ d # "TDSP1E" /\ here \in {"patch_2", "words_2"} \cup Later,
           next \in Later => d = "TDSP2" /\ p \in Patched
    PROVE  ChipInv'
<1>1. CASE at' = "failed" /\ chip' = chip
  BY <1>1, FailStep
<1>2. CASE at' = next /\ chip' = [chip EXCEPT !.patch[d] = p]
  <2>1. chip' \in Chip /\ chip'.ctr = \h1249 /\ chip'.patch = [chip.patch EXCEPT ![d] = p]
    BY <1>2, PatchFacts DEF ChipInv, Transfer
  <2>2. next \in Place
    BY DEF Place, Holding
  <2>3. chip.patch \in [Patched -> {"none", "part"} \cup Patched] /\ chip.ctr = \h1249 /\ at = here
    BY DEF ChipInv, Chip, Transfer
  <2>4. \A e \in Patched : e \in Held(chip'.ctr)
    BY <2>1, ResetHolds
  <2>5. at' \in {"patch_2", "words_2"} \cup Later => chip'.patch["TDSP1E"] \in Patched
    BY <1>2, <2>1, <2>3 DEF ChipInv, Patched
  <2>6. at' \in Later => chip'.patch["TDSP2"] \in Patched
    BY <1>2, <2>1, <2>3 DEF Patched
  <2>. QED
    BY <1>2, <2>1, <2>2, <2>4, <2>5, <2>6 DEF ChipInv
<1>. QED
  BY <1>1, <1>2 DEF Transfer

\* Every step of saf7741_StartUp keeps the patches of DSPs that are free whole.
LEMMA StartUpChip == ASSUME ChipInv, StartUp PROVE ChipInv'
<1>. USE DEF Place, Holding, Later
<1>1. CASE EnableTunerI2C
  BY <1>1, SetStep DEF EnableTunerI2C, Set, Transfer
<1>2. CASE ResetAllDSP
  <2>1. CASE at' = "failed" /\ chip' = chip
    BY <2>1, FailStep
  <2>2. CASE at' = "clock" /\ chip' = [chip EXCEPT !.ctr = \h1249]
    <3>1. chip' \in Chip /\ chip'.ctr = \h1249 /\ chip'.patch = chip.patch
      BY <2>2, Controls, ControlFacts DEF ChipInv
    <3>. QED
      BY <2>2, <3>1, ResetHolds DEF ChipInv
  <2>. QED
    BY <1>2, <2>1, <2>2 DEF ResetAllDSP, Control, Transfer
<1>3. CASE SetClkPLL
  BY <1>3, SetStep DEF SetClkPLL, Set, Transfer
<1>4. CASE Patch
  <2>1. "TDSP1E" \in Patched /\ "TDSP2" \in Patched
    BY DEF Patched
  <2>2. CASE PatchFirst("patch_1e", "words_1e", "TDSP1E")
    BY <2>1, <2>2, PatchStep DEF PatchFirst
  <2>3. CASE PatchWords("words_1e", "patch_2", "TDSP1E", "TDSP1E")
    BY <2>1, <2>3, PatchStep DEF PatchWords
  <2>4. CASE PatchFirst("patch_2", "words_2", "TDSP2")
    BY <2>1, <2>4, PatchStep DEF PatchFirst
  <2>5. CASE PatchWords("words_2", "front_end", "TDSP2", "TDSP1E")
    BY <2>1, <2>5, PatchStep DEF PatchWords
  <2>. QED
    BY <1>4, <2>2, <2>3, <2>4, <2>5 DEF Patch
<1>5. CASE FrontEnd
  BY <1>5, SetStep DEF FrontEnd, Set, Transfer
<1>6. CASE Release
  <2>1. CASE Control("release_1", "kick_radio", \h1248)
    BY <2>1, Controls, ControlStep
  <2>2. CASE Set("kick_radio", "release_1e")
    BY <2>2, SetStep DEF Set, Transfer
  <2>3. CASE Control("release_1e", "release_all", \h1208)
    BY <2>3, Controls, ControlStep
  <2>4. CASE Control("release_all", "dynamic", 0)
    BY <2>4, Controls, ControlStep
  <2>5. CASE Control("dynamic", "hook_1e", \h90)
    BY <2>5, Controls, ControlStep
  <2>6. ASSUME NEW d \in Patched,
               SetHook("hook_1e", "hook_2", d) \/ SetHook("hook_2", "kick_audio", d)
        PROVE  ChipInv'
    <3>1. \/ at' = "failed" /\ chip' = chip
          \/ at' \in {"hook_2", "kick_audio"} /\ chip' = [chip EXCEPT !.hook = @ \cup {d}]
      BY <2>6 DEF SetHook, Transfer
    <3>2. at \in Later
      BY <2>6 DEF SetHook, Transfer
    <3>3. CASE at' \in {"hook_2", "kick_audio"} /\ chip' = [chip EXCEPT !.hook = @ \cup {d}]
      <4>1. chip' \in Chip /\ chip'.ctr = chip.ctr /\ chip'.patch = chip.patch
        BY <3>3, HookFacts DEF ChipInv
      <4>. QED
        BY <3>2, <3>3, <4>1 DEF ChipInv
    <3>. QED
      BY <3>1, <3>3, FailStep
  <2>7. CASE Set("kick_audio", "settings")
    BY <2>7, SetStep DEF Set, Transfer
  <2>8. "TDSP1E" \in Patched /\ "TDSP2" \in Patched
    BY DEF Patched
  <2>. QED
    BY <1>6, <2>1, <2>2, <2>3, <2>4, <2>5, <2>6, <2>7, <2>8 DEF Release
<1>7. CASE Settings \/ QiMingSettings \/ StartUpTuner \/ Unmute \/ AdspIOCtrl
  BY <1>7, SetStep DEF Settings, QiMingSettings, StartUpTuner, Unmute, AdspIOCtrl, Set, Transfer
<1>8. CASE SetChannelMode \/ SetSource \/ SetOtherVols \/ SetOtherMutes
  BY <1>8, SetStep DEF SetChannelMode, SetSource, SetOtherVols, SetOtherMutes, Try
<1>. QED
  BY <1>1, <1>2, <1>3, <1>4, <1>5, <1>6, <1>7, <1>8 DEF StartUp

\* So do the steps that open and close the device, and a new daemon.
LEMMA DevChip ==
    ASSUME ChipInv, \/ OpenDev \/ CloseDev
                    \/ at' = "off" /\ chip' = chip
                    \/ UNCHANGED <<at, chip>>
    PROVE  ChipInv'
BY FailStep DEF ChipInv, OpenDev, CloseDev, Place, Holding, Later

\* Every step of the daemon is, for the chip, one of these or none.
LEMMA ChipStep == ASSUME ChipInv, [Next]_vars PROVE ChipInv'
<1>1. ASSUME Next
      PROVE  \/ StartUp \/ OpenDev \/ CloseDev
             \/ at' = "off" /\ chip' = chip
             \/ UNCHANGED <<at, chip>>
  <2>1. CASE Start \/ Kill
    BY <2>1 DEF Start, Kill, Ended
  <2>2. CASE Main
    BY <2>2 DEF Main, LoadConf, ProbeCaptures, ProbePlaybacks, ProbeCards, Probe, InitFails,
       StartPlayer, SetSignals, OpenChannel, OpenDsp, ResetDsp, LoadSetting
  <2>3. CASE PlayerLocks \/ PlayerUnlocks \/ PlayerEnds
    BY <2>3 DEF PlayerLocks, PlayerUnlocks, PlayerEnds, PlayerDoes
  <2>4. CASE Request \/ UseLists \/ Backup
    BY <2>4 DEF Request, UseLists, Backup, Ended
  <2>5. ASSUME NEW thread \in Threads, Signal(thread)
        PROVE  UNCHANGED <<at, chip>>
    BY <2>5 DEF Signal
  <2>6. CASE Handler
    BY <2>6 DEF Handler, StopRun, CancelPlayer, JoinPlayer, WaitPlayer, FreeThread,
       DeleteCaptures, DeleteCards, DeletePlaybacks, Delete, StopDsp, SaveSettings, CloseDsp, Exit,
       Ended
  <2>. QED
    BY <1>1, <2>1, <2>2, <2>3, <2>4, <2>5, <2>6 DEF Next
<1>2. UNCHANGED vars => UNCHANGED <<at, chip>>
  BY DEF vars
<1>. QED
  BY <1>1, <1>2, StartUpChip, DevChip

\* A chip that has just been powered up executes no hook.
LEMMA ChipInit == Init => ChipInv
<1>. SUFFICES ASSUME Init PROVE ChipInv
  OBVIOUS
<1>1. at = "off" /\ chip = PowerUp
  BY DEF Init
<1>2. PowerUp \in Chip /\ PowerUp.ctr = \h1249
  BY Controls DEF PowerUp, Chip
<1>3. at \in Place /\ at \notin Holding \cup Later \cup {"patch_2", "words_2"}
  BY <1>1 DEF Place, Holding, Later
<1>. QED
  BY <1>1, <1>2, <1>3, ResetHolds DEF ChipInv

\* The order of the start-up holds from the first state on.
LEMMA ChipAlways == Spec => []ChipInv
BY ChipInit, ChipStep, PTL DEF Spec

\* A DSP that executes the hook of a patch has all of a patch, whatever transfer fails and
\* whenever the daemon is killed or stopped and starts again.
THEOREM HookedAlwaysPatched == Spec => []HookedIsPatched
<1>1. ChipInv => HookedIsPatched
  BY DEF ChipInv, HookedIsPatched
<1>. QED
  BY <1>1, ChipAlways, PTL

-----------------------------------------------------------------------------
(* The types. *)

MainPc == {"load", "captures", "playbacks", "cards", "start", "signals", "channel", "dsp", "reset",
           "load_audio", "load_radio", "running"}

HandlerPc == {"stop", "cancel", "join", "wait", "free", "forget", "captures", "cards", "playbacks",
              "dsp", "close", "exit"} \cup SavePc

FrameRecord  == [thread : Threads, running : BOOLEAN, pc : HandlerPc]
PlayerRecord == [state : {"none", "goes", "locks", "ended"}, cancelled : BOOLEAN, joined : BOOLEAN,
                 block : {"null", "set", "freed"}]
IpcRecord    == [open : BOOLEAN, pc : {"idle", "route", "locked"} \cup SavePc]
DspState     == [enable : BOOLEAN, ops : BOOLEAN, loaded : SUBSET Setting]
FileState    == {"none", "cut", "blank", "saved"}

TypeInv ==
    /\ proc \in {"up", "down", "crashed"}
    /\ main \in MainPc
    /\ lists \in [List -> {"none", "listed", "probed"}]
    /\ run \in BOOLEAN
    /\ player \in PlayerRecord
    /\ ipc \in IpcRecord
    /\ frames \in Seq(FrameRecord) /\ Len(frames) <= MaxSignals
    /\ dsp \in DspState
    /\ file \in [Setting -> FileState]

\* The places of a save.
LEMMA SavePcs ==
    /\ SavePc = {"open_audio", "write_audio", "open_radio", "write_radio"}
    /\ DOMAIN Opens = {"open_audio", "open_radio"}
    /\ Opens["open_audio"] = "audio" /\ Opens["open_radio"] = "radio"
    /\ Writes["write_audio"] = "audio" /\ Writes["write_radio"] = "radio"
    /\ DOMAIN Then = {"open_audio", "write_audio", "open_radio"}
    /\ Then["open_audio"] = "write_audio" /\ Then["write_audio"] = "open_radio"
    /\ Then["open_radio"] = "write_radio"
    /\ Setting = {"audio", "radio"}
BY DEF SavePc, Opens, Writes, Then, Setting

\* A save goes on through its four places; it blanks only a file whose settings are not loaded.
LEMMA SaveFacts ==
    ASSUME TypeInv, NEW pc \in SavePc, NEW next
    PROVE  /\ After(pc, next) \in SavePc \cup {next}
           /\ Saved(pc) \in [Setting -> FileState]
           /\ \A s \in Setting : Saved(pc)[s] = "blank" => file[s] = "blank" \/ s \notin dsp.loaded
<1>1. After(pc, next) \in SavePc \cup {next}
  BY SavePcs DEF After
<1>2. CASE pc \in {"open_audio", "open_radio"}
  <2>1. Opens[pc] \in Setting /\ Saved(pc) = [file EXCEPT ![Opens[pc]] = "cut"]
    BY <1>2, SavePcs DEF Saved
  <2>. QED
    BY <1>1, <2>1 DEF TypeInv, FileState
<1>3. CASE pc \in {"write_audio", "write_radio"}
  <2>1. /\ Writes[pc] \in Setting
        /\ Saved(pc) = [file EXCEPT ![Writes[pc]] =
                          IF Writes[pc] \in dsp.loaded THEN "saved" ELSE "blank"]
    BY <1>3, SavePcs DEF Saved
  <2>. QED
    BY <1>1, <2>1 DEF TypeInv, FileState
<1>. QED
  BY <1>2, <1>3, SavePcs

\* One signal handler goes on; those of the other frames stand still.
LEMMA FrameStep ==
    ASSUME frames \in Seq(FrameRecord), NEW i \in DOMAIN frames, NEW to \in HandlerPc,
           frames' = [frames EXCEPT ![i].pc = to]
    PROVE  /\ frames' \in Seq(FrameRecord) /\ Len(frames') = Len(frames)
           /\ DOMAIN frames' = DOMAIN frames
           /\ frames'[i].pc = to
           /\ \A j \in DOMAIN frames :
                 /\ frames[j] \in FrameRecord /\ frames'[j] \in FrameRecord
                 /\ frames'[j].thread = frames[j].thread
                 /\ frames'[j].running = frames[j].running
                 /\ j # i => frames'[j] = frames[j]
<1>1. \A j \in DOMAIN frames : frames[j] \in FrameRecord
  OBVIOUS
<1>. DEFINE f == [frames[i] EXCEPT !.pc = to]
<1>2. f \in FrameRecord /\ f.pc = to /\ f.thread = frames[i].thread
      /\ f.running = frames[i].running
  BY <1>1 DEF FrameRecord
<1>3. frames' = [frames EXCEPT ![i] = f]
  OBVIOUS
<1>. HIDE DEF f
<1>. QED
  BY <1>1, <1>2, <1>3

\* The places of main and of the signal handler.
LEMMA HandlerPcs ==
    /\ SavePc \subseteq HandlerPc
    /\ {"stop", "cancel", "join", "wait", "free", "forget", "captures", "cards", "playbacks",
        "dsp", "close", "exit"} \subseteq HandlerPc
    /\ "open_audio" \in SavePc /\ "close" \notin SavePc
    /\ {"stop", "cancel", "join", "wait", "free", "forget", "captures", "cards", "playbacks",
        "dsp", "close", "exit"} \cap SavePc = {}
BY DEF HandlerPc, SavePc

\* The places of main.
LEMMA MainPcs ==
    {"load", "captures", "playbacks", "cards", "start", "signals", "channel", "dsp", "reset",
     "load_audio", "load_radio", "running"} \subseteq MainPc
BY DEF MainPc

\* A daemon that starts has these types.
LEMMA NewTypes ==
    /\ <<>> \in Seq(FrameRecord) /\ Len(<<>>) <= MaxSignals
    /\ [state |-> "none", cancelled |-> FALSE, joined |-> FALSE, block |-> "null"] \in PlayerRecord
    /\ [open |-> FALSE, pc |-> "idle"] \in IpcRecord
    /\ [enable |-> EnableDsp, ops |-> FALSE, loaded |-> {}] \in DspState
    /\ [l \in List |-> "none"] \in [List -> {"none", "listed", "probed"}]
<1>1. MaxSignals \in 0..2 /\ EnableDsp \in BOOLEAN
  BY LifeCycleAssumption
<1>2. <<>> \in Seq(FrameRecord) /\ Len(<<>>) <= MaxSignals
  BY <1>1
<1>3. [state |-> "none", cancelled |-> FALSE, joined |-> FALSE, block |-> "null"] \in PlayerRecord
  BY DEF PlayerRecord
<1>4. [open |-> FALSE, pc |-> "idle"] \in IpcRecord
  BY DEF IpcRecord
<1>5. [enable |-> EnableDsp, ops |-> FALSE, loaded |-> {}] \in DspState
  BY <1>1 DEF DspState
<1>. QED
  BY <1>2, <1>3, <1>4, <1>5

\* The steps of main leave the process, the frames and the files alone.
LEMMA MainFrame == Main => UNCHANGED <<proc, frames, file>>
BY DEF Main, LoadConf, ProbeCaptures, ProbePlaybacks, ProbeCards, Probe, InitFails, StartPlayer,
   SetSignals, OpenChannel, OpenDsp, DspFails, ResetDsp, LoadSetting, MainAt

\* Every step of main keeps the types.
LEMMA MainTypes == ASSUME TypeInv, Main PROVE TypeInv'
<1>. USE MainPcs, MainFrame
<1>1. CASE LoadConf
  BY <1>1 DEF LoadConf, MainAt, TypeInv
<1>2. CASE ProbeCaptures \/ ProbePlaybacks \/ ProbeCards
  BY <1>2 DEF ProbeCaptures, ProbePlaybacks, ProbeCards, Probe, MainAt, TypeInv
<1>3. CASE InitFails
  BY <1>3 DEF InitFails, MainAt, TypeInv
<1>4. CASE StartPlayer
  BY <1>4 DEF StartPlayer, MainAt, TypeInv, PlayerRecord
<1>5. CASE SetSignals
  BY <1>5 DEF SetSignals, MainAt, TypeInv
<1>6. CASE OpenChannel
  BY <1>6 DEF OpenChannel, MainAt, TypeInv, IpcRecord
<1>7. CASE OpenDsp
  BY <1>7 DEF OpenDsp, DspFails, MainAt, TypeInv, DspState
<1>8. CASE ResetDsp
  BY <1>8 DEF ResetDsp, DspFails, MainAt, TypeInv, DspState
<1>9. ASSUME NEW here, NEW next \in MainPc, NEW s \in Setting, LoadSetting(here, next, s)
      PROVE  TypeInv'
  BY <1>9 DEF LoadSetting, MainAt, TypeInv, DspState
<1>. QED
  BY <1>1, <1>2, <1>3, <1>4, <1>5, <1>6, <1>7, <1>8, <1>9, SavePcs DEF Main

\* The handler goes from a place of its own to another.
LEMMA HandlerAtFacts ==
    ASSUME TypeInv, NEW i \in DOMAIN frames, NEW here, NEW next \in HandlerPc,
           HandlerAt(i, here, next)
    PROVE  /\ frames[i].pc = here /\ frames' = [frames EXCEPT ![i].pc = next]
           /\ frames' \in Seq(FrameRecord) /\ Len(frames') <= MaxSignals
           /\ UNCHANGED <<proc, main, ipc>>
BY FrameStep DEF HandlerAt, TypeInv

\* Every step of the signal handlers keeps the types.
LEMMA HandlerTypes == ASSUME TypeInv, Handler PROVE TypeInv'
<1>. USE HandlerPcs, HandlerAtFacts
<1>1. PICK i \in DOMAIN frames :
        \/ StopRun(i) \/ CancelPlayer(i) \/ JoinPlayer(i) \/ WaitPlayer(i) \/ FreeThread(i)
        \/ DeleteCaptures(i) \/ DeleteCards(i) \/ DeletePlaybacks(i)
        \/ StopDsp(i) \/ SaveSettings(i) \/ CloseDsp(i) \/ Exit(i)
  BY DEF Handler
<1>2. CASE StopRun(i)
  BY <1>2 DEF StopRun, TypeInv
<1>3. CASE CancelPlayer(i)
  BY <1>3 DEF CancelPlayer, TypeInv, PlayerRecord, Ended
<1>4. CASE JoinPlayer(i)
  BY <1>4 DEF JoinPlayer, TypeInv, PlayerRecord
<1>5. CASE WaitPlayer(i)
  BY <1>5 DEF WaitPlayer, TypeInv
<1>6. CASE FreeThread(i)
  BY <1>6 DEF FreeThread, TypeInv, PlayerRecord
<1>7. CASE DeleteCaptures(i) \/ DeleteCards(i) \/ DeletePlaybacks(i)
  BY <1>7 DEF DeleteCaptures, DeleteCards, DeletePlaybacks, Delete, TypeInv
<1>8. CASE StopDsp(i)
  BY <1>8 DEF StopDsp, TypeInv
<1>9. CASE SaveSettings(i)
  <2>1. frames[i].pc \in SavePc /\ After(frames[i].pc, "close") \in HandlerPc
        /\ Saved(frames[i].pc) \in [Setting -> FileState]
    BY <1>9, SaveFacts DEF SaveSettings
  <2>. QED
    BY <1>9, <2>1 DEF SaveSettings, TypeInv
<1>10. CASE CloseDsp(i)
  BY <1>10 DEF CloseDsp, TypeInv, Ended
<1>11. CASE Exit(i)
  BY <1>11 DEF Exit, TypeInv, Ended
<1>. QED
  BY <1>1, <1>2, <1>3, <1>4, <1>5, <1>6, <1>7, <1>8, <1>9, <1>10, <1>11

\* Every step keeps the types.
LEMMA TypeStep == ASSUME TypeInv, [Next]_vars PROVE TypeInv'
<1>1. CASE Start
  BY <1>1, MainPcs, NewTypes DEF Start, TypeInv
<1>2. CASE Kill
  BY <1>2 DEF Kill, Ended, TypeInv
<1>3. CASE Main
  BY <1>3, MainTypes
<1>4. CASE PlayerLocks \/ PlayerUnlocks \/ PlayerEnds
  BY <1>4 DEF PlayerLocks, PlayerUnlocks, PlayerEnds, PlayerDoes, TypeInv, PlayerRecord
<1>5. CASE Request
  BY <1>5, HandlerPcs DEF Request, TypeInv, IpcRecord
<1>6. CASE UseLists
  BY <1>6 DEF UseLists, Ended, TypeInv, IpcRecord
<1>7. CASE Backup
  BY <1>7, SaveFacts DEF Backup, TypeInv, IpcRecord
<1>8. ASSUME NEW thread \in Threads, Signal(thread)
      PROVE  TypeInv'
  <2>. DEFINE f == [thread |-> thread, pc |-> "stop", running |-> main = "running"]
  <2>1. f \in FrameRecord
    BY HandlerPcs DEF FrameRecord
  <2>2. frames' = Append(frames, f) /\ Len(frames) < MaxSignals
        /\ UNCHANGED <<proc, main, lists, run, player, ipc, dsp, file>>
    BY <1>8 DEF Signal
  <2>. HIDE DEF f
  <2>3. frames' \in Seq(FrameRecord) /\ Len(frames') <= MaxSignals
    BY <2>1, <2>2, LifeCycleAssumption DEF TypeInv
  <2>. QED
    BY <2>2, <2>3 DEF TypeInv
<1>9. CASE Handler
  BY <1>9, HandlerTypes
<1>10. CASE UNCHANGED vars
  BY <1>10 DEF vars, TypeInv
<1>. QED
  BY <1>1, <1>2, <1>3, <1>4, <1>5, <1>6, <1>7, <1>8, <1>9, <1>10 DEF Next

\* The types hold from the first state on.
LEMMA TypesAlways == Spec => []TypeInv
<1>1. Init => TypeInv
  BY MainPcs, NewTypes DEF Init, TypeInv, FileState
<1>. QED
  BY <1>1, TypeStep, PTL DEF Spec

\* The places of all threads, the lists, the frames and the chip keep their types, for every
\* number of signals that is allowed.
THEOREM TypeAlways == Spec => []TypeOK
<1>1. ASSUME TypeInv, NEW i \in DOMAIN frames PROVE frames[i] \in FrameRecord
  BY <1>1 DEF TypeInv
<1>2. ASSUME ChipInv, TypeInv PROVE TypeOK
  <2>1. at \in Place /\ chip \in Chip
    BY <1>2 DEF ChipInv
  <2>2. \A i \in DOMAIN frames : frames[i] \in FrameRecord
    BY <1>1, <1>2
  <2>3. FrameRecord =
          [thread : Threads, running : BOOLEAN,
           pc : {"stop", "cancel", "join", "wait", "free", "forget", "captures",
                 "cards", "playbacks", "dsp", "close", "exit"} \cup SavePc]
    BY DEF FrameRecord, HandlerPc
  <2>. QED
    BY <1>2, <2>1, <2>2, <2>3
    DEF TypeInv, TypeOK, MainPc, PlayerRecord, IpcRecord, DspState, FileState
<1>. QED
  BY <1>2, ChipAlways, TypesAlways, PTL

-----------------------------------------------------------------------------
(* The settings that a signal saves. *)

\* A daemon that runs with its DSP enabled has loaded both settings; a handler that has found it
\* running saves only if the DSP is enabled, and main stays where it is.
LoadInv ==
    /\ main = "load_radio" => "audio" \in dsp.loaded
    /\ main = "running" /\ dsp.enable => Setting \subseteq dsp.loaded
    /\ \A i \in DOMAIN frames :
          frames[i].running => main = "running" /\ (frames[i].pc \in SavePc => dsp.enable)

\* What SignalKeepsSettings says of a step.
KeepsSettings ==
    \A i \in DOMAIN frames \cap DOMAIN frames' :
        frames[i].running /\ frames'[i].pc # frames[i].pc =>
            \A s \in Setting : file'[s] = "blank" => file[s] = "blank"

\* The start of the DSP loads one setting after the other, or ends with the DSP disabled.
LEMMA MainLoad == ASSUME TypeInv, LoadInv, Main PROVE LoadInv' /\ KeepsSettings
<1>1. main # "running" /\ frames' = frames /\ file' = file
  BY MainFrame DEF Main, LoadConf, ProbeCaptures, ProbePlaybacks, ProbeCards, Probe, InitFails,
     StartPlayer, SetSignals, OpenChannel, OpenDsp, DspFails, ResetDsp, LoadSetting, MainAt
<1>2. \A i \in DOMAIN frames : ~frames[i].running
  BY <1>1 DEF LoadInv
<1>3. /\ main' = "load_radio" => "audio" \in dsp'.loaded
      /\ main' = "running" /\ dsp'.enable => Setting \subseteq dsp'.loaded
  <2>1. CASE LoadConf \/ ProbeCaptures \/ ProbePlaybacks \/ ProbeCards \/ InitFails
             \/ StartPlayer \/ SetSignals \/ OpenChannel
    BY <2>1 DEF LoadConf, ProbeCaptures, ProbePlaybacks, ProbeCards, Probe, InitFails, StartPlayer,
       SetSignals, OpenChannel, MainAt
  <2>2. CASE OpenDsp
    BY <2>2 DEF OpenDsp, DspFails, MainAt, TypeInv, DspState
  <2>3. CASE ResetDsp
    BY <2>3 DEF ResetDsp, DspFails, MainAt, TypeInv, DspState
  <2>4. CASE LoadSetting("load_audio", "load_radio", "audio")
    BY <2>4 DEF LoadSetting, MainAt, TypeInv, DspState
  <2>5. CASE LoadSetting("load_radio", "running", "radio")
    BY <2>5, SavePcs DEF LoadSetting, MainAt, TypeInv, DspState, LoadInv
  <2>. QED
    BY <2>1, <2>2, <2>3, <2>4, <2>5 DEF Main
<1>. QED
  BY <1>1, <1>2, <1>3 DEF LoadInv, KeepsSettings

\* A handler that goes on with dsp as it is.
LEMMA HandlerLoad ==
    ASSUME TypeInv, LoadInv, NEW i \in DOMAIN frames, NEW here, NEW next \in HandlerPc,
           HandlerAt(i, here, next), dsp' = dsp,
           next \in SavePc => here \in SavePc \/ dsp.enable,
           file' = file \/ (here \in SavePc /\ file' = Saved(here))
    PROVE  LoadInv' /\ KeepsSettings
<1>1. frames[i].pc = here /\ frames' = [frames EXCEPT ![i].pc = next] /\ main' = main
  BY HandlerAtFacts
<1>2. /\ DOMAIN frames' = DOMAIN frames /\ frames'[i].pc = next
      /\ \A j \in DOMAIN frames : /\ frames'[j].running = frames[j].running
                                  /\ j # i => frames'[j] = frames[j]
  BY <1>1, FrameStep DEF TypeInv
<1>3. LoadInv'
  BY <1>1, <1>2 DEF LoadInv
<1>4. ASSUME here \in SavePc, file' = Saved(here), frames[i].running,
             NEW s \in Setting, file'[s] = "blank"
      PROVE  file[s] = "blank"
  <2>1. Setting \subseteq dsp.loaded
    BY <1>1, <1>4 DEF LoadInv
  <2>. QED
    BY <1>4, <2>1, SaveFacts
<1>5. KeepsSettings
  BY <1>2, <1>4 DEF KeepsSettings
<1>. QED
  BY <1>3, <1>5

\* Every step keeps what a save relies on: the settings are loaded once the daemon runs.
LEMMA LoadStep == ASSUME TypeInv, LoadInv, [Next]_vars PROVE LoadInv' /\ KeepsSettings
<1>1. CASE Start
  BY <1>1 DEF Start, LoadInv, KeepsSettings
<1>2. CASE Main
  BY <1>2, MainLoad
<1>3. ASSUME UNCHANGED <<main, dsp, frames>>
      PROVE  LoadInv' /\ KeepsSettings
  BY <1>3 DEF LoadInv, KeepsSettings
<1>4. CASE Kill
  BY <1>3, <1>4 DEF Kill, Ended
<1>5. CASE PlayerLocks \/ PlayerUnlocks \/ PlayerEnds
  BY <1>3, <1>5 DEF PlayerLocks, PlayerUnlocks, PlayerEnds, PlayerDoes
<1>6. CASE Request \/ UseLists \/ Backup
  BY <1>3, <1>6 DEF Request, UseLists, Backup, Ended
<1>7. ASSUME NEW thread \in Threads, Signal(thread)
      PROVE  LoadInv' /\ KeepsSettings
  <2>. DEFINE f == [thread |-> thread, pc |-> "stop", running |-> main = "running"]
  <2>1. (f.running => main = "running") /\ f.pc \notin SavePc
    BY HandlerPcs
  <2>2. frames' = Append(frames, f) /\ UNCHANGED <<main, dsp, file>>
    BY <1>7 DEF Signal
  <2>. HIDE DEF f
  <2>3. frames \in Seq(FrameRecord)
    BY DEF TypeInv
  <2>4. \A j \in DOMAIN frames' : frames'[j] = f \/ (j \in DOMAIN frames /\ frames'[j] = frames[j])
    BY <2>2, <2>3
  <2>. QED
    BY <2>1, <2>2, <2>4 DEF LoadInv, KeepsSettings
<1>8. CASE Handler
  <2>1. PICK i \in DOMAIN frames :
          \/ StopRun(i) \/ CancelPlayer(i) \/ JoinPlayer(i) \/ WaitPlayer(i) \/ FreeThread(i)
          \/ DeleteCaptures(i) \/ DeleteCards(i) \/ DeletePlaybacks(i)
          \/ StopDsp(i) \/ SaveSettings(i) \/ CloseDsp(i) \/ Exit(i)
    BY <1>8 DEF Handler
  <2>2. ASSUME NEW here, NEW next \in HandlerPc \ SavePc, HandlerAt(i, here, next), dsp' = dsp,
               file' = file
        PROVE  LoadInv' /\ KeepsSettings
    BY <2>2, HandlerLoad
  <2>3. CASE StopRun(i) \/ JoinPlayer(i) \/ WaitPlayer(i) \/ FreeThread(i)
    BY <2>2, <2>3, HandlerPcs DEF StopRun, JoinPlayer, WaitPlayer, FreeThread
  <2>4. CASE DeleteCaptures(i) \/ DeleteCards(i) \/ DeletePlaybacks(i)
    BY <2>2, <2>4, HandlerPcs DEF DeleteCaptures, DeleteCards, DeletePlaybacks, Delete
  <2>5. CASE CancelPlayer(i) \/ CloseDsp(i) \/ Exit(i)
    BY <1>3, <2>2, <2>5, HandlerPcs DEF CancelPlayer, CloseDsp, Exit, Ended
  <2>6. CASE StopDsp(i)
    BY <2>6, HandlerPcs, HandlerLoad DEF StopDsp
  <2>7. CASE SaveSettings(i)
    <3>1. frames[i].pc \in SavePc /\ After(frames[i].pc, "close") \in HandlerPc
      BY <2>7, SaveFacts, HandlerPcs DEF SaveSettings
    <3>. QED
      BY <2>7, <3>1, HandlerLoad DEF SaveSettings
  <2>. QED
    BY <2>1, <2>3, <2>4, <2>5, <2>6, <2>7
<1>9. CASE UNCHANGED vars
  BY <1>3, <1>9 DEF vars
<1>. QED
  BY <1>1, <1>2, <1>4, <1>5, <1>6, <1>7, <1>8, <1>9 DEF Next

\* What a save relies on holds from the first state on.
LEMMA LoadAlways == Spec => [](TypeInv /\ LoadInv)
<1>1. Init => LoadInv
  BY DEF Init, LoadInv
<1>2. TypeInv /\ LoadInv /\ [Next]_vars => LoadInv'
  BY LoadStep
<1>. QED
  BY <1>1, <1>2, TypesAlways, PTL DEF Spec

\* A signal that stops a running daemon never replaces settings by those of a DSP that has not
\* been set up, whatever part of the start has failed and however many signals come.
THEOREM SignalAlwaysKeeps == Spec => SignalKeepsSettings
<1>1. TypeInv /\ LoadInv /\ [Next]_vars =>
        [\A i \in DOMAIN frames \cap DOMAIN frames' :
            frames[i].running /\ frames'[i].pc # frames[i].pc =>
                \A s \in Setting : file'[s] = "blank" => file[s] = "blank"]_vars
  BY LoadStep DEF KeepsSettings
<1>. QED
  BY <1>1, LoadAlways, PTL DEF Spec, SignalKeepsSettings

-----------------------------------------------------------------------------
(* The lists, where one signal comes. *)

\* Where main is before it has started the playback thread, and before it has set up signals.
Early == {"load", "captures", "playbacks", "cards", "start"}

\* The handler has not yet waited for the playback thread.
Joining == {"stop", "cancel", "join", "wait"}

\* The lists are probed before a thread uses them and stay so until the one handler has joined
\* the playback thread.  That it waits rests on the flag joined, which is not set before.
ListsInv ==
    /\ main \in Early => player.state = "none"
    /\ main \in Early \cup {"signals"} => frames = <<>>
    /\ main \in Early \cup {"signals", "channel"} => ~ipc.open
    /\ ipc.pc # "idle" => ipc.open
    /\ main \in {"playbacks", "cards"} => lists["capture"] = "probed"
    /\ main = "cards" => lists["playback"] = "probed"
    /\ main \notin Early \ {"start"} /\ frames = <<>> => \A l \in List : lists[l] = "probed"
    /\ player.state \in {"goes", "locks"} => player.block = "set" /\ lists["playback"] = "probed"
    /\ frames = <<>> => ~player.joined
    /\ \A i \in DOMAIN frames :
          /\ frames[i].pc \in Joining \ {"wait"} => ~player.joined
          /\ frames[i].pc \notin Joining => player.state \notin {"goes", "locks"}

\* Frames of which there is at most one.
LEMMA OneFrame ==
    ASSUME MaxSignals <= 1, TypeInv
    PROVE  /\ \A i \in DOMAIN frames : i = 1
           /\ frames = <<>> <=> DOMAIN frames = {}
           /\ Len(frames) < MaxSignals => frames = <<>>
<1>1. frames \in Seq(FrameRecord) /\ Len(frames) \in Nat /\ Len(frames) <= MaxSignals
      /\ DOMAIN frames = 1..Len(frames) /\ MaxSignals \in Nat
  BY LifeCycleAssumption DEF TypeInv
<1>2. Len(frames) <= 1
  BY <1>1
<1>3. frames = <<>> <=> Len(frames) = 0
  BY <1>1
<1>. QED
  BY <1>1, <1>2, <1>3

\* The lists, one by one.
LEMMA ListNames == List = {"capture", "playback", "card"}
BY DEF List

\* main starts the threads once the lists are probed.
LEMMA MainLists == ASSUME TypeInv, ListsInv, Main PROVE ListsInv'
<1>. USE ListNames, MainFrame
<1>1. CASE LoadConf
  BY <1>1 DEF LoadConf, MainAt, ListsInv, Early
<1>2. CASE ProbeCaptures
  BY <1>2 DEF ProbeCaptures, Probe, MainAt, ListsInv, Early, TypeInv
<1>3. CASE ProbePlaybacks
  BY <1>3 DEF ProbePlaybacks, Probe, MainAt, ListsInv, Early, TypeInv
<1>4. CASE ProbeCards
  BY <1>4 DEF ProbeCards, Probe, MainAt, ListsInv, Early, TypeInv
<1>5. CASE InitFails
  BY <1>5 DEF InitFails, MainAt, ListsInv, Early
<1>6. CASE StartPlayer
  BY <1>6 DEF StartPlayer, MainAt, ListsInv, Early
<1>7. CASE SetSignals
  BY <1>7 DEF SetSignals, MainAt, ListsInv, Early
<1>8. CASE OpenChannel
  BY <1>8 DEF OpenChannel, MainAt, ListsInv, Early, TypeInv, IpcRecord
<1>9. CASE OpenDsp
  BY <1>9 DEF OpenDsp, DspFails, MainAt, ListsInv, Early
<1>10. CASE ResetDsp
  BY <1>10 DEF ResetDsp, DspFails, MainAt, ListsInv, Early
<1>11. CASE LoadSetting("load_audio", "load_radio", "audio")
            \/ LoadSetting("load_radio", "running", "radio")
  BY <1>11 DEF LoadSetting, MainAt, ListsInv, Early
<1>. QED
  BY <1>1, <1>2, <1>3, <1>4, <1>5, <1>6, <1>7, <1>8, <1>9, <1>10, <1>11 DEF Main

\* The handler, alone, joins the playback thread before it deletes the playbacks.
LEMMA HandlerLists == ASSUME MaxSignals <= 1, TypeInv, ListsInv, Handler PROVE ListsInv'
<1>1. PICK i \in DOMAIN frames :
        \/ StopRun(i) \/ CancelPlayer(i) \/ JoinPlayer(i) \/ WaitPlayer(i) \/ FreeThread(i)
        \/ DeleteCaptures(i) \/ DeleteCards(i) \/ DeletePlaybacks(i)
        \/ StopDsp(i) \/ SaveSettings(i) \/ CloseDsp(i) \/ Exit(i)
  BY DEF Handler
<1>2. \A j \in DOMAIN frames : j = i
  BY OneFrame
<1>3. frames # <<>> /\ main \notin Early \cup {"signals"}
  BY <1>1, OneFrame DEF ListsInv
<1>4. ASSUME NEW here, NEW next \in HandlerPc, HandlerAt(i, here, next)
      PROVE  /\ frames[i].pc = here /\ UNCHANGED <<main, ipc>>
             /\ DOMAIN frames' = DOMAIN frames /\ frames' # <<>>
             /\ \A j \in DOMAIN frames' : frames'[j].pc = next
  <2>1. frames' = [frames EXCEPT ![i].pc = next] /\ frames[i].pc = here /\ UNCHANGED <<main, ipc>>
    BY <1>4, HandlerAtFacts
  <2>2. DOMAIN frames' = DOMAIN frames /\ frames'[i].pc = next
    BY <2>1, FrameStep DEF TypeInv
  <2>. QED
    BY <1>2, <2>1, <2>2
<1>5. ASSUME NEW here, NEW next \in HandlerPc, HandlerAt(i, here, next),
             player' = player, lists'["playback"] = lists["playback"],
             here \in Joining /\ next \notin Joining => player.state \notin {"goes", "locks"},
             next \in Joining => here \in Joining,
             next \in Joining \ {"wait"} => ~player.joined
      PROVE  ListsInv'
  <2>1. /\ frames[i].pc = here /\ UNCHANGED <<main, ipc>>
        /\ DOMAIN frames' = DOMAIN frames /\ frames' # <<>>
        /\ \A j \in DOMAIN frames' : frames'[j].pc = next
    BY <1>4, <1>5
  <2>2. next \notin Joining => player.state \notin {"goes", "locks"}
    BY <1>5, <2>1 DEF ListsInv
  <2>. QED
    BY <1>3, <1>5, <2>1, <2>2 DEF ListsInv, Early
<1>. USE HandlerPcs DEF Joining
<1>6. CASE StopRun(i)
  <2>1. player.block = "null" => player.state \notin {"goes", "locks"}
    BY DEF ListsInv
  <2>2. frames[i].pc = "stop" => ~player.joined
    BY DEF ListsInv
  <2>3. frames[i].pc = "stop"
    BY <1>6 DEF StopRun, HandlerAt
  <2>. QED
    BY <1>5, <1>6, <2>1, <2>2, <2>3 DEF StopRun
<1>7. CASE CancelPlayer(i)
  <2>1. CASE HandlerAt(i, "cancel", "join") /\ player' = [player EXCEPT !.cancelled = TRUE]
             /\ lists' = lists
    <3>1. player'.state = player.state /\ player'.block = player.block
          /\ player'.joined = player.joined
      BY <2>1 DEF TypeInv, PlayerRecord
    <3>. QED
      BY <1>3, <1>4, <2>1, <3>1 DEF ListsInv, Early
  <2>2. CASE Ended("crashed")
    BY <2>2 DEF Ended, ListsInv
  <2>. QED
    BY <1>7, <2>1, <2>2 DEF CancelPlayer
<1>8. CASE JoinPlayer(i)
  <2>1. HandlerAt(i, "join", "wait") /\ lists' = lists
    BY <1>8 DEF JoinPlayer, HandlerAt, ListsInv
  <2>2. player'.state = player.state /\ player'.block = player.block
    BY <1>8 DEF JoinPlayer, TypeInv, PlayerRecord
  <2>. QED
    BY <1>3, <1>4, <2>1, <2>2 DEF ListsInv, Early
<1>9. CASE WaitPlayer(i)
  BY <1>5, <1>9 DEF WaitPlayer
<1>10. CASE FreeThread(i)
  <2>1. PICK here \in {"free", "forget"}, next \in {"forget", "captures"} :
           HandlerAt(i, here, next) /\ lists' = lists
    BY <1>10 DEF FreeThread
  <2>2. player'.state = player.state
    BY <1>10 DEF FreeThread, TypeInv, PlayerRecord
  <2>3. frames[i].pc = here /\ player.state \notin {"goes", "locks"}
    BY <2>1 DEF HandlerAt, ListsInv
  <2>4. /\ UNCHANGED <<main, ipc>> /\ frames' # <<>>
        /\ \A j \in DOMAIN frames' : frames'[j].pc = next
    BY <1>4, <2>1
  <2>. QED
    BY <1>3, <2>1, <2>2, <2>3, <2>4 DEF ListsInv, Early
<1>11. CASE DeleteCaptures(i) \/ DeleteCards(i)
  BY <1>5, <1>11, ListNames DEF DeleteCaptures, DeleteCards, Delete, TypeInv
<1>12. CASE DeletePlaybacks(i)
  <2>1. HandlerAt(i, "playbacks", "dsp") /\ player' = player
    BY <1>12 DEF DeletePlaybacks, Delete
  <2>2. player.state \notin {"goes", "locks"}
    BY <2>1 DEF HandlerAt, ListsInv
  <2>3. /\ UNCHANGED <<main, ipc>> /\ frames' # <<>>
        /\ \A j \in DOMAIN frames' : frames'[j].pc = "dsp"
    BY <1>4, <2>1
  <2>. QED
    BY <1>3, <2>1, <2>2, <2>3 DEF ListsInv, Early
<1>13. CASE StopDsp(i)
  BY <1>5, <1>13 DEF StopDsp
<1>14. CASE SaveSettings(i)
  <2>1. frames[i].pc \in SavePc /\ After(frames[i].pc, "close") \in SavePc \cup {"close"}
    BY <1>14, SaveFacts DEF SaveSettings
  <2>2. frames[i].pc \notin Joining /\ After(frames[i].pc, "close") \notin Joining
        /\ After(frames[i].pc, "close") \in HandlerPc
    BY <2>1
  <2>. QED
    BY <1>5, <1>14, <2>2 DEF SaveSettings
<1>15. CASE CloseDsp(i)
  <2>1. CASE Ended("crashed")
    BY <2>1 DEF Ended, ListsInv
  <2>2. CASE HandlerAt(i, "close", "exit") /\ player' = player /\ lists' = lists
    BY <1>5, <2>2
  <2>. QED
    BY <1>15, <2>1, <2>2 DEF CloseDsp
<1>16. CASE Exit(i)
  BY <1>16 DEF Exit, Ended, ListsInv
<1>. QED
  BY <1>1, <1>6, <1>7, <1>8, <1>9, <1>10, <1>11, <1>12, <1>13, <1>14, <1>15, <1>16

\* Every step keeps the lists as long as they are used, where at most one signal comes.
LEMMA ListsStep == ASSUME MaxSignals <= 1, TypeInv, ListsInv, [Next]_vars PROVE ListsInv'
<1>1. CASE Start
  BY <1>1 DEF Start, ListsInv, Early
<1>2. CASE Main
  BY <1>2, MainLists
<1>3. CASE Kill
  BY <1>3 DEF Kill, Ended, ListsInv
<1>4. CASE PlayerLocks \/ PlayerUnlocks \/ PlayerEnds
  <2>1. /\ UNCHANGED <<main, lists, ipc, frames>>
        /\ player'.block = player.block /\ player'.joined = player.joined
        /\ player.state \in {"goes", "locks"}
    BY <1>4 DEF PlayerLocks, PlayerUnlocks, PlayerEnds, PlayerDoes, TypeInv, PlayerRecord
  <2>. QED
    BY <2>1 DEF ListsInv
<1>5. CASE Request \/ UseLists \/ Backup
  <2>1. UNCHANGED <<main, lists, player, frames>> /\ ipc.open /\ ipc'.open = ipc.open
    <3>1. CASE Request
      BY <3>1 DEF Request, TypeInv, IpcRecord
    <3>2. CASE UseLists
      <4>1. CASE Ended("crashed")
        BY <3>2, <4>1 DEF UseLists, Ended, ListsInv
      <4>. QED
        BY <3>2, <4>1 DEF UseLists, TypeInv, IpcRecord, ListsInv
    <3>3. CASE Backup
      <4>1. ipc.pc # "idle"
        BY <3>3, SavePcs DEF Backup
      <4>2. UNCHANGED <<main, lists, player, frames>>
        BY <3>3 DEF Backup
      <4>3. ipc'.open = ipc.open
        BY <3>3 DEF Backup, TypeInv, IpcRecord
      <4>. QED
        BY <4>1, <4>2, <4>3 DEF ListsInv
    <3>. QED
      BY <1>5, <3>1, <3>2, <3>3
  <2>. QED
    BY <2>1 DEF ListsInv
<1>6. ASSUME NEW thread \in Threads, Signal(thread)
      PROVE  ListsInv'
  <2>. DEFINE f == [thread |-> thread, pc |-> "stop", running |-> main = "running"]
  <2>1. frames = <<>> /\ frames' = <<f>>
    BY <1>6, OneFrame DEF Signal
  <2>2. UNCHANGED <<main, lists, player, ipc>> /\ main \notin Early \cup {"signals"}
    BY <1>6 DEF Signal, Early
  <2>3. f.pc = "stop"
    OBVIOUS
  <2>. HIDE DEF f
  <2>4. frames' # <<>> /\ \A j \in DOMAIN frames' : frames'[j].pc = "stop"
    BY <2>1, <2>3
  <2>. QED
    BY <2>1, <2>2, <2>4 DEF ListsInv, Joining, Early
<1>7. CASE Handler
  BY <1>7, HandlerLists
<1>8. CASE UNCHANGED vars
  BY <1>8 DEF vars, ListsInv
<1>. QED
  BY <1>1, <1>2, <1>3, <1>4, <1>5, <1>6, <1>7, <1>8 DEF Next

\* Where one signal comes, the lists outlive the threads that use them: the playback thread is
\* joined before the playbacks are deleted, and a request finds all lists until a signal comes.
THEOREM ListsAlwaysOutlive == ASSUME MaxSignals <= 1 PROVE Spec => []ListsOutliveThreads
<1>1. Init => ListsInv
  BY DEF Init, ListsInv, Early
<1>2. TypeInv /\ ListsInv /\ [Next]_vars => ListsInv'
  BY ListsStep
<1>3. ListsInv => ListsOutliveThreads
  BY DEF ListsInv, ListsOutliveThreads, Early
<1>. QED
  BY <1>1, <1>2, <1>3, TypesAlways, PTL DEF Spec

=============================================================================
