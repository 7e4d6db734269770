------------------------------ MODULE Saf7741 -------------------------------
(***************************************************************************)
(* The start-up of the SAF7741, saf7741_StartUp: an ordered sequence of    *)
(* I2C transfers that stops at the first one that fails.  Of the chip,     *)
(* chip, only what makes a DSP execute its patch is kept: the register     *)
(* DSP_CTR, the patch memories and the hooks.  The other registers are     *)
(* steps that may fail.  The chip outlives the daemon.                     *)
(***************************************************************************)
EXTENDS Integers

CONSTANT MayFail  \* allocations, I2C transfers and the device itself may fail

VARIABLES
    at,    \* where saf7741_StartUp is, or how it has ended
    chip

Place ==
    {"off", "tuner", "reset", "clock", "patch_1e", "words_1e", "patch_2", "words_2", "front_end",
     "release_1", "kick_radio", "release_1e", "release_all", "dynamic", "hook_1e", "hook_2",
     "kick_audio", "settings", "qiming", "start_tuner", "unmute", "adsp_io", "channels", "source",
     "volumes", "mutes", "done", "failed"}

\* The fields of DSP_CTR, of three bits each: pc_reset, iic_dyn, en_extpram.
Position == [TDSP1 |-> 0, TDSP2 |-> 1, TDSP1E |-> 2, SDSP |-> 3, ADSP |-> 4]

Field(ctr, dsp) == (ctr \div 8^Position[dsp]) % 8
Held(ctr)       == {dsp \in DOMAIN Position : Field(ctr, dsp) % 2 = 1}
Dynamic(ctr)    == {dsp \in DOMAIN Position : (Field(ctr, dsp) \div 2) % 2 = 1}

Patched == {"TDSP1E", "TDSP2"}

CtrWord == 0..(8^5 - 1)

\* A patch memory is empty, partly written, or holds a table.
Chip == [ctr : CtrWord, patch : [Patched -> {"none", "part"} \cup Patched],
         hook : SUBSET Patched]

PowerUp == [ctr |-> \h1249, patch |-> [dsp \in Patched |-> "none"], hook |-> {}]

-----------------------------------------------------------------------------
\* A transfer that makes the chip new.
Transfer(here, next, new) ==
    /\ at = here
    /\ \/ /\ at' = next
          /\ chip' = new
       \/ /\ MayFail
          /\ at' = "failed"
          /\ UNCHANGED chip

\* A register that is not kept.
Set(here, next) == Transfer(here, next, chip)

Control(here, next, ctr) == Transfer(here, next, [chip EXCEPT !.ctr = ctr])

\* Bug: the DSPs go on while the patches are written.
ResetAllDSP_Skipped == Control("reset", "clock", chip.ctr)

ResetAllDSP == Control("reset", "clock", \h1249)

\* The first word of a patch, and then the others.
PatchFirst(here, next, dsp) == Transfer(here, next, [chip EXCEPT !.patch[dsp] = "part"])
PatchWords(here, next, dsp, table) == Transfer(here, next, [chip EXCEPT !.patch[dsp] = table])

\* The other words for TDSP2 are taken from the table of TDSP1E.
Patch ==
    \/ PatchFirst("patch_1e", "words_1e", "TDSP1E")
    \/ PatchWords("words_1e", "patch_2", "TDSP1E", "TDSP1E")
    \/ PatchFirst("patch_2", "words_2", "TDSP2")
    \/ PatchWords("words_2", "front_end", "TDSP2", "TDSP1E")

SetHook(here, next, dsp) == Transfer(here, next, [chip EXCEPT !.hook = @ \cup {dsp}])

\* the DSPs are released one after the other, and then use the patches
Release ==
    \/ Control("release_1", "kick_radio", \h1248)
    \/ Set("kick_radio", "release_1e")
    \/ Control("release_1e", "release_all", \h1208)
    \/ Control("release_all", "dynamic", 0)
    \/ Control("dynamic", "hook_1e", \h90)
    \/ SetHook("hook_1e", "hook_2", "TDSP1E")
    \/ SetHook("hook_2", "kick_audio", "TDSP2")
    \/ Set("kick_audio", "settings")

\* A transfer of a register that is not kept and whose failure is not noticed.
Try(here, next) ==
    /\ at = here
    /\ at' = next
    /\ UNCHANGED chip

EnableTunerI2C == Set("tuner", "reset")
SetClkPLL      == Set("clock", "patch_1e")
FrontEnd       == Set("front_end", "release_1")
Settings       == Set("settings", "qiming")
QiMingSettings == Set("qiming", "start_tuner")
StartUpTuner   == Set("start_tuner", "unmute")
Unmute         == Set("unmute", "adsp_io")
AdspIOCtrl     == Set("adsp_io", "channels")

SetChannelMode == Try("channels", "source")
SetSource      == Try("source", "volumes")
SetOtherVols   == Try("volumes", "mutes")
SetOtherMutes  == Try("mutes", "done")

StartUp ==
    \/ EnableTunerI2C \/ ResetAllDSP \/ SetClkPLL \/ Patch \/ FrontEnd
    \/ Release
    \/ Settings \/ QiMingSettings \/ StartUpTuner \/ Unmute \/ AdspIOCtrl
    \/ SetChannelMode \/ SetSource \/ SetOtherVols \/ SetOtherMutes

\* saf7741_OpenDev: the I2C device, and the control interface of the tuner
OpenDev ==
    /\ at' \in {"tuner"} \cup (IF MayFail THEN {"failed"} ELSE {})
    /\ UNCHANGED chip

\* A start-up that goes on meanwhile fails.
CloseDev ==
    /\ at' = IF at \in {"off", "done"} THEN at ELSE "failed"
    /\ UNCHANGED chip

-----------------------------------------------------------------------------
\* A DSP that executes the hook of a patch has all of a patch, whatever transfer fails and
\* whenever the daemon is killed and starts again: saf7741_StartUp writes the patch of a DSP
\* only while it is held in reset, and it stays there until the patch is whole.
HookedIsPatched ==
    \A dsp \in Patched :
        dsp \in (chip.hook \cap Dynamic(chip.ctr)) \ Held(chip.ctr) => chip.patch[dsp] \in Patched

=============================================================================
