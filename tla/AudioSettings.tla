--------------------------- MODULE AudioSettings ----------------------------
(***************************************************************************)
(* What the DSP extension promises about the volume and the tones: a       *)
(* daemon that stops keeps what was set, and the next one begins with it.  *)
(* A daemon that dies loses what was set since its last save, and in the   *)
(* middle of a save everything; one whose DSP has failed has no settings   *)
(* of its own, and a save of it keeps whatever it has been asked for.      *)
(***************************************************************************)
CONSTANTS
    Setting,  \* the audible settings: a volume level and a position of every tone
    Default   \* those of a unit that has none saved

VARIABLES
    live,     \* the DSP is set up
    saving,   \* a save is on
    setting,  \* the setting of a DSP that is set up, or that the next start will set
    kept      \* the setting that a restart finds

SettingsInit == live = FALSE /\ saving = FALSE /\ setting = Default /\ kept = Default

Adjust(s) ==
    /\ live
    /\ setting' = s
    /\ UNCHANGED <<live, saving, kept>>

BeginSave ==
    /\ saving' = TRUE
    /\ kept' = Default
    /\ setting' = IF live THEN setting ELSE Default
    /\ UNCHANGED live

\* The save of a daemon that stops ends with its life.
EndSave ==
    /\ live /\ saving
    /\ saving' = FALSE
    /\ kept' = setting
    /\ live' \in {live, FALSE}
    /\ UNCHANGED setting

EndBlindSave(s) ==
    /\ ~live /\ saving
    /\ saving' = FALSE
    /\ kept' = s /\ setting' = s
    /\ UNCHANGED live

Die ==
    /\ live' = FALSE /\ saving' = FALSE
    /\ setting' = kept
    /\ UNCHANGED kept

Restart ==
    /\ ~live
    /\ live' = TRUE
    /\ UNCHANGED <<saving, setting, kept>>

SettingsNext ==
    \/ \E s \in Setting : Adjust(s) \/ EndBlindSave(s)
    \/ BeginSave \/ EndSave \/ Die \/ Restart

SettingsSpec == SettingsInit /\ [][SettingsNext]_<<live, saving, setting, kept>>

=============================================================================
