------------------------------ MODULE NvParms ------------------------------
(***************************************************************************)
(* What cfg.c promises about the configuration parameters: the node uses   *)
(* one set of values, and power may fail at any moment.  A change is in    *)
(* use at once and is being stored for a while; a reboot in that time      *)
(* finds the values from before the change, those from after it, or the    *)
(* defaults, and never a mixture.  When nothing is being stored, a reboot  *)
(* changes nothing.                                                        *)
(*                                                                         *)
(* The promise has a limit.  If there were no stored values to start from  *)
(* (a blank memory, or one that was reset), a store that is interrupted    *)
(* may leave anything behind.                                              *)
(***************************************************************************)
CONSTANTS Value,    \* sets of parameter values
          Default   \* the one that is used when none is stored

VARIABLES parms,    \* in use
          saved,    \* what a reboot would find
          storing,  \* a change is being stored
          sound     \* and it replaces stored values

nvVars == <<parms, saved, storing, sound>>

NvInit == /\ saved \in Value
          /\ parms = saved
          /\ storing = FALSE
          /\ sound \in BOOLEAN

\* values are put to use and begin to be stored; what is saved now, if not the
\* default, are stored values
Change == /\ ~storing
          /\ storing' = TRUE
          /\ parms' \in Value
          /\ sound' \in BOOLEAN /\ (saved # Default => sound')
          /\ UNCHANGED saved

\* one more byte is written
Persist == /\ storing
           /\ saved' \in IF sound THEN {saved, parms, Default} ELSE Value
           /\ UNCHANGED <<parms, storing, sound>>

\* a change is complete
Complete == /\ storing /\ saved = parms
            /\ storing' = FALSE
            /\ sound' \in BOOLEAN
            /\ UNCHANGED <<parms, saved>>

Reboot == /\ parms' = saved
          /\ storing' = FALSE
          /\ sound' \in BOOLEAN
          /\ UNCHANGED saved

NvNext == Change \/ Persist \/ Complete \/ Reboot

NvSpec == NvInit /\ [][NvNext]_nvVars
=============================================================================
