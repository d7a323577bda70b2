----------------------------- MODULE MCPrograms -----------------------------
(***************************************************************************)
(* The programs beside the library: the calibration tool, the installer    *)
(* and the two old Pd externals.  They share nothing, so a behaviour runs  *)
(* one of them, and the others stay at one of their initial states.        *)
(***************************************************************************)
EXTENDS CalFile, Installer, LegacyAdc, LegacySwitch

VARIABLE program

MCSmooths == {-1, 9}

Init ==
  /\ program \in {"calibrate", "install", "adc", "switch"}
  /\ CalInit /\ InstallInit /\ AdcInit /\ SwitchInit
  /\ program # "install" => board = "wm8731" /\ prefix = "/usr/local"
  /\ program # "adc" => version
  /\ program # "switch" => pin = 1

Next ==
  \/ program = "calibrate" /\ CalNext /\ UNCHANGED <<installVars, adcVars, switchVars>>
  \/ program = "install" /\ InstallNext /\ UNCHANGED <<calVars, adcVars, switchVars>>
  \/ program = "adc" /\ AdcNext /\ UNCHANGED <<calVars, installVars, switchVars>>
  \/ program = "switch" /\ SwitchNext /\ UNCHANGED <<calVars, installVars, adcVars>>

vars == <<program, calVars, installVars, adcVars, switchVars>>

Spec == Init /\ [][Next /\ UNCHANGED program]_vars
=============================================================================
