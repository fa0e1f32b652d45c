-------------------------------- MODULE Stores ------------------------------
(***************************************************************************)
(* What the AT interface keeps when the power fails: the configuration     *)
(* block in the file system and the user configuration in the flash.       *)
(* While the user configuration is erased and programmed no task runs; the *)
(* power may fail at any time and hits both.                               *)
(***************************************************************************)
EXTENDS UserCfg, CibStore

vars == <<userVars, cibVars>>

\* The command line starts when CIBRead is through.
Booted == pc["wifi"] # "off"

\* OS_EnterCritical in cfg_user_write_cfg.
Critical == step \in {ToErase} \union Cells

PowerCut == UserPowerCut /\ CibPowerCut

Init == UserInit /\ CibInit

Next ==
  \/ Booted /\ UserNext /\ UNCHANGED cibVars
  \/ ~ Critical /\ CibNext /\ UNCHANGED userVars
  \/ PowerCut

Spec == Init /\ [][Next]_vars
=============================================================================
