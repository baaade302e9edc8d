------------------------------- MODULE AppExit -------------------------------
(***************************************************************************)
(* src-tauri/src/lib.rs: how the desktop application is left while the     *)
(* commands of ServerCommands go on: quit_app, the installation of an      *)
(* application update, and the decision taken on ExitRequested.  The       *)
(* children are separate processes: they survive the application.          *)
(***************************************************************************)
EXTENDS ServerCommands

VARIABLES
  update,  \* where install_app_update stands
  allow,   \* allow_app_exit
  exited   \* the application is gone

exitVars == <<update, allow, exited>>
appVars  == <<commandVars, exitVars>>

AppInit ==
  /\ CommandsInit
  /\ update = "none"
  /\ allow  = FALSE
  /\ exited = FALSE

(* stop_operations: the StopOperationGuards that live.                     *)
StopOperations == {t \in Callers : task[t].cmd \in Stops /\ task[t].phase # "queued"}

(* quit_app: both registries are read under both locks, as they are.       *)
Quit ==
  /\ Entries(running) \cup Entries(stopping) = {}
  /\ allow' = TRUE
  /\ UNCHANGED <<update, exited>>

(* install_app_update looks at three things one after the other, and then  *)
(* downloads.                                                              *)
UpdateLooks ==
  /\ \/ update = "none" /\ Entries(running) = {} /\ update' = "noneRunning"
     \/ /\ update = "noneRunning"
        /\ update' = IF Entries(stopping) = {} THEN "noneStopping" ELSE "none"
     \/ /\ update = "noneStopping"
        /\ update' = IF StopOperations = {} THEN "downloading" ELSE "none"
  /\ UNCHANGED <<allow, exited>>

UpdateInstalls ==
  /\ update = "downloading"
  /\ update' = "installing"
  /\ allow'  = TRUE
  /\ UNCHANGED exited

(* Whoever authorised an exit, a failed update withdraws it.               *)
UpdateFails ==
  /\ update \in {"downloading", "installing"}
  /\ update' = "none"
  /\ allow'  = FALSE
  /\ UNCHANGED exited

(* CloseRequested and ExitRequested let only an authorised exit through.   *)
Exit == allow /\ exited' = TRUE /\ UNCHANGED <<update, allow>>

Leave ==
  /\ Quit \/ UpdateLooks \/ UpdateInstalls \/ UpdateFails \/ Exit
  /\ UNCHANGED commandVars

AppNext ==
  \/ ~exited /\ CommandsNext /\ UNCHANGED exitVars
  \/ ~exited /\ Leave
  \/ exited /\ ChildEnds /\ UNCHANGED exitVars

AppSpec == AppInit /\ [][AppNext]_appVars

-----------------------------------------------------------------------------
(***************************************************************************)
(* Properties                                                              *)
(***************************************************************************)

(* "Servers that are running, preparing to start or stopping must be       *)
(* stopped first": the application leaves no child behind.                 *)
ExitLeavesNoChild == exited => alive = {}
=============================================================================
