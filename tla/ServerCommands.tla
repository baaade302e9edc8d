---------------------------- MODULE ServerCommands ----------------------------
(***************************************************************************)
(* src-tauri/src/lib.rs: the commands of the desktop application that      *)
(* start, stop, restart, change and delete a server, and the automation    *)
(* monitor that stops idle ones.  They compose the sections of             *)
(* ProcessRegistry.                                                        *)
(*                                                                         *)
(* ServerOperationCoordinator gives every server an asynchronous mutex.    *)
(* Most commands hold it throughout; the monitor and the file editor do    *)
(* not take it.                                                            *)
(***************************************************************************)
EXTENDS ProcessRegistry

CONSTANTS Tasks,    \* concurrent commands of the frontend
          Monitor,  \* the automation monitor, which stops servers too
          Commands  \* the commands the frontend issues (bound)

ASSUME CallersAssumption == Callers = Tasks \cup {Monitor} /\ Monitor \notin Tasks

VARIABLES
  task,       \* task[t]: command, phase and server of a caller
  opLock,     \* opLock[s]: the task that holds the operation lock of s
  registered, \* servers in the store
  palworld    \* servers whose profile is a Palworld one

taskVars    == <<task, opLock>>
profiles    == <<registered, palworld>>
commandVars == <<vars, taskVars, profiles>>

NoTask   == [cmd |-> "none", phase |-> "none"]
Nobody   == "nobody"
Forced   == {"force", "forceRestart"}
Restarts == {"restart", "forceRestart"}
Stops    == {"stop", "autoStop"} \cup Forced \cup Restarts
Locked   == {"start", "mutate", "delete"} \cup (Stops \ {"autoStop"})

ASSUME CommandsAssumption == Commands \subseteq Locked /\ Nobody \notin Tasks

CommandsInit ==
  /\ Init
  /\ task       = [t \in Callers |-> NoTask]
  /\ opLock     = [s \in Servers |-> Nobody]
  /\ registered = Servers
  /\ palworld  \in SUBSET Servers

At(t, cmds, phase) == task[t].cmd \in cmds /\ task[t].phase = phase
ServerOf(t) == task[t].server

GoTo(t, phase) == task' = [task EXCEPT ![t].phase = phase] /\ UNCHANGED opLock

(* The command returns; its guards are dropped.                            *)
End(t) ==
  /\ task'   = [task EXCEPT ![t] = NoTask]
  /\ opLock' = [s \in Servers |-> IF opLock[s] = t THEN Nobody ELSE opLock[s]]

-----------------------------------------------------------------------------
(* The operation lock                                                      *)

Issue(t, cmd, s) ==
  /\ task[t] = NoTask
  /\ task' = [task EXCEPT ![t] = [cmd |-> cmd, phase |-> "queued", server |-> s]]
  /\ UNCHANGED <<vars, opLock>>

(* Slip: the command does not wait for the operation lock.                 *)
AcquireAnyway(t) ==
  /\ At(t, Locked, "queued")
  /\ opLock' = [opLock EXCEPT ![ServerOf(t)] = t]
  /\ task'   = [task EXCEPT ![t].phase = "locked"]
  /\ UNCHANGED vars

Acquire(t) ==
  /\ At(t, Locked, "queued")
  /\ opLock[ServerOf(t)] = Nobody
  /\ opLock' = [opLock EXCEPT ![ServerOf(t)] = t]
  /\ task'   = [task EXCEPT ![t].phase = "locked"]
  /\ UNCHANGED vars

-----------------------------------------------------------------------------
(* start_server                                                            *)

(* Slip: the command trusts the server it was given.                       *)
PrepareStartUnchecked(t) ==
  /\ At(t, {"start"}, "locked")
  /\ GoTo(t, "preparing")
  /\ UNCHANGED vars

(* The profile is read from the store under the operation lock.            *)
PrepareStart(t) ==
  /\ At(t, {"start"}, "locked")
  /\ IF ServerOf(t) \in registered THEN GoTo(t, "preparing") ELSE End(t)
  /\ UNCHANGED vars

(* A port in use, a failed preflight or a broken installation.             *)
RefuseStart(t) ==
  /\ At(t, {"start"} \cup Restarts, "preparing")
  /\ End(t)
  /\ UNCHANGED vars

RunStart(t) ==
  /\ At(t, {"start"} \cup Restarts, "preparing")
  /\ Start(ServerOf(t))
  /\ End(t)

-----------------------------------------------------------------------------
(* stop_server, restart_server and the monitor's auto-stop                 *)

PrepareStop(t) ==
  /\ At(t, {"stop", "force"}, "locked")
  /\ IF ServerOf(t) \in registered THEN GoTo(t, "requested") ELSE End(t)
  /\ UNCHANGED vars

RestartLooksForStop(t) ==
  /\ At(t, Restarts, "locked")
  /\ IsStopping(ServerOf(t))
  /\ IF stopping'[ServerOf(t)] # NoProcess \/ ServerOf(t) \notin registered
     THEN End(t) ELSE GoTo(t, "checked")

RestartLooksForChild(t) ==
  /\ At(t, Restarts, "checked")
  /\ IsRunning(ServerOf(t))
  /\ GoTo(t, IF running'[ServerOf(t)] # NoProcess THEN "requested" ELSE "preparing")

(* The monitor has seen s run with no player for long enough.              *)
AutoStopDue(s) ==
  /\ task[Monitor] = NoTask
  /\ s \in registered
  /\ running[s] \in alive
  /\ task' = [task EXCEPT ![Monitor] =
                [cmd |-> "autoStop", phase |-> "requested", server |-> s]]
  /\ UNCHANGED <<vars, opLock>>

(* Palworld: saving the world or the shutdown over REST fails.             *)
RestFails(t) ==
  /\ At(t, Stops \ Forced, "requested")
  /\ ServerOf(t) \in palworld
  /\ End(t)
  /\ UNCHANGED vars

(* Slip: the command does not wait for its stop.                           *)
RequestStopOnly(t) ==
  /\ At(t, Stops \ Forced, "requested")
  /\ BeginStop(t, ServerOf(t))
  /\ IF call'[t].phase = "begun" THEN GoTo(t, "cleanup") ELSE End(t)

(* process::stop begins.  It ends at once when another stop owns the child *)
(* or none runs; the latter is no error for a command whose REST shutdown  *)
(* of Palworld has already ended the child.                                *)
RequestStop(t) ==
  LET s    == ServerOf(t)
      gone == s \in palworld /\ stopping'[s] = NoProcess /\ t # Monitor
  IN  /\ At(t, Stops \ Forced, "requested")
      /\ BeginStop(t, s)
      /\ CASE call'[t].phase = "begun"       -> GoTo(t, "stopping")
           [] call'[t] = Idle /\ gone        -> GoTo(t, "cleanup")
           [] call'[t] = Idle /\ ~gone       -> End(t)

(* A forced stop that fails ends the command, as does one that finds       *)
(* nothing, unless it has just reaped the child of an earlier stop.        *)
RequestForce(t) ==
  LET s == ServerOf(t)
  IN  /\ At(t, Forced, "requested")
      /\ \/ ForceKills(s) /\ GoTo(t, "cleanup")
         \/ (\E killed \in BOOLEAN : ForceFails(s, killed)) /\ End(t)
         \/ /\ ForceFindsNothing(s)
            /\ IF stopping[s] # NoProcess THEN GoTo(t, "cleanup") ELSE End(t)

(* No command is cancelled, so CancelStop plays no part.                   *)
StopAdvances(t) ==
  /\ At(t, Stops, "stopping")
  /\ WriteStop(t) \/ PollStop(t) \/ StopDeadline(t)
  /\ UNCHANGED taskVars

(* Apart from the steps of the command, as nothing makes try_wait fail.    *)
StopBreaks(t) == PollError(t) /\ UNCHANGED <<taskVars, profiles>>

StopReturned(t) ==
  /\ At(t, Stops, "stopping")
  /\ IF call[t].phase = "ok" THEN GoTo(t, "cleanup") ELSE End(t)
  /\ TakeResult(t)

(* The invitation is withdrawn and the tunnel is stopped; either may fail, *)
(* which ends the command.  A restart goes on with the start.              *)
CleanUp(t) ==
  /\ At(t, Stops, "cleanup")
  /\ (task[t].cmd \in Restarts /\ GoTo(t, "preparing")) \/ End(t)
  /\ UNCHANGED vars

-----------------------------------------------------------------------------
(* Commands that change the files of a stopped server                      *)

Busy(s) == stopping'[s] # NoProcess \/ running'[s] # NoProcess

(* Slip: only the running registry is asked.                               *)
BeginWorkUnlessRunning(t) ==
  /\ At(t, {"mutate", "delete"}, "locked")
  /\ IsRunning(ServerOf(t))
  /\ IF running'[ServerOf(t)] # NoProcess \/ ServerOf(t) \notin registered
     THEN End(t) ELSE GoTo(t, "working")

(* create_backup, restore_backup, update_server_settings, delete_server    *)
BeginWork(t) ==
  /\ At(t, {"mutate", "delete"}, "locked")
  /\ IsBusy(ServerOf(t))
  /\ IF Busy(ServerOf(t)) \/ ServerOf(t) \notin registered
     THEN End(t) ELSE GoTo(t, "working")

FinishWork(t) ==
  /\ At(t, {"mutate", "delete"}, "working")
  /\ End(t)
  /\ UNCHANGED vars

DeleteServer(t) ==
  /\ At(t, {"delete"}, "working")
  /\ registered' = registered \ {ServerOf(t)}
  /\ End(t)
  /\ UNCHANGED <<vars, palworld>>

(* The file editor asks is_busy but takes no lock.                         *)
BeginEdit(t, s) ==
  /\ task[t] = NoTask
  /\ IsBusy(s)
  /\ task' = IF Busy(s) \/ s \notin registered THEN task
             ELSE [task EXCEPT ![t] = [cmd |-> "edit", phase |-> "editing", server |-> s]]
  /\ UNCHANGED opLock

FinishEdit(t) == At(t, {"edit"}, "editing") /\ End(t) /\ UNCHANGED vars

-----------------------------------------------------------------------------
TaskStep(t) ==
  \/ PrepareStart(t) \/ RefuseStart(t) \/ RunStart(t)
  \/ PrepareStop(t) \/ RestartLooksForStop(t) \/ RestartLooksForChild(t)
  \/ RestFails(t) \/ RequestStop(t) \/ RequestForce(t)
  \/ StopAdvances(t) \/ StopReturned(t) \/ CleanUp(t)
  \/ BeginWork(t) \/ FinishWork(t) \/ FinishEdit(t)

Command(t) == (TaskStep(t) /\ UNCHANGED profiles) \/ DeleteServer(t)

Obtain(t) == Acquire(t) /\ UNCHANGED profiles

Request ==
  /\ \/ \E t \in Tasks, s \in Servers :
          BeginEdit(t, s) \/ \E cmd \in Commands : Issue(t, cmd, s)
     \/ \E s \in Servers : AutoStopDue(s)
  /\ UNCHANGED profiles

ChildEnds == \E p \in Pids : ChildExit(p) /\ UNCHANGED <<taskVars, profiles>>

CommandsNext ==
  \/ \E t \in Callers : Command(t) \/ StopBreaks(t)
  \/ \E t \in Tasks : Obtain(t)
  \/ Request \/ ChildEnds

(* Commands run to their end (a stop by its deadline if not before), and   *)
(* the operation lock is granted in the order of the requests.             *)
CommandsFairness ==
  /\ \A t \in Callers : WF_commandVars(Command(t))
  /\ \A t \in Tasks : SF_commandVars(Obtain(t))

CommandsSpec     == CommandsInit /\ [][CommandsNext]_commandVars
FairCommandsSpec == CommandsSpec /\ CommandsFairness

-----------------------------------------------------------------------------
(***************************************************************************)
(* Properties                                                              *)
(***************************************************************************)

Phases == {"queued", "locked", "checked", "preparing", "requested", "stopping",
           "cleanup", "working", "editing"}

TaskRecords ==
  [cmd : Locked \cup {"autoStop", "edit"}, phase : Phases, server : Servers]

(* Types, and a stop future runs for a command that waits for it.          *)
CommandsTypeOK ==
  /\ task \in [Callers -> {NoTask} \cup TaskRecords]
  /\ opLock \in [Servers -> Tasks \cup {Nobody}]
  /\ registered \subseteq Servers
  /\ \A t \in Callers : call[t].phase \in Pending => At(t, Stops, "stopping")

Holding(t) == task[t].cmd \in Locked /\ task[t].phase # "queued"

(* Two commands never operate on one server at once.                       *)
OneOperation ==
  \A t, u \in Tasks :
    Holding(t) /\ Holding(u) /\ ServerOf(t) = ServerOf(u) => t = u

(* While a backup, a restore, a change of settings or a deletion works on  *)
(* the files of a server, no child of that server lives, started by        *)
(* whomever: that is what the refusal messages of these commands promise.  *)
LockedWorkExclusive ==
  \A t \in Tasks : task[t].phase = "working" => OwnerOf(ServerOf(t)) = NoProcess

(* A server that is no longer registered owns no child.                    *)
DeletedHasNoChild ==
  \A s \in Servers : s \notin registered => OwnerOf(s) = NoProcess

(* Every command returns, also one waiting behind a stop that never ends.  *)
CommandEnds ==
  \A t \in Callers : (task[t] # NoTask) ~> (task[t] = NoTask)

(* "Stop the server before changing its files": no file of a server is     *)
(* changed, by whichever command, while a child of it lives.               *)
MutationExclusive ==
  \A t \in Tasks :
    task[t].phase \in {"working", "editing"} => OwnerOf(ServerOf(t)) \notin alive

(* A stop's cleanup withdraws the invitation and the tunnel of a server    *)
(* only once its child has gone.                                           *)
StoppedBeforeCleanup ==
  \A t \in Tasks : task[t].phase = "cleanup" => OwnerOf(ServerOf(t)) \notin alive
=============================================================================
