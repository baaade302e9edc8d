------------------------- MODULE ServerCommands_proofs -------------------------
(***************************************************************************)
(* Proofs about ServerCommands, for any servers, tasks and children:       *)
(*   1. every step of a command is a step of the registries, or leaves     *)
(*      them alone, so that what ProcessRegistry_proofs shows holds here;  *)
(*   2. the operation lock excludes: one operation per server, no child    *)
(*      under a backup, a restore, a change of settings or a deletion, and *)
(*      none of a server that is not registered;                           *)
(*   3. the types of commands and locks: a stop that waits for its child   *)
(*      is part of a command that is stopping.                             *)
(***************************************************************************)
EXTENDS ServerCommands, ProcessRegistry_proofs

(* Types of the tasks, and who issues which commands.                      *)
TaskTypes ==
  /\ task \in [Callers -> {NoTask} \cup TaskRecords]
  /\ opLock \in [Servers -> Tasks \cup {Nobody}]
  /\ registered \subseteq Servers
  /\ task[Monitor].cmd \in {"none", "autoStop"}
  /\ \A t \in Tasks : task[t].cmd # "autoStop"
  /\ \A t \in Tasks : task[t].phase = "working" => task[t].cmd \in {"mutate", "delete"}

(* A command at work holds the operation lock of its server.               *)
LockHeld == \A t \in Tasks : Holding(t) => opLock[ServerOf(t)] = t

(* It has found its server in the store, once it is past the first look.   *)
FoundRegistered ==
  \A t \in Tasks : Holding(t) /\ task[t].phase # "locked" => ServerOf(t) \in registered

(* The inductive invariant.                                                *)
CommandsInv ==
  /\ Base
  /\ TaskTypes
  /\ LockHeld
  /\ FoundRegistered
  /\ LockedWorkExclusive
  /\ DeletedHasNoChild

LEMMA InitCommandsInv == CommandsInit => CommandsInv
<1> SUFFICES ASSUME CommandsInit PROVE CommandsInv
  OBVIOUS
<1>1. Base
  BY InitBase DEF CommandsInit
<1>2. TaskTypes
  BY CallersAssumption DEF CommandsInit, TaskTypes, NoTask
<1>3. LockHeld /\ FoundRegistered /\ LockedWorkExclusive /\ DeletedHasNoChild
  BY CallersAssumption
  DEF CommandsInit, LockHeld, FoundRegistered, LockedWorkExclusive, DeletedHasNoChild,
      Holding, NoTask, Locked, Stops, Forced, Restarts
<1> QED BY <1>1, <1>2, <1>3 DEF CommandsInv

-----------------------------------------------------------------------------
(***************************************************************************)
(* 1. The registries.                                                      *)
(***************************************************************************)

(* A caller that is somewhere in a command has a server.                   *)
LEMMA BusyServer ==
  ASSUME TaskTypes, NEW t \in Callers, task[t] # NoTask
  PROVE  /\ task[t] \in TaskRecords
         /\ ServerOf(t) \in Servers
BY DEF TaskTypes, TaskRecords, ServerOf

LEMMA AtBusy ==
  ASSUME NEW t, NEW cmds, NEW phase, "none" \notin cmds, At(t, cmds, phase)
  PROVE  task[t] # NoTask
BY DEF At, NoTask

(* What a command does to the registries, unless it runs a start.          *)
LEMMA CommandRegistryStep ==
  ASSUME CommandsInv, NEW t \in Callers, Command(t), ~RunStart(t), NEW s
  PROVE  StepBesidesStart(s)
<1>1. CASE UNCHANGED vars
  BY <1>1 DEF StepBesidesStart
<1>2. CASE task[t] # NoTask /\ \/ IsStopping(ServerOf(t)) \/ IsRunning(ServerOf(t))
                               \/ IsBusy(ServerOf(t)) \/ BeginStop(t, ServerOf(t))
                               \/ ForceStop(ServerOf(t))
  BY <1>2, BusyServer DEF CommandsInv, StepBesidesStart, Lookup
<1>3. CASE StopStep(t)
  BY <1>3 DEF StepBesidesStart
<1>4. DeleteServer(t) => UNCHANGED vars
  BY DEF DeleteServer
<1>5. ASSUME TaskStep(t)
      PROVE  \/ UNCHANGED vars
             \/ StopStep(t)
             \/ task[t] # NoTask /\ \/ IsStopping(ServerOf(t)) \/ IsRunning(ServerOf(t))
                                    \/ IsBusy(ServerOf(t)) \/ BeginStop(t, ServerOf(t))
                                    \/ ForceStop(ServerOf(t))
  <2>1. CASE \/ PrepareStart(t) \/ RefuseStart(t) \/ PrepareStop(t) \/ RestFails(t)
             \/ CleanUp(t) \/ FinishWork(t) \/ FinishEdit(t)
    BY <2>1 DEF PrepareStart, RefuseStart, PrepareStop, RestFails, CleanUp, FinishWork, FinishEdit
  <2>2. CASE RestartLooksForStop(t) \/ RestartLooksForChild(t) \/ RequestStop(t) \/ BeginWork(t)
    BY <2>2, AtBusy
    DEF RestartLooksForStop, RestartLooksForChild, RequestStop, BeginWork,
        Restarts, Stops, Forced
  <2>3. CASE RequestForce(t)
    BY <2>3, AtBusy DEF RequestForce, ForceStop, Forced
  <2>4. CASE StopAdvances(t) \/ StopReturned(t)
    BY <2>4 DEF StopAdvances, StopReturned, StopStep
  <2> QED BY <1>5, <2>1, <2>2, <2>3, <2>4 DEF TaskStep
<1> QED BY <1>1, <1>2, <1>3, <1>4, <1>5 DEF Command

LEMMA RunStartStep ==
  ASSUME CommandsInv, NEW t \in Callers, RunStart(t)
  PROVE  /\ ServerOf(t) \in Servers
         /\ Start(ServerOf(t))
         /\ \A s \in Servers \ {ServerOf(t)} : StepBesidesStart(s)
<1>1. ServerOf(t) \in Servers
  BY AtBusy, BusyServer DEF CommandsInv, RunStart, Restarts
<1> QED BY <1>1 DEF RunStart, StepBesidesStart

(* The same of the steps that are no step of a command.                    *)
LEMMA OtherRegistryStep ==
  ASSUME CommandsInv, CommandsNext \/ UNCHANGED commandVars,
         \A t \in Callers : ~Command(t), NEW s
  PROVE  StepBesidesStart(s)
<1>1. CASE \E t \in Callers : StopBreaks(t)
  BY <1>1 DEF StopBreaks, StopStep, StepBesidesStart
<1>2. CASE \E t \in Tasks : Obtain(t)
  BY <1>2 DEF Obtain, Acquire, StepBesidesStart
<1>3. CASE Request
  <2>1. CASE \E t \in Tasks, u \in Servers : BeginEdit(t, u)
    BY <2>1 DEF BeginEdit, StepBesidesStart, Lookup
  <2>2. CASE UNCHANGED vars
    BY <2>2 DEF StepBesidesStart
  <2> QED BY <1>3, <2>1, <2>2 DEF Request, Issue, AutoStopDue
<1>4. CASE ChildEnds
  BY <1>4 DEF ChildEnds, StepBesidesStart
<1>5. CASE UNCHANGED commandVars
  BY <1>5 DEF commandVars, StepBesidesStart
<1> QED BY <1>1, <1>2, <1>3, <1>4, <1>5 DEF CommandsNext

LEMMA BesidesStartIsNext ==
  ASSUME NEW s, StepBesidesStart(s)
  PROVE  [Next]_vars
BY DEF StepBesidesStart, Next

LEMMA CommandsStepRegistry == CommandsInv /\ [CommandsNext]_commandVars => [Next]_vars
<1> SUFFICES ASSUME CommandsInv, [CommandsNext]_commandVars PROVE [Next]_vars
  OBVIOUS
<1>1. CASE \E t \in Callers : RunStart(t)
  BY <1>1, RunStartStep DEF Next
<1>2. CASE \E t \in Callers : Command(t) /\ ~RunStart(t)
  BY <1>2, CommandRegistryStep, BesidesStartIsNext
<1>3. CASE \A t \in Callers : ~Command(t)
  BY <1>3, OtherRegistryStep, BesidesStartIsNext
<1> QED BY <1>1, <1>2, <1>3

-----------------------------------------------------------------------------
(***************************************************************************)
(* 2. The operation lock.                                                  *)
(***************************************************************************)

(* A command goes on to a further phase, having found its server in the    *)
(* store if it had just obtained the lock, and the server free of children *)
(* if it begins to work on its files.                                      *)
Advances(t) ==
  \E phase \in Phases \ {"queued", "locked"} :
    /\ task[t] # NoTask
    /\ task[t].phase # "queued"
    /\ task[t].phase = "locked" => ServerOf(t) \in registered
    /\ phase = "working" => /\ task[t].cmd \in {"mutate", "delete"}
                            /\ ~Busy(ServerOf(t))
    /\ GoTo(t, phase)

LEMMA TaskStepShape ==
  ASSUME CommandsInv, NEW t \in Callers, TaskStep(t)
  PROVE  End(t) \/ Advances(t) \/ UNCHANGED taskVars
<1>1. CASE \/ RefuseStart(t) \/ RunStart(t) \/ RestFails(t) \/ FinishWork(t) \/ FinishEdit(t)
  BY <1>1 DEF RefuseStart, RunStart, RestFails, FinishWork, FinishEdit
<1>2. CASE StopAdvances(t)
  BY <1>2 DEF StopAdvances
<1>3. CASE PrepareStart(t) \/ PrepareStop(t)
  BY <1>3 DEF PrepareStart, PrepareStop, Advances, At, NoTask, Phases
<1>4. CASE RestartLooksForStop(t)
  BY <1>4 DEF RestartLooksForStop, Advances, At, NoTask, Phases, Restarts
<1>5. CASE RestartLooksForChild(t)
  <2>1. PICK phase \in {"requested", "preparing"} : GoTo(t, phase)
    BY <1>5 DEF RestartLooksForChild
  <2> QED BY <1>5, <2>1 DEF RestartLooksForChild, Advances, At, NoTask, Phases, Restarts
<1>6. CASE RequestStop(t)
  <2>1. End(t) \/ GoTo(t, "stopping") \/ GoTo(t, "cleanup")
    <3>1. call'[t].phase = "begun" \/ call'[t] = Idle
      BY <1>6 DEF RequestStop, BeginStop, CommandsInv, Base, TypeOK
    <3> QED BY <1>6, <3>1 DEF RequestStop
  <2> QED BY <1>6, <2>1 DEF RequestStop, Advances, At, NoTask, Phases, Stops, Forced, Restarts
<1>7. CASE RequestForce(t)
  BY <1>7 DEF RequestForce, Advances, At, NoTask, Phases, Forced
<1>8. CASE StopReturned(t) \/ CleanUp(t)
  BY <1>8 DEF StopReturned, CleanUp, Advances, At, NoTask, Phases, Stops, Forced, Restarts
<1>9. CASE BeginWork(t)
  BY <1>9 DEF BeginWork, Advances, At, NoTask, Phases
<1> QED BY <1>1, <1>2, <1>3, <1>4, <1>5, <1>6, <1>7, <1>8, <1>9 DEF TaskStep

(* What the end of a command, or its advance, does to its record.          *)
LEMMA EndFacts ==
  ASSUME TaskTypes, NEW t \in Callers, End(t)
  PROVE  /\ task' \in [Callers -> {NoTask} \cup TaskRecords]
         /\ opLock' \in [Servers -> Tasks \cup {Nobody}]
         /\ task'[t] = NoTask
         /\ \A u \in Callers \ {t} : task'[u] = task[u]
         /\ \A s \in Servers : opLock[s] # t => opLock'[s] = opLock[s]
BY DEF TaskTypes, End, Nobody

LEMMA GoToFacts ==
  ASSUME TaskTypes, NEW t \in Callers, NEW phase \in Phases, task[t] # NoTask, GoTo(t, phase)
  PROVE  /\ task' \in [Callers -> {NoTask} \cup TaskRecords]
         /\ opLock' = opLock
         /\ task'[t].cmd = task[t].cmd
         /\ task'[t].server = task[t].server
         /\ task'[t].phase = phase
         /\ \A u \in Callers \ {t} : task'[u] = task[u]
<1>1. task[t] \in TaskRecords
  BY DEF TaskTypes
<1>2. task' = [task EXCEPT ![t].phase = phase] /\ opLock' = opLock
  BY DEF GoTo
<1> QED BY <1>1, <1>2 DEF TaskTypes, TaskRecords

(* The lock part of the invariant, and the part about the store.           *)
LockInv == TaskTypes /\ LockHeld /\ FoundRegistered

LEMMA LockExcludes ==
  ASSUME LockHeld
  PROVE  OneOperation
BY DEF LockHeld, OneOperation

LEMMA EndLock ==
  ASSUME LockInv, NEW t \in Callers, End(t), registered' = registered
  PROVE  LockInv'
<1>1. TaskTypes'
  BY EndFacts, CallersAssumption DEF LockInv, TaskTypes, NoTask
<1>2. \A u \in Tasks : Holding(u)' => u # t /\ task'[u] = task[u] /\ Holding(u)
  BY EndFacts, CallersAssumption
  DEF LockInv, Holding, NoTask, Locked, Stops, Forced, Restarts
<1>3. \A u \in Tasks : Holding(u) /\ u # t => opLock'[ServerOf(u)] = u
  <2>1. \A u \in Tasks : Holding(u) => ServerOf(u) \in Servers
    BY CallersAssumption
    DEF LockInv, TaskTypes, TaskRecords, Holding, NoTask, ServerOf, Locked, Stops, Forced, Restarts
  <2> QED BY <2>1, EndFacts DEF LockInv, LockHeld
<1>4. LockHeld' /\ FoundRegistered'
  BY <1>2, <1>3 DEF LockInv, LockHeld, FoundRegistered, ServerOf
<1> QED BY <1>1, <1>4 DEF LockInv

LEMMA AdvanceLock ==
  ASSUME LockInv, NEW t \in Callers, Advances(t), registered' = registered
  PROVE  LockInv'
<1>1. PICK phase \in Phases \ {"queued", "locked"} :
        /\ task[t] # NoTask
        /\ task[t].phase # "queued"
        /\ task[t].phase = "locked" => ServerOf(t) \in registered
        /\ phase = "working" => task[t].cmd \in {"mutate", "delete"}
        /\ GoTo(t, phase)
  BY DEF Advances
<1>2. /\ task' \in [Callers -> {NoTask} \cup TaskRecords]
      /\ opLock' = opLock
      /\ task'[t].cmd = task[t].cmd
      /\ task'[t].server = task[t].server
      /\ task'[t].phase = phase
      /\ \A u \in Callers \ {t} : task'[u] = task[u]
  BY <1>1, GoToFacts DEF LockInv
<1>3. TaskTypes'
  BY <1>1, <1>2, CallersAssumption DEF LockInv, TaskTypes
<1>4. \A u \in Tasks : Holding(u)' => Holding(u) /\ ServerOf(u)' = ServerOf(u)
  BY <1>1, <1>2, CallersAssumption DEF Holding, ServerOf
<1>5. LockHeld'
  BY <1>2, <1>4 DEF LockInv, LockHeld
<1>6. FoundRegistered'
  BY <1>1, <1>2, <1>4, CallersAssumption DEF LockInv, FoundRegistered, Holding, ServerOf
<1> QED BY <1>3, <1>5, <1>6 DEF LockInv

LEMMA ObtainLock ==
  ASSUME LockInv, NEW t \in Tasks, Obtain(t)
  PROVE  LockInv'
<1>1. /\ task[t].cmd \in Locked
      /\ task[t].phase = "queued"
      /\ task[t] # NoTask
      /\ opLock[ServerOf(t)] = Nobody
      /\ opLock' = [opLock EXCEPT ![ServerOf(t)] = t]
      /\ task' = [task EXCEPT ![t].phase = "locked"]
      /\ registered' = registered
  BY DEF Obtain, Acquire, At, NoTask, profiles
<1>2. task[t] \in TaskRecords
  BY <1>1, CallersAssumption DEF LockInv, TaskTypes
<1>3. /\ task' \in [Callers -> {NoTask} \cup TaskRecords]
      /\ task'[t].cmd = task[t].cmd
      /\ task'[t].server = task[t].server
      /\ task'[t].phase = "locked"
      /\ \A u \in Callers \ {t} : task'[u] = task[u]
  BY <1>1, <1>2, CallersAssumption DEF LockInv, TaskTypes, TaskRecords, Phases
<1>4. opLock' \in [Servers -> Tasks \cup {Nobody}] /\ opLock'[ServerOf(t)] = t
  BY <1>1, <1>2 DEF LockInv, TaskTypes, TaskRecords, ServerOf
<1>5. TaskTypes'
  BY <1>1, <1>3, <1>4, CallersAssumption DEF LockInv, TaskTypes
<1>6. \A u \in Tasks \ {t} : Holding(u)' => /\ Holding(u)
                                            /\ task'[u] = task[u]
                                            /\ opLock'[ServerOf(u)] = u
  BY <1>1, <1>3, CallersAssumption, CommandsAssumption
  DEF LockInv, LockHeld, Holding, TaskTypes, ServerOf
<1>7. LockHeld' /\ FoundRegistered'
  BY <1>1, <1>3, <1>4, <1>6 DEF LockInv, LockHeld, FoundRegistered, ServerOf, Holding
<1> QED BY <1>5, <1>7 DEF LockInv

(* A caller begins a command: queued for the lock, unless it takes none.   *)
Begins(t, rec) ==
  /\ task[t] = NoTask
  /\ task' = [task EXCEPT ![t] = rec]
  /\ opLock' = opLock
  /\ \/ t \in Tasks /\ rec.cmd \in Locked /\ rec.phase = "queued"
     \/ t \in Tasks /\ rec.cmd = "edit" /\ rec.phase = "editing"
     \/ t = Monitor /\ rec.cmd = "autoStop" /\ rec.phase = "requested"

LEMMA RequestShape ==
  ASSUME LockInv, Request
  PROVE  UNCHANGED taskVars \/ \E t \in Callers, rec \in TaskRecords : Begins(t, rec)
<1>1. ASSUME NEW t \in Tasks, NEW s \in Servers, NEW cmd \in Commands, Issue(t, cmd, s)
      PROVE  \E u \in Callers, rec \in TaskRecords : Begins(u, rec)
  <2> DEFINE rec == [cmd |-> cmd, phase |-> "queued", server |-> s]
  <2>1. rec \in TaskRecords
    BY CommandsAssumption DEF TaskRecords, Phases
  <2>2. Begins(t, rec)
    BY <1>1, CommandsAssumption DEF Issue, Begins
  <2> QED BY <2>1, <2>2, CallersAssumption
<1>2. ASSUME NEW t \in Tasks, NEW s \in Servers, BeginEdit(t, s)
      PROVE  UNCHANGED taskVars \/ \E u \in Callers, rec \in TaskRecords : Begins(u, rec)
  <2> DEFINE rec == [cmd |-> "edit", phase |-> "editing", server |-> s]
  <2>1. rec \in TaskRecords
    BY DEF TaskRecords, Phases
  <2>2. UNCHANGED taskVars \/ Begins(t, rec)
    BY <1>2 DEF BeginEdit, Begins, taskVars
  <2> QED BY <2>1, <2>2, CallersAssumption
<1>3. ASSUME NEW s \in Servers, AutoStopDue(s)
      PROVE  \E u \in Callers, rec \in TaskRecords : Begins(u, rec)
  <2> DEFINE rec == [cmd |-> "autoStop", phase |-> "requested", server |-> s]
  <2>1. rec \in TaskRecords
    BY DEF TaskRecords, Phases
  <2>2. Begins(Monitor, rec)
    BY <1>3 DEF AutoStopDue, Begins
  <2> QED BY <2>1, <2>2, CallersAssumption
<1> QED BY <1>1, <1>2, <1>3 DEF Request

LEMMA BeginsLock ==
  ASSUME LockInv, NEW t \in Callers, NEW rec \in TaskRecords, Begins(t, rec),
         registered' = registered
  PROVE  LockInv'
<1>1. /\ task' \in [Callers -> {NoTask} \cup TaskRecords]
      /\ task'[t] = rec
      /\ \A u \in Callers \ {t} : task'[u] = task[u]
      /\ opLock' = opLock
  BY DEF LockInv, TaskTypes, Begins
<1>2. TaskTypes'
  BY <1>1, CallersAssumption
  DEF Begins, LockInv, TaskTypes, Locked, Stops, Forced, Restarts
<1>3. \A u \in Tasks : Holding(u)' => Holding(u) /\ task'[u] = task[u]
  BY <1>1, CallersAssumption DEF Begins, Holding, Locked, Stops, Forced, Restarts
<1>4. LockHeld' /\ FoundRegistered'
  BY <1>1, <1>3 DEF LockInv, LockHeld, FoundRegistered, ServerOf
<1> QED BY <1>2, <1>4 DEF LockInv

(* Deleting a server: nobody else holds its lock.                          *)
LEMMA DeleteLock ==
  ASSUME LockInv, NEW t \in Callers, DeleteServer(t)
  PROVE  LockInv'
<1>1. t \in Tasks /\ Holding(t) /\ End(t) /\ registered' = registered \ {ServerOf(t)}
  BY CallersAssumption DEF DeleteServer, At, Holding, LockInv, TaskTypes, Locked
<1>2. /\ task' \in [Callers -> {NoTask} \cup TaskRecords]
      /\ opLock' \in [Servers -> Tasks \cup {Nobody}]
      /\ task'[t] = NoTask
      /\ \A u \in Callers \ {t} : task'[u] = task[u]
      /\ \A s \in Servers : opLock[s] # t => opLock'[s] = opLock[s]
  BY <1>1, EndFacts DEF LockInv
<1>3. TaskTypes'
  BY <1>1, <1>2, CallersAssumption DEF LockInv, TaskTypes, NoTask
<1>4. \A u \in Tasks : Holding(u)' => u # t /\ task'[u] = task[u] /\ Holding(u)
  BY <1>2, CallersAssumption DEF Holding, NoTask, Locked, Stops, Forced, Restarts
<1>5. \A u \in Tasks : Holding(u) => ServerOf(u) \in Servers
  BY CallersAssumption
  DEF LockInv, TaskTypes, TaskRecords, Holding, NoTask, ServerOf, Locked, Stops, Forced, Restarts
<1>6. \A u \in Tasks : Holding(u) /\ u # t => /\ ServerOf(u) # ServerOf(t)
                                              /\ opLock'[ServerOf(u)] = u
  BY <1>1, <1>2, <1>5 DEF LockInv, LockHeld
<1>7. LockHeld' /\ FoundRegistered'
  BY <1>1, <1>4, <1>6 DEF LockInv, LockHeld, FoundRegistered, ServerOf
<1> QED BY <1>3, <1>7 DEF LockInv

LEMMA UnchangedLock ==
  ASSUME LockInv, UNCHANGED taskVars, registered' = registered
  PROVE  LockInv'
BY DEF LockInv, TaskTypes, LockHeld, FoundRegistered, Holding, ServerOf, taskVars

LEMMA StepLock == CommandsInv /\ [CommandsNext]_commandVars => LockInv'
<1> SUFFICES ASSUME CommandsInv, [CommandsNext]_commandVars PROVE LockInv'
  OBVIOUS
<1>1. LockInv
  BY DEF CommandsInv, LockInv
<1>2. ASSUME NEW t \in Callers, TaskStep(t), UNCHANGED profiles
      PROVE  LockInv'
  BY <1>1, <1>2, TaskStepShape, EndLock, AdvanceLock, UnchangedLock DEF profiles
<1>3. ASSUME NEW t \in Callers, StopBreaks(t)
      PROVE  LockInv'
  BY <1>1, <1>3, UnchangedLock DEF StopBreaks, profiles
<1>4. CASE Request
  BY <1>1, <1>4, RequestShape, BeginsLock, UnchangedLock DEF Request, profiles
<1>5. CASE ChildEnds \/ UNCHANGED commandVars
  BY <1>1, <1>5, UnchangedLock DEF ChildEnds, commandVars, profiles
<1> QED BY <1>1, <1>2, <1>3, <1>4, <1>5, DeleteLock, ObtainLock DEF CommandsNext, Command

(* Only a command that prepares a start, under the lock, brings a child.   *)
LEMMA NewChildByStart ==
  ASSUME CommandsInv, [CommandsNext]_commandVars, NEW s \in Servers,
         OwnerOf(s) = NoProcess, OwnerOf(s)' # NoProcess
  PROVE  \E t \in Tasks : /\ ServerOf(t) = s
                          /\ Holding(t)
                          /\ task[t].phase = "preparing"
<1>1. ~StepBesidesStart(s)
  BY EmptyStays DEF CommandsInv
<1>2. PICK t \in Callers : RunStart(t)
  BY <1>1, CommandRegistryStep, OtherRegistryStep
<1>3. ServerOf(t) = s
  BY <1>1, <1>2, RunStartStep
<1>4. task[t].cmd \in {"start"} \cup Restarts /\ task[t].phase = "preparing"
  BY <1>2 DEF RunStart, At
<1>5. t \in Tasks
  BY <1>4, CallersAssumption DEF CommandsInv, TaskTypes, Restarts
<1> QED BY <1>3, <1>4, <1>5 DEF Holding, Locked, Stops, Forced, Restarts

(* A command that works on files did so before, or has just found its      *)
(* server free of children.                                                *)
LEMMA NewWork ==
  ASSUME CommandsInv, [CommandsNext]_commandVars, NEW u \in Tasks, task'[u].phase = "working"
  PROVE  /\ task'[u].server = task[u].server
         /\ task[u].phase = "working" \/ ~Busy(ServerOf(u))
<1>1. u \in Callers /\ TaskTypes /\ LockInv
  BY CallersAssumption DEF CommandsInv, LockInv
<1>2. ASSUME NEW t \in Callers, End(t)
      PROVE  task'[u] = task[u]
  BY <1>1, <1>2, EndFacts DEF NoTask
<1>3. ASSUME NEW t \in Callers, Advances(t)
      PROVE  /\ task'[u].server = task[u].server
             /\ task[u].phase = "working" \/ ~Busy(ServerOf(u))
  BY <1>1, <1>3, GoToFacts DEF Advances
<1>4. ASSUME NEW t \in Callers, NEW rec \in TaskRecords, Begins(t, rec)
      PROVE  task'[u] = task[u]
  BY <1>1, <1>4 DEF Begins, TaskTypes
<1>5. ASSUME NEW t \in Tasks, Obtain(t)
      PROVE  task'[u] = task[u]
  BY <1>1, <1>5 DEF Obtain, Acquire, TaskTypes, TaskRecords
<1>6. CASE UNCHANGED taskVars
  BY <1>6 DEF taskVars
<1>7. ASSUME NEW t \in Callers, Command(t)
      PROVE  End(t) \/ Advances(t) \/ UNCHANGED taskVars
  BY <1>7, TaskStepShape DEF Command, DeleteServer
<1>8. CASE Request
  BY <1>1, <1>4, <1>6, <1>8, RequestShape
<1>9. (\E t \in Callers : StopBreaks(t)) \/ ChildEnds \/ UNCHANGED commandVars
        => UNCHANGED taskVars
  BY DEF StopBreaks, ChildEnds, commandVars
<1> QED BY <1>2, <1>3, <1>5, <1>6, <1>7, <1>8, <1>9 DEF CommandsNext

LEMMA StepWork == CommandsInv /\ [CommandsNext]_commandVars => LockedWorkExclusive'
<1> SUFFICES ASSUME CommandsInv, [CommandsNext]_commandVars,
                    NEW u \in Tasks, task'[u].phase = "working",
                    NEW s, s = task'[u].server
             PROVE  stopping'[s] = NoProcess /\ running'[s] = NoProcess
  BY DEF LockedWorkExclusive, ServerOf, OwnerOf
<1>1. s = ServerOf(u) /\ (task[u].phase = "working" \/ ~Busy(s))
  BY NewWork DEF ServerOf
<1>2. CASE ~Busy(s)
  BY <1>2 DEF Busy
<1>3. CASE task[u].phase = "working"
  <2>1. OwnerOf(s) = NoProcess /\ Holding(u) /\ s \in Servers
    BY <1>1, <1>3, CallersAssumption
    DEF CommandsInv, LockedWorkExclusive, TaskTypes, TaskRecords, NoTask, Holding, Locked, ServerOf
  <2>2. \A t \in Tasks : Holding(t) /\ ServerOf(t) = s => t = u
    BY <1>1, <2>1, LockExcludes DEF CommandsInv, OneOperation
  <2>3. OwnerOf(s)' = NoProcess
    BY <1>3, <2>1, <2>2, NewChildByStart
  <2> QED BY <2>3 DEF OwnerOf
<1> QED BY <1>1, <1>2, <1>3

LEMMA StepDeleted == CommandsInv /\ [CommandsNext]_commandVars => DeletedHasNoChild'
<1> SUFFICES ASSUME CommandsInv, [CommandsNext]_commandVars,
                    NEW s \in Servers, s \notin registered'
             PROVE  OwnerOf(s)' = NoProcess
  BY DEF DeletedHasNoChild
<1>1. CASE s \notin registered
  BY <1>1, NewChildByStart DEF CommandsInv, DeletedHasNoChild, FoundRegistered
<1>2. CASE s \in registered
  <2>1. PICK t \in Callers : DeleteServer(t) /\ s = ServerOf(t)
    BY <1>2
    DEF CommandsNext, Command, StopBreaks, Obtain, Request, ChildEnds, DeleteServer,
        profiles, commandVars
  <2>2. OwnerOf(s) = NoProcess /\ UNCHANGED vars
    BY <2>1, CallersAssumption
    DEF DeleteServer, At, CommandsInv, LockedWorkExclusive, TaskTypes
  <2> QED BY <2>2 DEF OwnerOf, vars
<1> QED BY <1>1, <1>2

LEMMA CommandsInvariant == CommandsSpec => []CommandsInv
<1>1. CommandsInv /\ [CommandsNext]_commandVars => CommandsInv'
  BY CommandsStepRegistry, StepBase, StepLock, StepWork, StepDeleted DEF CommandsInv, LockInv
<1> QED BY <1>1, InitCommandsInv, PTL DEF CommandsSpec

(***************************************************************************)
(* The commands of the application only do what the registries allow, so   *)
(* that every theorem about the registries holds of the application.       *)
(***************************************************************************)
THEOREM CommandsImplementRegistry == CommandsSpec => Spec
<1>1. CommandsInit => Init
  BY DEF CommandsInit
<1> QED BY <1>1, CommandsInvariant, CommandsStepRegistry, PTL DEF CommandsSpec, Spec

(***************************************************************************)
(* However many commands are issued, and whatever the monitor does, a      *)
(* child that lives is owned, by one server, on an endpoint of its own.    *)
(***************************************************************************)
THEOREM CommandsOwnership == CommandsSpec => [](NoOrphan /\ OneServer /\ EndpointExclusive)
BY CommandsImplementRegistry, RegistryOwnership, PTL

(***************************************************************************)
(* The operation lock: one operation per server at a time, no child of a   *)
(* server under a backup, a restore, a change of settings or a deletion,   *)
(* and none of a server that has been deleted.                             *)
(***************************************************************************)
THEOREM OperationsExclude ==
  CommandsSpec => [](OneOperation /\ LockedWorkExclusive /\ DeletedHasNoChild)
<1>1. CommandsInv => OneOperation /\ LockedWorkExclusive /\ DeletedHasNoChild
  BY LockExcludes DEF CommandsInv
<1> QED BY <1>1, CommandsInvariant, PTL

(***************************************************************************)
(* 3. A stop future runs within its command.                               *)
(***************************************************************************)
StopsWithin == \A t \in Callers : call[t].phase \in Pending => At(t, Stops, "stopping")

(* What a command does to its stop.                                        *)
LEMMA CommandCall ==
  ASSUME CommandsInv, NEW t \in Callers, Command(t)
  PROVE  \/ UNCHANGED call /\ task[t].phase # "stopping"
         \/ At(t, Stops, "stopping") /\ StopStep(t) /\ UNCHANGED taskVars
         \/ TakeResult(t)
         \/ At(t, Stops, "requested") /\ BeginStop(t, ServerOf(t)) /\ (call'[t].phase = "begun" => GoTo(t, "stopping"))
<1>1. CASE RunStart(t)
  <2>1. UNCHANGED call
    BY <1>1, RunStartStep, OutsideStops DEF CommandsInv
  <2> QED BY <1>1, <2>1 DEF RunStart, At
<1>2. CASE RequestForce(t)
  BY <1>2 DEF RequestForce, ForceKills, ForceFails, ForceFindsNothing, At
<1>3. CASE \/ PrepareStart(t) \/ RefuseStart(t) \/ PrepareStop(t) \/ RestFails(t)
           \/ CleanUp(t) \/ FinishWork(t) \/ FinishEdit(t) \/ DeleteServer(t)
  BY <1>3 DEF PrepareStart, RefuseStart, PrepareStop, RestFails, CleanUp, FinishWork, FinishEdit, DeleteServer, At, vars
<1>4. CASE RestartLooksForStop(t) \/ RestartLooksForChild(t) \/ BeginWork(t)
  BY <1>4 DEF RestartLooksForStop, RestartLooksForChild, BeginWork, IsStopping, IsRunning, IsBusy, At
<1>5. CASE StopAdvances(t)
  BY <1>5 DEF StopAdvances, StopStep
<1>6. CASE StopReturned(t)
  BY <1>6 DEF StopReturned
<1>7. CASE RequestStop(t)
  <2>1. At(t, Stops, "requested") /\ BeginStop(t, ServerOf(t))
    BY <1>7 DEF RequestStop, At
  <2>2. call'[t].phase = "begun" => GoTo(t, "stopping")
    <3>1. SUFFICES ASSUME call'[t].phase = "begun" PROVE GoTo(t, "stopping")
      OBVIOUS
    <3>2. call'[t] # Idle
      BY <3>1 DEF Idle
    <3> QED BY <1>7, <3>1, <3>2 DEF RequestStop
  <2> QED BY <2>1, <2>2
<1> QED BY <1>1, <1>2, <1>3, <1>4, <1>5, <1>6, <1>7 DEF Command, TaskStep

(* A step of a stop leaves the others alone, and only BeginStop begins one.*)
LEMMA StopCalls ==
  ASSUME TypeOK, NEW t \in Callers, StopStep(t) \/ \E s \in Servers : BeginStop(t, s)
  PROVE  /\ \A u \in Callers \ {t} : call'[u] = call[u]
         /\ StopStep(t) => (call'[t].phase \in Pending => call[t].phase \in Pending)
         /\ TakeResult(t) => call'[t].phase = "idle"
         /\ (\E s \in Servers : BeginStop(t, s)) => call'[t].phase \in {"begun", "idle"}
<1>1. ASSUME NEW s \in Servers, BeginStop(t, s)
      PROVE  /\ \A u \in Callers \ {t} : call'[u] = call[u]
             /\ call'[t].phase \in {"begun", "idle"}
  BY <1>1 DEF TypeOK, BeginStop, Idle
<1>2. ASSUME StopStep(t)
      PROVE  /\ \A u \in Callers \ {t} : call'[u] = call[u]
             /\ call'[t].phase \in Pending => call[t].phase \in Pending
  <2>1. CASE WriteStop(t) \/ PollStop(t)
    <3>1. PICK phase : call' = [call EXCEPT ![t].phase = phase]
      BY <2>1 DEF WriteStop, PollStop
    <3>2. call[t].phase \in Pending
      BY <2>1 DEF WriteStop, PollStop, Pending
    <3> QED BY <2>1, <3>1, <3>2 DEF TypeOK
  <2>2. CASE PollError(t) \/ StopDeadline(t)
    BY <2>2 DEF TypeOK, PollError, StopDeadline, Pending
  <2>3. CASE CancelStop(t) \/ TakeResult(t)
    BY <2>3 DEF TypeOK, CancelStop, TakeResult, Pending, Idle
  <2> QED BY <1>2, <2>1, <2>2, <2>3 DEF StopStep
<1>3. StopStep(t) => \A s \in Servers : ~BeginStop(t, s)
  BY DEF StopStep, BeginStop, WriteStop, PollStop, PollError, StopDeadline, CancelStop, TakeResult, Idle, Finished
<1>4. TakeResult(t) => StopStep(t)
  BY DEF StopStep
<1>5. TakeResult(t) => call'[t].phase = "idle"
  BY DEF TypeOK, TakeResult, Idle
<1> QED BY <1>1, <1>2, <1>3, <1>4, <1>5

LEMMA StepStopsWithin == CommandsInv /\ StopsWithin /\ [CommandsNext]_commandVars => StopsWithin'
<1> SUFFICES ASSUME CommandsInv, StopsWithin, [CommandsNext]_commandVars, NEW u \in Callers, call'[u].phase \in Pending
             PROVE  task'[u].cmd \in Stops /\ task'[u].phase = "stopping"
  BY DEF StopsWithin, At
<1>1. TypeOK /\ TaskTypes
  BY DEF CommandsInv, Base
<1>2. CASE UNCHANGED <<call, taskVars>>
  BY <1>2 DEF StopsWithin, At, taskVars
<1>3. ASSUME NEW t \in Callers, Command(t), t # u
      PROVE  task'[u] = task[u] /\ call'[u] = call[u]
  <2>1. task'[u] = task[u]
    <3>1. End(t) \/ Advances(t) \/ UNCHANGED taskVars
      BY <1>3, TaskStepShape DEF Command, DeleteServer
    <3> QED BY <1>1, <1>3, <3>1, EndFacts, GoToFacts DEF Advances, taskVars
  <2>2. call'[u] = call[u]
    <3>1. TakeResult(t) => StopStep(t)
      BY DEF StopStep
    <3>2. At(t, Stops, "requested") => ServerOf(t) \in Servers
      BY <1>1, AtBusy, BusyServer DEF Stops, Forced, Restarts
    <3> QED BY <1>1, <1>3, <3>1, <3>2, CommandCall, StopCalls
  <2> QED BY <2>1, <2>2
<1>4. CASE Command(u)
  <2>1. CASE UNCHANGED call /\ task[u].phase # "stopping"
    BY <2>1 DEF StopsWithin, At
  <2>2. CASE At(u, Stops, "stopping") /\ StopStep(u) /\ UNCHANGED taskVars
    BY <2>2 DEF At, taskVars
  <2>3. CASE TakeResult(u)
    BY <1>1, <2>3, StopCalls DEF StopStep, Pending
  <2>4. CASE At(u, Stops, "requested") /\ BeginStop(u, ServerOf(u)) /\ (call'[u].phase = "begun" => GoTo(u, "stopping"))
    <3>1. ServerOf(u) \in Servers /\ task[u] # NoTask
      BY <1>1, <2>4, AtBusy, BusyServer DEF Stops, Forced, Restarts
    <3>2. call'[u].phase = "begun"
      BY <1>1, <2>4, <3>1, StopCalls DEF Pending
    <3>3. task'[u].cmd = task[u].cmd /\ task'[u].phase = "stopping"
      BY <1>1, <2>4, <3>1, <3>2, GoToFacts DEF Phases
    <3> QED BY <2>4, <3>3 DEF At
  <2> QED BY <1>4, <2>1, <2>2, <2>3, <2>4, CommandCall
<1>5. ASSUME NEW t \in Callers, StopBreaks(t)
      PROVE  task' = task /\ (call'[u].phase \in Pending => call[u].phase \in Pending)
  BY <1>1, <1>5, StopCalls DEF StopBreaks, StopStep, taskVars
<1>6. ASSUME NEW t \in Tasks, Obtain(t)
      PROVE  call' = call /\ (task'[u] = task[u] \/ task[u].phase = "queued")
  BY <1>1, <1>6, CallersAssumption DEF Obtain, Acquire, At, vars, TaskTypes
<1>7. CASE Request
  <2>1. ASSUME NEW t \in Tasks, NEW s \in Servers, BeginEdit(t, s)
        PROVE  call' = call /\ (task'[u] = task[u] \/ task[u] = NoTask)
    BY <1>1, <2>1, CallersAssumption DEF BeginEdit, IsBusy, TaskTypes
  <2>2. ASSUME NEW t \in Tasks, NEW s \in Servers, NEW cmd \in Commands, Issue(t, cmd, s)
        PROVE  call' = call /\ (task'[u] = task[u] \/ task[u] = NoTask)
    BY <1>1, <2>2, CallersAssumption DEF Issue, vars, TaskTypes
  <2>3. ASSUME NEW s \in Servers, AutoStopDue(s)
        PROVE  call' = call /\ (task'[u] = task[u] \/ task[u] = NoTask)
    BY <1>1, <2>3, CallersAssumption DEF AutoStopDue, vars, TaskTypes
  <2> QED BY <1>7, <2>1, <2>2, <2>3 DEF Request, StopsWithin, At, NoTask
<1>8. CASE ChildEnds
  BY <1>2, <1>8 DEF ChildEnds, ChildExit
<1>9. CASE UNCHANGED commandVars
  BY <1>2, <1>9 DEF commandVars, vars
<1>10. CASE \E t \in Callers : Command(t)
  BY <1>3, <1>4, <1>10 DEF StopsWithin, At
<1>11. CASE \E t \in Callers : StopBreaks(t)
  BY <1>5, <1>11 DEF StopsWithin, At
<1>12. CASE \E t \in Tasks : Obtain(t)
  BY <1>6, <1>12 DEF StopsWithin, At
<1> QED BY <1>7, <1>8, <1>9, <1>10, <1>11, <1>12 DEF CommandsNext

(* The types of commands and locks; and while a stop waits for a child, it *)
(* is because its command is at that place.                                *)
THEOREM CommandsTypes == CommandsSpec => []CommandsTypeOK
<1>1. CommandsInit => StopsWithin
  BY DEF CommandsInit, Init, StopsWithin, Idle, Pending
<1>2. CommandsInv /\ StopsWithin => CommandsTypeOK
  BY DEF CommandsInv, TaskTypes, StopsWithin, CommandsTypeOK
<1> QED BY <1>1, <1>2, StepStopsWithin, CommandsInvariant, PTL DEF CommandsSpec
=============================================================================
