--------------------------- MODULE ProcessRegistry ---------------------------
(***************************************************************************)
(* src-tauri/src/process.rs: the two registries that own the child         *)
(* processes of the servers, ProcessMap (running) and StoppingMap          *)
(* (stopping), and everything that moves a child between them: start,      *)
(* graceful and forced stop, and the lookups that reap exited children.    *)
(*                                                                         *)
(* An action is one critical section: what the code does under the two     *)
(* mutexes, always taken in the order stopping, then running.  A graceful  *)
(* stop is three kinds of sections (begin_stop, the stdin write, the poll  *)
(* loop) of one caller, between which any other caller may run.            *)
(***************************************************************************)
EXTENDS Naturals

CONSTANTS
  Servers,    \* registered servers
  Endpoints,  \* (port, transport) pairs a profile may carry
  Callers,    \* concurrent graceful process::stop futures
  MaxPid,     \* how many children are ever spawned (bound)
  StdinBreaks \* whether writing the stop command to a child can fail

ASSUME MaxPidAssumption == MaxPid \in Nat

VARIABLES
  running,    \* ProcessMap:  running[s] is the child of s, or NoProcess
  stopping,   \* StoppingMap: stopping[s] is the child of s, or NoProcess
  endpoint,   \* endpoint[p]: ManagedProcess.port and .transport
  alive,      \* children whose try_wait still says Ok(None)
  spawned,    \* children spawned so far; child n is the n-th one
  call        \* call[c]: where the stop future c stands

maps   == <<running, stopping>>
child  == <<endpoint, alive, spawned>>
vars   == <<running, stopping, endpoint, alive, spawned, call>>

Pids       == 1 .. MaxPid
NoProcess  == 0
NoEndpoint == "none"

(* Where a stop future stands, and how it ended: Ok(()), ForceRequired, or *)
(* another error.                                                          *)
Pending  == {"begun", "waiting"}
Finished == {"ok", "forceRequired", "failed"}
Idle     == [phase |-> "idle"]

Entries(map) == {map[s] : s \in Servers} \ {NoProcess}

(* reap_finished over the servers in S: entries whose child exited go.     *)
Reap(map, S) ==
  [s \in Servers |-> IF s \in S /\ map[s] \notin alive THEN NoProcess ELSE map[s]]

Init ==
  /\ running  = [s \in Servers |-> NoProcess]
  /\ stopping = [s \in Servers |-> NoProcess]
  /\ endpoint = [p \in Pids |-> NoEndpoint]
  /\ alive    = {}
  /\ spawned  = 0
  /\ call     = [c \in Callers |-> Idle]

-----------------------------------------------------------------------------
(***************************************************************************)
(* start                                                                   *)
(***************************************************************************)

(* Slip: only the running registry is searched.                            *)
EndpointTakenByRunning(st, ru, s, e) ==
  \E t \in Servers \ {s} : ru[t] # NoProcess /\ endpoint[ru[t]] = e

(* The port check: another entry of either registry holds the endpoint.    *)
EndpointTaken(st, ru, s, e) ==
  \E t \in Servers \ {s} : \E p \in {st[t], ru[t]} \ {NoProcess} : endpoint[p] = e

(* The stopping registry still owns the server: running is not reaped yet. *)
StartWhileStopping(s) ==
  /\ Reap(stopping, Servers)[s] # NoProcess
  /\ stopping' = Reap(stopping, Servers)
  /\ UNCHANGED <<running, child, call>>

(* AlreadyRunning, a taken endpoint, or a launch that fails before the     *)
(* child exists: both registries are reaped and nothing else changes.      *)
StartRefused(s) ==
  /\ Reap(stopping, Servers)[s] = NoProcess
  /\ stopping' = Reap(stopping, Servers)
  /\ running'  = Reap(running, Servers)
  /\ UNCHANGED <<child, call>>

(* Slip: start does not look for the server in the stopping registry.      *)
CanLaunchWhileStopping(s, e) ==
  LET st == Reap(stopping, Servers)
      ru == Reap(running, Servers)
  IN  /\ spawned < MaxPid
      /\ ru[s] = NoProcess
      /\ ~EndpointTaken(st, ru, s, e)

CanLaunch(s, e) ==
  LET st == Reap(stopping, Servers)
      ru == Reap(running, Servers)
  IN  /\ spawned < MaxPid
      /\ st[s] = NoProcess
      /\ ru[s] = NoProcess
      /\ ~EndpointTaken(st, ru, s, e)

(* Slip: the half-started child is not killed, nor recorded anywhere.      *)
StartLeaksChild(s, e) ==
  /\ CanLaunch(s, e)
  /\ stopping' = Reap(stopping, Servers)
  /\ running'  = Reap(running, Servers)
  /\ alive'    = alive \cup {spawned + 1}
  /\ UNCHANGED <<endpoint, spawned, call>>

(* A step after CreateProcess fails (stdio pipe, job object): dropping     *)
(* UnregisteredChild kills the child and waits for it.                     *)
StartFailsAfterSpawn(s, e) ==
  /\ CanLaunch(s, e)
  /\ stopping' = Reap(stopping, Servers)
  /\ running'  = Reap(running, Servers)
  /\ spawned'  = spawned + 1
  /\ UNCHANGED <<endpoint, alive, call>>

StartSucceeds(s, e) ==
  /\ CanLaunch(s, e)
  /\ stopping' = Reap(stopping, Servers)
  /\ running'  = [Reap(running, Servers) EXCEPT ![s] = spawned + 1]
  /\ spawned'  = spawned + 1
  /\ endpoint' = [endpoint EXCEPT ![spawned + 1] = e]
  /\ alive'    = alive \cup {spawned + 1}
  /\ UNCHANGED call

-----------------------------------------------------------------------------
(***************************************************************************)
(* stop, graceful                                                          *)
(***************************************************************************)

(* begin_stop moves the child to the stopping registry, unless a stop      *)
(* already owns it or there is nothing to stop.                            *)
BeginStop(c, s) ==
  LET st == Reap(stopping, {s})
      ru == Reap(running, {s})
  IN  /\ call[c] = Idle
      /\ \/ /\ st[s] # NoProcess
            /\ stopping' = st
            /\ UNCHANGED <<running, call>>
         \/ /\ st[s] = NoProcess
            /\ ru[s] = NoProcess
            /\ stopping' = st
            /\ running'  = ru
            /\ UNCHANGED call
         \/ /\ st[s] = NoProcess
            /\ ru[s] # NoProcess
            /\ stopping' = [st EXCEPT ![s] = ru[s]]
            /\ running'  = [ru EXCEPT ![s] = NoProcess]
            /\ call'     = [call EXCEPT ![c] =
                              [phase |-> "begun", server |-> s, pid |-> ru[s]]]
      /\ UNCHANGED child

(* Slip: a failed write drops the entry instead of moving it back.         *)
WriteStopDropsEntry(c) ==
  LET s == call[c].server
  IN  /\ call[c].phase = "begun"
      /\ \/ /\ stopping[s] = NoProcess
            /\ call' = [call EXCEPT ![c].phase = "ok"]
            /\ UNCHANGED stopping
         \/ /\ stopping[s] # NoProcess
            /\ call' = [call EXCEPT ![c].phase = "waiting"]
            /\ UNCHANGED stopping
         \/ /\ stopping[s] # NoProcess
            /\ stopping' = [stopping EXCEPT ![s] = NoProcess]
            /\ call'     = [call EXCEPT ![c].phase = "failed"]
      /\ UNCHANGED <<running, child>>

(* The second section: the stop command goes to the stdin of whatever      *)
(* entry the stopping registry now has for the server; a failed write      *)
(* moves that entry back to running.                                       *)
WriteStop(c) ==
  LET s == call[c].server
  IN  /\ call[c].phase = "begun"
      /\ \/ /\ stopping[s] = NoProcess
            /\ call' = [call EXCEPT ![c].phase = "ok"]
            /\ UNCHANGED maps
         \/ /\ stopping[s] # NoProcess
            /\ call' = [call EXCEPT ![c].phase = "waiting"]
            /\ UNCHANGED maps
         \/ /\ StdinBreaks
            /\ stopping[s] # NoProcess
            /\ running'  = [running EXCEPT ![s] = stopping[s]]
            /\ stopping' = [stopping EXCEPT ![s] = NoProcess]
            /\ call'     = [call EXCEPT ![c].phase = "failed"]
      /\ UNCHANGED child

(* One round of the poll loop that ends it: the entry is gone, or its      *)
(* child has exited and is reaped.                                         *)
PollStop(c) ==
  LET s == call[c].server
  IN  /\ call[c].phase = "waiting"
      /\ stopping[s] \notin alive
      /\ stopping' = [stopping EXCEPT ![s] = NoProcess]
      /\ call'     = [call EXCEPT ![c].phase = "ok"]
      /\ UNCHANGED <<running, child>>

(* try_wait fails: the loop ends with the error, the entry stays.          *)
PollError(c) ==
  /\ call[c].phase = "waiting"
  /\ stopping[call[c].server] # NoProcess
  /\ call' = [call EXCEPT ![c].phase = "failed"]
  /\ UNCHANGED <<maps, child>>

(* Slip: the wait for the child has no deadline.                           *)
StopNeverGivesUp(c) ==
  /\ call[c].phase = "waiting"
  /\ stopping[call[c].server] \notin alive
  /\ call' = [call EXCEPT ![c].phase = "forceRequired"]
  /\ UNCHANGED <<maps, child>>

(* Slip: giving up on a stop releases the entry.                           *)
StopDeadlineReleases(c) ==
  /\ call[c].phase = "waiting"
  /\ call'     = [call EXCEPT ![c].phase = "forceRequired"]
  /\ stopping' = [stopping EXCEPT ![call[c].server] = NoProcess]
  /\ UNCHANGED <<running, child>>

(* 45 seconds have passed: the entry stays in the stopping registry.       *)
StopDeadline(c) ==
  /\ call[c].phase = "waiting"
  /\ call' = [call EXCEPT ![c].phase = "forceRequired"]
  /\ UNCHANGED <<maps, child>>

(* The future is dropped at its only await, the sleep between two polls.   *)
CancelStop(c) ==
  /\ call[c].phase = "waiting"
  /\ call' = [call EXCEPT ![c] = Idle]
  /\ UNCHANGED <<maps, child>>

(* The command that awaited the future goes on with its result.            *)
TakeResult(c) ==
  /\ call[c].phase \in Finished
  /\ call' = [call EXCEPT ![c] = Idle]
  /\ UNCHANGED <<maps, child>>

-----------------------------------------------------------------------------
(***************************************************************************)
(* stop, forced: one section, under the stopping lock throughout           *)
(***************************************************************************)

(* The child a forced stop takes, from either registry.                    *)
ForceTarget(s) ==
  IF Reap(stopping, {s})[s] # NoProcess
  THEN Reap(stopping, {s})[s] ELSE Reap(running, {s})[s]

(* What the forced stop leaves of running once it owns the child.          *)
ForcedFrom(s) ==
  IF Reap(stopping, {s})[s] # NoProcess THEN running
  ELSE [running EXCEPT ![s] = NoProcess]

ForceKills(s) ==
  /\ ForceTarget(s) # NoProcess
  /\ running'  = ForcedFrom(s)
  /\ stopping' = [stopping EXCEPT ![s] = NoProcess]
  /\ alive'    = alive \ {ForceTarget(s)}
  /\ UNCHANGED <<endpoint, spawned, call>>

(* Slip: the entry goes although the child may not have been terminated.   *)
ForceFailsDisowns(s, killed) ==
  /\ ForceTarget(s) # NoProcess
  /\ running'  = ForcedFrom(s)
  /\ stopping' = [stopping EXCEPT ![s] = NoProcess]
  /\ alive'    = IF killed THEN alive \ {ForceTarget(s)} ELSE alive
  /\ UNCHANGED <<endpoint, spawned, call>>

(* force_terminate or wait fails: the entry stays in stopping.             *)
ForceFails(s, killed) ==
  /\ ForceTarget(s) # NoProcess
  /\ running'  = ForcedFrom(s)
  /\ stopping' = [stopping EXCEPT ![s] = ForceTarget(s)]
  /\ alive'    = IF killed THEN alive \ {ForceTarget(s)} ELSE alive
  /\ UNCHANGED <<endpoint, spawned, call>>

ForceFindsNothing(s) ==
  /\ ForceTarget(s) = NoProcess
  /\ running'  = Reap(running, {s})
  /\ stopping' = Reap(stopping, {s})
  /\ UNCHANGED <<child, call>>

-----------------------------------------------------------------------------
(***************************************************************************)
(* Lookups, each of which reaps the server's exited child                  *)
(***************************************************************************)

IsRunning(s) ==
  /\ running' = Reap(running, {s})
  /\ UNCHANGED <<stopping, child, call>>

(* Slip: the lookup does not reap.                                         *)
IsStoppingWithoutReaping(s) == s \in Servers /\ UNCHANGED vars

IsStopping(s) ==
  /\ stopping' = Reap(stopping, {s})
  /\ UNCHANGED <<running, child, call>>

(* is_busy looks at running only when stopping has no live entry.          *)
IsBusy(s) ==
  /\ stopping' = Reap(stopping, {s})
  /\ running'  = IF stopping'[s] = NoProcess THEN Reap(running, {s}) ELSE running
  /\ UNCHANGED <<child, call>>

(* The server program ends, by itself or because it was told to.           *)
ChildExit(p) ==
  /\ p \in alive
  /\ alive' = alive \ {p}
  /\ UNCHANGED <<maps, endpoint, spawned, call>>

-----------------------------------------------------------------------------

Start(s) ==
  \/ StartWhileStopping(s)
  \/ StartRefused(s)
  \/ \E e \in Endpoints : StartFailsAfterSpawn(s, e) \/ StartSucceeds(s, e)

ForceStop(s) ==
  \/ ForceKills(s)
  \/ \E killed \in BOOLEAN : ForceFails(s, killed)
  \/ ForceFindsNothing(s)

Lookup(s) == IsRunning(s) \/ IsStopping(s) \/ IsBusy(s)

StopStep(c) ==
  \/ WriteStop(c) \/ PollStop(c) \/ PollError(c) \/ StopDeadline(c)
  \/ CancelStop(c) \/ TakeResult(c)

Next ==
  \/ \E s \in Servers :
       Start(s) \/ ForceStop(s) \/ Lookup(s) \/ \E c \in Callers : BeginStop(c, s)
  \/ \E c \in Callers : StopStep(c)
  \/ \E p \in Pids : ChildExit(p)

(* The monitor task reads the status of every server every ten seconds,    *)
(* and runtime_status looks at both registries.  No fairness is asked of   *)
(* the stop futures: they may be cancelled.                                *)
Fairness ==
  \A s \in Servers : WF_vars(IsStopping(s)) /\ WF_vars(IsRunning(s))

Spec     == Init /\ [][Next]_vars
FairSpec == Spec /\ Fairness

-----------------------------------------------------------------------------
(***************************************************************************)
(* Properties                                                              *)
(***************************************************************************)

CallRecords == [phase : Pending \cup Finished, server : Servers, pid : Pids]

(* Types, and the pids in use are those spawned so far.                    *)
TypeOK ==
  /\ spawned  \in 0 .. MaxPid
  /\ running  \in [Servers -> 0 .. spawned]
  /\ stopping \in [Servers -> 0 .. spawned]
  /\ endpoint \in [Pids -> Endpoints \cup {NoEndpoint}]
  /\ alive    \subseteq 1 .. spawned
  /\ call     \in [Callers -> {Idle} \cup CallRecords]

(* A server is in one registry at most, so that inserting a child into     *)
(* either map never overwrites (and so disowns) another one.               *)
OneRegistry == \A s \in Servers : running[s] = NoProcess \/ stopping[s] = NoProcess

OwnerOf(s) == IF stopping[s] # NoProcess THEN stopping[s] ELSE running[s]

(* A child is owned for one server only.                                   *)
OneServer ==
  \A s, t \in Servers : OwnerOf(s) = OwnerOf(t) /\ OwnerOf(s) # NoProcess => s = t

(* Whatever start, stop, force and reap do, and however a launch fails, a  *)
(* child that still runs is held by one of the registries: the application *)
(* can see it, stop it, and refuse to exit over it.                        *)
NoOrphan == \A p \in alive : \E s \in Servers : OwnerOf(s) = p

(* Two servers never hold children on one port and transport, whether they *)
(* run or are still stopping.                                              *)
EndpointExclusive ==
  \A s, t \in Servers :
    /\ s # t
    /\ OwnerOf(s) # NoProcess
    /\ OwnerOf(t) # NoProcess
    => endpoint[OwnerOf(s)] # endpoint[OwnerOf(t)]

(* A graceful stop that returned Ok has stopped the child it took over.    *)
StopOkMeansExited ==
  \A c \in Callers : call[c].phase = "ok" => call[c].pid \notin alive

(* Both registries together implement one slot per server.                 *)
Slots == INSTANCE ServerSlots WITH owner <- [s \in Servers |-> OwnerOf(s)]

SlotsSpec == Slots!Spec

(* A reservation never outlives its child for good, although every stop    *)
(* future may have been cancelled: some lookup reaps it.                   *)
ReservationReleased ==
  \A s \in Servers : \A p \in Pids :
    (OwnerOf(s) = p /\ p \notin alive) ~> (OwnerOf(s) # p)
=============================================================================
