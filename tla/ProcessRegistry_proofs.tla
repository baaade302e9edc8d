------------------------ MODULE ProcessRegistry_proofs ------------------------
(***************************************************************************)
(* Proofs about ProcessRegistry, for any servers, endpoints, stop callers  *)
(* and number of children.  The plan:                                      *)
(*   1. TypeOK and OneRegistry are inductive together;                     *)
(*   2. under them each step of the registries is a step of ServerSlots on *)
(*      the slots OwnerOf, or leaves the slots alone (the refinement);     *)
(*   3. ownership (OneServer, NoOrphan, EndpointExclusive) is preserved by *)
(*      every step of ServerSlots, so by every step of the registries;     *)
(*   4. a stop that is under way finds its live child in the stopping      *)
(*      registry, so that its Ok tells the truth.                          *)
(***************************************************************************)
EXTENDS ProcessRegistry, TLAPS

(* Reaping forgets entries and invents none.                               *)
LEMMA ReapEntry ==
  ASSUME NEW map, NEW S, NEW s \in Servers
  PROVE  /\ Reap(map, S)[s] \in {map[s], NoProcess}
         /\ Reap(map, S)[s] # map[s] => s \in S /\ map[s] \notin alive
BY DEF Reap

LEMMA ReapType ==
  ASSUME NEW n \in Nat, NEW map \in [Servers -> 0 .. n], NEW S
  PROVE  Reap(map, S) \in [Servers -> 0 .. n]
BY DEF Reap, NoProcess

-----------------------------------------------------------------------------
(***************************************************************************)
(* 1. Types, and one registry per server.                                  *)
(***************************************************************************)

Base == TypeOK /\ OneRegistry

LEMMA InitBase == Init => Base
BY MaxPidAssumption DEF Init, Base, TypeOK, OneRegistry, NoProcess, Pids

LEMMA StartBase ==
  ASSUME Base, NEW s \in Servers, Start(s)
  PROVE  Base'
<1> DEFINE st == Reap(stopping, Servers)
           ru == Reap(running, Servers)
<1>1. /\ st \in [Servers -> 0 .. spawned]
      /\ ru \in [Servers -> 0 .. spawned]
      /\ \A t \in Servers : st[t] = NoProcess \/ ru[t] = NoProcess
      /\ \A t \in Servers : running[t] = NoProcess \/ st[t] = NoProcess
  BY ReapType, ReapEntry DEF Base, TypeOK, OneRegistry
<1> HIDE DEF st, ru
<1>2. CASE StartWhileStopping(s) \/ StartRefused(s)
  <2>1. /\ stopping' = st
        /\ running' \in {running, ru}
        /\ UNCHANGED <<endpoint, alive, spawned, call>>
    BY <1>2 DEF StartWhileStopping, StartRefused, child, st, ru
  <2> QED BY <1>1, <2>1 DEF Base, TypeOK, OneRegistry
<1>3. ASSUME NEW e \in Endpoints, StartFailsAfterSpawn(s, e)
      PROVE  Base'
  <2>1. /\ stopping' = st
        /\ running' = ru
        /\ spawned' = spawned + 1
        /\ spawned < MaxPid
        /\ UNCHANGED <<endpoint, alive, call>>
    BY <1>3 DEF StartFailsAfterSpawn, CanLaunch, st, ru
  <2> QED BY <1>1, <2>1, MaxPidAssumption DEF Base, TypeOK, OneRegistry
<1>4. ASSUME NEW e \in Endpoints, StartSucceeds(s, e)
      PROVE  Base'
  <2>1. /\ stopping' = st
        /\ running' = [ru EXCEPT ![s] = spawned + 1]
        /\ spawned' = spawned + 1
        /\ spawned < MaxPid
        /\ endpoint' = [endpoint EXCEPT ![spawned + 1] = e]
        /\ alive' = alive \cup {spawned + 1}
        /\ UNCHANGED call
        /\ st[s] = NoProcess
    BY <1>4 DEF StartSucceeds, CanLaunch, st, ru
  <2>2. TypeOK'
    BY <1>1, <2>1, MaxPidAssumption DEF Base, TypeOK, Pids
  <2>3. OneRegistry'
    BY <1>1, <2>1 DEF OneRegistry
  <2> QED BY <2>2, <2>3 DEF Base
<1> QED BY <1>2, <1>3, <1>4 DEF Start

(* What a section that concerns only s has after reaping it.               *)
LEMMA ReapOne ==
  ASSUME Base, NEW s \in Servers
  PROVE  /\ Reap(stopping, {s}) \in [Servers -> 0 .. spawned]
         /\ Reap(running, {s}) \in [Servers -> 0 .. spawned]
         /\ Reap(stopping, {s}) = [stopping EXCEPT ![s] = Reap(stopping, {s})[s]]
         /\ Reap(running, {s}) = [running EXCEPT ![s] = Reap(running, {s})[s]]
         /\ Reap(stopping, {s})[s] \in {stopping[s], NoProcess}
         /\ Reap(running, {s})[s] \in {running[s], NoProcess}
<1>1. /\ Reap(stopping, {s}) \in [Servers -> 0 .. spawned]
      /\ Reap(running, {s}) \in [Servers -> 0 .. spawned]
  BY ReapType DEF Base, TypeOK
<1>2. /\ Reap(stopping, {s}) = [stopping EXCEPT ![s] = Reap(stopping, {s})[s]]
      /\ Reap(running, {s}) = [running EXCEPT ![s] = Reap(running, {s})[s]]
  BY DEF Base, TypeOK, Reap
<1> QED BY <1>1, <1>2, ReapEntry

LEMMA ForceBase ==
  ASSUME Base, NEW s \in Servers, ForceStop(s)
  PROVE  Base'
<1> DEFINE st == Reap(stopping, {s})
           ru == Reap(running, {s})
<1>1. /\ st \in [Servers -> 0 .. spawned]
      /\ ru \in [Servers -> 0 .. spawned]
      /\ st = [stopping EXCEPT ![s] = st[s]]
      /\ ru = [running EXCEPT ![s] = ru[s]]
      /\ st[s] \in {stopping[s], NoProcess}
      /\ ru[s] \in {running[s], NoProcess}
  BY ReapOne
<1> HIDE DEF st, ru
<1>2. /\ ForceTarget(s) = IF st[s] # NoProcess THEN st[s] ELSE ru[s]
      /\ ForcedFrom(s) = IF st[s] # NoProcess THEN running
                         ELSE [running EXCEPT ![s] = NoProcess]
  BY DEF ForceTarget, ForcedFrom, st, ru
<1>3. CASE ForceKills(s)
  BY <1>1, <1>2, <1>3 DEF Base, TypeOK, OneRegistry, ForceKills, NoProcess
<1>4. ASSUME NEW killed \in BOOLEAN, ForceFails(s, killed)
      PROVE  Base'
  BY <1>1, <1>2, <1>4 DEF Base, TypeOK, OneRegistry, ForceFails, NoProcess
<1>5. CASE ForceFindsNothing(s)
  BY <1>1, <1>5 DEF Base, TypeOK, OneRegistry, ForceFindsNothing, child, st, ru
<1> QED BY <1>3, <1>4, <1>5 DEF ForceStop

LEMMA LookupBase ==
  ASSUME Base, NEW s \in Servers, Lookup(s)
  PROVE  Base'
<1>1. /\ stopping' \in {stopping, Reap(stopping, {s})}
      /\ running' \in {running, Reap(running, {s})}
      /\ UNCHANGED <<endpoint, alive, spawned, call>>
  BY DEF Lookup, IsRunning, IsStopping, IsBusy, child
<1>2. TypeOK'
  BY <1>1, ReapOne DEF Base, TypeOK
<1>3. /\ \A t \in Servers : stopping'[t] \in {stopping[t], NoProcess}
      /\ \A t \in Servers : running'[t] \in {running[t], NoProcess}
  BY <1>1, ReapEntry
<1> QED BY <1>2, <1>3 DEF Base, OneRegistry

LEMMA BeginStopBase ==
  ASSUME Base, NEW c \in Callers, NEW s \in Servers, BeginStop(c, s)
  PROVE  Base'
<1> DEFINE st == Reap(stopping, {s})
           ru == Reap(running, {s})
<1>1. /\ st \in [Servers -> 0 .. spawned]
      /\ ru \in [Servers -> 0 .. spawned]
      /\ \A t \in Servers : st[t] \in {stopping[t], NoProcess}
      /\ \A t \in Servers : ru[t] \in {running[t], NoProcess}
  BY ReapOne, ReapEntry
<1> HIDE DEF st, ru
<1>2. CASE stopping' \in {st} /\ running' \in {running, ru} /\ call' = call
  BY <1>1, <1>2 DEF Base, TypeOK, OneRegistry, BeginStop, child
<1>3. CASE /\ st[s] = NoProcess
           /\ ru[s] # NoProcess
           /\ stopping' = [st EXCEPT ![s] = ru[s]]
           /\ running'  = [ru EXCEPT ![s] = NoProcess]
           /\ call' = [call EXCEPT ![c] = [phase |-> "begun", server |-> s, pid |-> ru[s]]]
  <2>1. UNCHANGED <<endpoint, alive, spawned>>
    BY DEF BeginStop, child
  <2>2. ru[s] \in 1 .. spawned /\ ru[s] \in Pids
    BY <1>1, <1>3, MaxPidAssumption DEF Base, TypeOK, NoProcess, Pids
  <2>3. [phase |-> "begun", server |-> s, pid |-> ru[s]] \in CallRecords
    BY <2>2 DEF CallRecords, Pending
  <2>4. TypeOK'
    <3>1. call' \in [Callers -> {Idle} \cup CallRecords]
      BY <1>3, <2>3 DEF Base, TypeOK
    <3>2. running' \in [Servers -> 0 .. spawned] /\ stopping' \in [Servers -> 0 .. spawned]
      BY <1>1, <1>3 DEF Base, TypeOK, NoProcess
    <3> QED BY <2>1, <3>1, <3>2 DEF Base, TypeOK
  <2>5. OneRegistry'
    BY <1>1, <1>3 DEF Base, OneRegistry
  <2> QED BY <2>4, <2>5 DEF Base
<1> QED BY <1>2, <1>3 DEF BeginStop, st, ru

LEMMA StopStepBase ==
  ASSUME Base, NEW c \in Callers, StopStep(c)
  PROVE  Base'
BY DEF Base, TypeOK, OneRegistry, StopStep, WriteStop, PollStop, PollError, StopDeadline, CancelStop, TakeResult,
       NoProcess, child, maps, CallRecords, Pending, Finished, Idle

LEMMA StepBase == Base /\ [Next]_vars => Base'
<1> SUFFICES ASSUME Base, [Next]_vars PROVE Base'
  OBVIOUS
<1>1. ASSUME NEW p \in Pids, ChildExit(p) PROVE Base'
  BY <1>1 DEF Base, TypeOK, OneRegistry, ChildExit, maps
<1>2. CASE UNCHANGED vars
  BY <1>2 DEF Base, TypeOK, OneRegistry, vars
<1> QED BY <1>1, <1>2, StartBase, ForceBase, LookupBase, BeginStopBase, StopStepBase DEF Next

(***************************************************************************)
(* Every reachable state of the registries is well typed, and holds each   *)
(* server in one registry at most: no insert overwrites a child.           *)
(***************************************************************************)
THEOREM RegistryTypes == Spec => [](TypeOK /\ OneRegistry)
<1>1. Spec => []Base
  BY InitBase, StepBase, PTL DEF Spec
<1> QED BY <1>1, PTL DEF Base

-----------------------------------------------------------------------------
(* A step of a registry, unless it starts s.                               *)
StepBesidesStart(s) ==
  \/ \E t \in Servers :
       \/ ForceStop(t) \/ Lookup(t) \/ \E c \in Callers : BeginStop(c, t)
       \/ t # s /\ Start(t)
  \/ \E c \in Callers : StopStep(c)
  \/ \E p \in Pids : ChildExit(p)
  \/ UNCHANGED vars

(* Only a start gives a child to a server that owns none.                  *)
LEMMA EmptyStays ==
  ASSUME Base, NEW s \in Servers, OwnerOf(s) = NoProcess, StepBesidesStart(s)
  PROVE  OwnerOf(s)' = NoProcess
<1>1. running[s] = NoProcess /\ stopping[s] = NoProcess
  BY DEF OwnerOf
<1> SUFFICES running'[s] = NoProcess /\ stopping'[s] = NoProcess
  BY DEF OwnerOf
<1>2. \A S : Reap(running, S)[s] = NoProcess /\ Reap(stopping, S)[s] = NoProcess
  BY <1>1, ReapEntry
<1>3. ASSUME NEW t \in Servers, ForceStop(t)
      PROVE  running'[s] = NoProcess /\ stopping'[s] = NoProcess
  BY <1>1, <1>2, <1>3
  DEF ForceStop, ForceKills, ForceFails, ForceFindsNothing, ForceTarget, ForcedFrom, Base, TypeOK
<1>4. ASSUME NEW t \in Servers, Lookup(t)
      PROVE  running'[s] = NoProcess /\ stopping'[s] = NoProcess
  BY <1>1, <1>2, <1>4 DEF Lookup, IsRunning, IsStopping, IsBusy
<1>5. ASSUME NEW t \in Servers, NEW c \in Callers, BeginStop(c, t)
      PROVE  running'[s] = NoProcess /\ stopping'[s] = NoProcess
  <2> DEFINE st == Reap(stopping, {t})
             ru == Reap(running, {t})
  <2>1. /\ st \in [Servers -> 0 .. spawned] /\ ru \in [Servers -> 0 .. spawned]
        /\ st[s] = NoProcess /\ ru[s] = NoProcess
    BY <1>2, ReapOne
  <2>2. /\ stopping' \in {st, [st EXCEPT ![t] = ru[t]]}
        /\ running' \in {running, ru, [ru EXCEPT ![t] = NoProcess]}
    BY <1>5 DEF BeginStop
  <2> HIDE DEF st, ru
  <2> QED BY <1>1, <2>1, <2>2
<1>6. ASSUME NEW t \in Servers \ {s}, Start(t)
      PROVE  running'[s] = NoProcess /\ stopping'[s] = NoProcess
  BY <1>1, <1>2, <1>6
  DEF Start, StartWhileStopping, StartRefused, StartFailsAfterSpawn, StartSucceeds, Reap
<1>7. ASSUME NEW c \in Callers, StopStep(c)
      PROVE  running'[s] = NoProcess /\ stopping'[s] = NoProcess
  BY <1>1, <1>7
  DEF StopStep, WriteStop, PollStop, PollError, StopDeadline, CancelStop, TakeResult, maps,
      Base, TypeOK
<1>8. ASSUME (\E p \in Pids : ChildExit(p)) \/ UNCHANGED vars
      PROVE  running'[s] = NoProcess /\ stopping'[s] = NoProcess
  BY <1>1, <1>8 DEF ChildExit, maps, vars
<1> QED BY <1>3, <1>4, <1>5, <1>6, <1>7, <1>8 DEF StepBesidesStart

-----------------------------------------------------------------------------
(***************************************************************************)
(* 2. The registries implement ServerSlots.                                *)
(***************************************************************************)

(* Slots that only lose exited children take a Vacate step.                *)
LEMMA VacateStep ==
  ASSUME UNCHANGED child,
         \A t \in Servers : \/ OwnerOf(t)' = OwnerOf(t)
                            \/ OwnerOf(t)' = NoProcess /\ OwnerOf(t) \notin alive
  PROVE  Slots!Next
<1> DEFINE S == {t \in Servers : OwnerOf(t)' # OwnerOf(t)}
<1>1. [t \in Servers |-> OwnerOf(t)'] = [t \in Servers |-> IF t \in S THEN NoProcess ELSE OwnerOf(t)]
  OBVIOUS
<1>2. Slots!Vacate(S)
  BY <1>1 DEF Slots!Vacate, Slots!Vacated, Slots!Exited, Slots!NoProcess, NoProcess, child
<1> QED BY <1>2 DEF Slots!Next

(* The slots once both registries are reaped.                              *)
LEMMA ReapedSlots ==
  ASSUME Base
  PROVE  \A t \in Servers :
           (IF Reap(stopping, Servers)[t] # NoProcess
            THEN Reap(stopping, Servers)[t] ELSE Reap(running, Servers)[t])
           = IF OwnerOf(t) \notin alive THEN NoProcess ELSE OwnerOf(t)
BY DEF Base, TypeOK, OneRegistry, Reap, OwnerOf, NoProcess

LEMMA StartSlots ==
  ASSUME Base, NEW s \in Servers, Start(s)
  PROVE  Slots!Next
<1> DEFINE st == Reap(stopping, Servers)
           ru == Reap(running, Servers)
           Dead == {t \in Servers : OwnerOf(t) \notin alive}
<1>1. CASE StartWhileStopping(s)
  BY <1>1, VacateStep
  DEF StartWhileStopping, Base, TypeOK, OneRegistry, Reap, OwnerOf, NoProcess, child
<1>2. CASE StartRefused(s)
  BY <1>2, VacateStep, ReapedSlots DEF StartRefused, OwnerOf, child
<1>3. \A t \in Servers : Slots!Vacated(Dead)[t] = IF st[t] # NoProcess THEN st[t] ELSE ru[t]
  BY ReapedSlots DEF Slots!Vacated, Slots!NoProcess, NoProcess
<1>4. Slots!Exited(Dead)
  BY DEF Slots!Exited
<1>5. ASSUME NEW e \in Endpoints, StartFailsAfterSpawn(s, e)
      PROVE  Slots!Next
  <2>1. [t \in Servers |-> OwnerOf(t)'] = Slots!Vacated(Dead)
    BY <1>3, <1>5 DEF StartFailsAfterSpawn, OwnerOf, Slots!Vacated
  <2>2. Slots!LaunchFails(Dead)
    BY <1>4, <1>5, <2>1 DEF StartFailsAfterSpawn, CanLaunch, Slots!LaunchFails
  <2> QED BY <2>2 DEF Slots!Next
<1>6. ASSUME NEW e \in Endpoints, StartSucceeds(s, e)
      PROVE  Slots!Next
  <2>1. st[s] = NoProcess /\ ru[s] = NoProcess /\ spawned < MaxPid /\ ~EndpointTaken(st, ru, s, e)
    BY <1>6 DEF StartSucceeds, CanLaunch
  <2>2. [t \in Servers |-> OwnerOf(t)'] = [Slots!Vacated(Dead) EXCEPT ![s] = spawned + 1]
    <3>1. stopping' = st /\ running' = [ru EXCEPT ![s] = spawned + 1]
      BY <1>6 DEF StartSucceeds
    <3>2. st \in [Servers -> 0 .. spawned] /\ ru \in [Servers -> 0 .. spawned]
      BY ReapType DEF Base, TypeOK
    <3> QED BY <1>3, <2>1, <3>1, <3>2 DEF OwnerOf, Slots!Vacated
  <2>3. \A t \in Servers \ {s} :
          Slots!Vacated(Dead)[t] # NoProcess => endpoint[Slots!Vacated(Dead)[t]] # e
    BY <1>3, <2>1 DEF EndpointTaken
  <2>4. Slots!Vacated(Dead)[s] = NoProcess
    BY <1>3, <2>1
  <2>5. Slots!Launch(s, e, Dead)
    BY <1>4, <1>6, <2>1, <2>2, <2>3, <2>4
    DEF StartSucceeds, Slots!Launch, Slots!NoProcess, NoProcess
  <2> QED BY <2>5 DEF Slots!Next
<1> QED BY <1>1, <1>2, <1>5, <1>6 DEF Start

LEMMA ForceSlots ==
  ASSUME Base, NEW s \in Servers, ForceStop(s)
  PROVE  Slots!Next \/ UNCHANGED Slots!vars
<1>1. ASSUME ForceTarget(s) # NoProcess
      PROVE  ForceTarget(s) = OwnerOf(s) /\ OwnerOf(s) \in Pids
  BY <1>1, MaxPidAssumption
  DEF ForceTarget, Reap, OwnerOf, Base, TypeOK, OneRegistry, NoProcess, Pids
<1>2. CASE ForceKills(s)
  <2>1. [t \in Servers |-> OwnerOf(t)'] = [[t \in Servers |-> OwnerOf(t)] EXCEPT ![s] = NoProcess]
    BY <1>2 DEF ForceKills, ForceTarget, ForcedFrom, Reap, OwnerOf, Base, TypeOK, OneRegistry, NoProcess
  <2>2. Slots!Terminate(s)
    BY <1>1, <1>2, <2>1 DEF ForceKills, Slots!Terminate, Slots!NoProcess, NoProcess
  <2> QED BY <2>2 DEF Slots!Next
<1>3. ASSUME NEW killed \in BOOLEAN, ForceFails(s, killed)
      PROVE  Slots!Next \/ UNCHANGED Slots!vars
  <2>1. [t \in Servers |-> OwnerOf(t)'] = [t \in Servers |-> OwnerOf(t)]
    BY <1>3 DEF ForceFails, ForceTarget, ForcedFrom, Reap, OwnerOf, Base, TypeOK, OneRegistry, NoProcess
  <2>2. CASE killed
    <3>1. Slots!Exit(OwnerOf(s))
      BY <1>1, <1>3, <2>1, <2>2 DEF ForceFails, Slots!Exit
    <3> QED BY <1>1, <1>3, <3>1 DEF ForceFails, Slots!Next, Slots!Pids, Pids
  <2>3. CASE ~killed
    BY <1>3, <2>1, <2>3 DEF ForceFails, Slots!vars
  <2> QED BY <2>2, <2>3
<1>4. CASE ForceFindsNothing(s)
  BY <1>4, VacateStep
  DEF ForceFindsNothing, ForceTarget, Reap, OwnerOf, Base, TypeOK, OneRegistry, NoProcess, child
<1> QED BY <1>2, <1>3, <1>4 DEF ForceStop

LEMMA LookupSlots ==
  ASSUME Base, NEW s \in Servers, Lookup(s)
  PROVE  Slots!Next
<1>1. UNCHANGED child
  BY DEF Lookup, IsRunning, IsStopping, IsBusy, child
<1>2. \A t \in Servers : \/ OwnerOf(t)' = OwnerOf(t)
                         \/ OwnerOf(t)' = NoProcess /\ OwnerOf(t) \notin alive
  BY DEF Lookup, IsRunning, IsStopping, IsBusy, Reap, OwnerOf, Base, TypeOK, OneRegistry, NoProcess
<1> QED BY <1>1, <1>2, VacateStep

LEMMA BeginStopSlots ==
  ASSUME Base, NEW c \in Callers, NEW s \in Servers, BeginStop(c, s)
  PROVE  Slots!Next
<1>1. UNCHANGED child
  BY DEF BeginStop
<1>2. \A t \in Servers : \/ OwnerOf(t)' = OwnerOf(t)
                         \/ OwnerOf(t)' = NoProcess /\ OwnerOf(t) \notin alive
  BY DEF BeginStop, Reap, OwnerOf, Base, TypeOK, OneRegistry, NoProcess
<1> QED BY <1>1, <1>2, VacateStep

(* A stop that has begun names a server.                                   *)
LEMMA CallServer ==
  ASSUME Base, NEW c \in Callers, call[c].phase \in Pending \cup Finished
  PROVE  call[c].server \in Servers
BY DEF Base, TypeOK, CallRecords, Pending, Finished, Idle

LEMMA StopStepSlots ==
  ASSUME Base, NEW c \in Callers, StopStep(c)
  PROVE  Slots!Next
<1>1. UNCHANGED child
  BY DEF StopStep, WriteStop, PollStop, PollError, StopDeadline, CancelStop, TakeResult, child
<1>2. call[c].server \in Servers
  BY CallServer DEF StopStep, WriteStop, PollStop, PollError, StopDeadline, CancelStop, TakeResult,
                    Pending, Finished
<1>3. \A t \in Servers : \/ OwnerOf(t)' = OwnerOf(t)
                         \/ OwnerOf(t)' = NoProcess /\ OwnerOf(t) \notin alive
  BY <1>2 DEF StopStep, WriteStop, PollStop, PollError, StopDeadline, CancelStop, TakeResult, maps,
              OwnerOf, Base, TypeOK, OneRegistry, NoProcess
<1> QED BY <1>1, <1>3, VacateStep

LEMMA StepSlots == Base /\ [Next]_vars => [Slots!Next]_(Slots!vars)
<1> SUFFICES ASSUME Base, [Next]_vars
             PROVE  Slots!Next \/ UNCHANGED Slots!vars
  OBVIOUS
<1>1. ASSUME NEW p \in Pids, ChildExit(p)
      PROVE  Slots!Next
  <2>1. Slots!Exit(p)
    BY <1>1 DEF ChildExit, Slots!Exit, OwnerOf, maps
  <2> QED BY <2>1 DEF Slots!Next, Slots!Pids, Pids
<1>2. CASE UNCHANGED vars
  BY <1>2 DEF vars, Slots!vars, OwnerOf
<1> QED BY <1>1, <1>2, StartSlots, ForceSlots, LookupSlots, BeginStopSlots, StopStepSlots DEF Next

LEMMA InitSlots == Init => Slots!Init
BY DEF Init, Slots!Init, OwnerOf, NoProcess, Slots!NoProcess, NoEndpoint, Slots!NoEndpoint,
       Pids, Slots!Pids

(***************************************************************************)
(* Together the two registries implement one slot per server: whatever     *)
(* sections interleave, a slot is emptied only of an exited child or in    *)
(* the step that terminates it.                                            *)
(***************************************************************************)
THEOREM RegistryImplementsSlots == Spec => SlotsSpec
<1>1. Spec => []Base
  BY InitBase, StepBase, PTL DEF Spec
<1> QED BY <1>1, InitSlots, StepSlots, PTL DEF Spec, SlotsSpec, Slots!Spec

-----------------------------------------------------------------------------
(***************************************************************************)
(* 3. Ownership, preserved by every step of the slots.                     *)
(***************************************************************************)

Ownership == OneServer /\ NoOrphan /\ EndpointExclusive

LEMMA InitOwnership == Init => Ownership
BY DEF Init, Ownership, OneServer, NoOrphan, EndpointExclusive, OwnerOf

(* A child held by a slot is one of those spawned so far.                  *)
LEMMA OwnerType ==
  ASSUME TypeOK
  PROVE  \A t \in Servers : OwnerOf(t) \in 0 .. spawned
BY DEF TypeOK, OwnerOf

LEMMA SlotsOwnership ==
  ASSUME TypeOK, Ownership, Slots!Next
  PROVE  Ownership'
<1> DEFINE O  == [t \in Servers |-> OwnerOf(t)]
           O1 == [t \in Servers |-> OwnerOf(t)']
<1>1. ASSUME NEW S \in SUBSET Servers, Slots!Vacate(S) \/ Slots!LaunchFails(S)
      PROVE  Ownership'
  <2>1. /\ \A t \in Servers : OwnerOf(t)' = IF t \in S THEN NoProcess ELSE OwnerOf(t)
        /\ \A t \in S : OwnerOf(t) \notin alive
        /\ UNCHANGED <<endpoint, alive>>
    <3>1. O1 = Slots!Vacated(S)
      BY <1>1 DEF Slots!Vacate, Slots!LaunchFails
    <3>2. \A t \in Servers : O1[t] = Slots!Vacated(S)[t]
      BY <3>1
    <3> QED BY <1>1, <3>2 DEF Slots!Vacate, Slots!LaunchFails, Slots!Vacated, Slots!Exited,
                              Slots!NoProcess, NoProcess
  <2> QED BY <2>1 DEF Ownership, OneServer, NoOrphan, EndpointExclusive
<1>2. ASSUME NEW S \in SUBSET Servers, NEW s \in Servers, NEW e \in Endpoints, Slots!Launch(s, e, S)
      PROVE  Ownership'
  <2>1. /\ \A t \in Servers \ {s} : OwnerOf(t)' = IF t \in S THEN NoProcess ELSE OwnerOf(t)
        /\ OwnerOf(s)' = spawned + 1
        /\ OwnerOf(s) = NoProcess \/ s \in S
        /\ \A t \in S : OwnerOf(t) \notin alive
        /\ \A t \in Servers \ {s} : OwnerOf(t)' # NoProcess => endpoint[OwnerOf(t)'] # e
    <3>1. O1 = [Slots!Vacated(S) EXCEPT ![s] = spawned + 1]
      BY <1>2 DEF Slots!Launch
    <3>2. /\ \A t \in Servers \ {s} : O1[t] = Slots!Vacated(S)[t]
          /\ O1[s] = spawned + 1
      BY <3>1 DEF Slots!Vacated
    <3>3. \A t \in Servers : Slots!Vacated(S)[t] = IF t \in S THEN NoProcess ELSE OwnerOf(t)
      BY DEF Slots!Vacated, Slots!NoProcess, NoProcess
    <3> QED BY <1>2, <3>2, <3>3 DEF Slots!Launch, Slots!Exited, Slots!NoProcess, NoProcess
  <2>2. /\ endpoint' = [endpoint EXCEPT ![spawned + 1] = e]
        /\ alive' = alive \cup {spawned + 1}
        /\ spawned + 1 \in Pids
    BY <1>2, MaxPidAssumption DEF Slots!Launch, TypeOK, Pids
  <2>3. \A t \in Servers \ {s} : OwnerOf(t)' \in 0 .. spawned
    BY <2>1, OwnerType DEF TypeOK, NoProcess
  <2>4. OneServer'
    BY <2>1, <2>3 DEF Ownership, OneServer, TypeOK, NoProcess
  <2>5. NoOrphan'
    BY <2>1, <2>2, OwnerType DEF Ownership, NoOrphan, TypeOK, NoProcess
  <2>6. EndpointExclusive'
    <3>1. endpoint'[spawned + 1] = e
      BY <2>2 DEF TypeOK
    <3>2. \A t \in Servers \ {s} : OwnerOf(t)' # NoProcess => endpoint'[OwnerOf(t)'] = endpoint[OwnerOf(t)']
      BY <2>2, <2>3, MaxPidAssumption DEF TypeOK, Pids, NoProcess
    <3>3. \A t \in Servers \ {s} : OwnerOf(t)' # NoProcess => OwnerOf(t)' = OwnerOf(t)
      BY <2>1
    <3> QED BY <2>1, <3>1, <3>2, <3>3 DEF Ownership, EndpointExclusive
  <2> QED BY <2>4, <2>5, <2>6 DEF Ownership
<1>3. ASSUME NEW p \in Pids, Slots!Exit(p)
      PROVE  Ownership'
  <2>1. O1 = O /\ alive' = alive \ {p} /\ UNCHANGED endpoint
    BY <1>3 DEF Slots!Exit
  <2>2. \A t \in Servers : OwnerOf(t)' = OwnerOf(t)
    <3>1. \A t \in Servers : O1[t] = O[t]
      BY <2>1
    <3> QED BY <3>1
  <2> QED BY <2>1, <2>2 DEF Ownership, OneServer, NoOrphan, EndpointExclusive
<1>4. ASSUME NEW s \in Servers, Slots!Terminate(s)
      PROVE  Ownership'
  <2>1. O1 = [O EXCEPT ![s] = NoProcess] /\ alive' = alive \ {O[s]} /\ UNCHANGED endpoint
    BY <1>4 DEF Slots!Terminate, Slots!NoProcess, NoProcess
  <2>2. \A t \in Servers : OwnerOf(t)' = IF t = s THEN NoProcess ELSE OwnerOf(t)
    <3>1. \A t \in Servers : O1[t] = [O EXCEPT ![s] = NoProcess][t]
      BY <2>1
    <3> QED BY <3>1
  <2> QED BY <2>1, <2>2 DEF Ownership, OneServer, NoOrphan, EndpointExclusive
<1> QED BY <1>1, <1>2, <1>3, <1>4 DEF Slots!Next, Slots!Pids, Pids

(***************************************************************************)
(* No child is lost and none is shared: a live child is always held by a   *)
(* registry, for one server, and on an endpoint no other held child has.   *)
(***************************************************************************)
THEOREM RegistryOwnership == Spec => [](NoOrphan /\ OneServer /\ EndpointExclusive)
<1> DEFINE IInv == Base /\ Ownership
<1>1. Init => IInv
  BY InitBase, InitOwnership
<1>2. IInv /\ [Next]_vars => IInv'
  <2> SUFFICES ASSUME IInv, [Next]_vars PROVE Ownership'
    BY StepBase
  <2>1. CASE Slots!Next
    BY <2>1, SlotsOwnership DEF Base
  <2>2. CASE UNCHANGED Slots!vars
    <3>1. [t \in Servers |-> OwnerOf(t)'] = [t \in Servers |-> OwnerOf(t)]
      BY <2>2 DEF Slots!vars
    <3>2. \A t \in Servers : OwnerOf(t)' = OwnerOf(t)
      <4>1. \A t \in Servers : [u \in Servers |-> OwnerOf(u)'][t] = [u \in Servers |-> OwnerOf(u)][t]
        BY <3>1
      <4> QED BY <4>1
    <3> QED BY <2>2, <3>2 DEF Slots!vars, Ownership, OneServer, NoOrphan, EndpointExclusive
  <2> QED BY <2>1, <2>2, StepSlots
<1> QED BY <1>1, <1>2, PTL DEF Spec, Ownership

-----------------------------------------------------------------------------
(***************************************************************************)
(* 4. What a graceful stop reports.                                        *)
(***************************************************************************)
(* A stop that is under way finds its child, while that lives, in the      *)
(* stopping registry.                                                      *)
StopsHold ==
  \A c \in Callers :
    /\ call[c].phase \in Pending \cup Finished => call[c].pid <= spawned
    /\ call[c].phase \in Pending /\ call[c].pid \in alive => stopping[call[c].server] = call[c].pid
    /\ call[c].phase = "ok" => call[c].pid \notin alive

(* The steps outside a stop future: entries leave the stopping registry    *)
(* only when their child has ended.                                        *)
LEMMA OutsideStops ==
  ASSUME Base, NEW s \in Servers, Start(s) \/ ForceStop(s) \/ Lookup(s)
  PROVE  /\ UNCHANGED call /\ spawned' \in {spawned, spawned + 1}
         /\ alive' \subseteq alive \cup {spawned + 1}
         /\ spawned + 1 \in alive' => spawned' = spawned + 1
         /\ \A t \in Servers : stopping[t] \in alive' => stopping'[t] = stopping[t]
<1>1. spawned \in Nat /\ alive \subseteq 1 .. spawned /\ NoProcess \notin alive
  BY MaxPidAssumption DEF Base, TypeOK, NoProcess
<1>2. CASE Start(s)
  <2>1. /\ stopping' = Reap(stopping, Servers) /\ UNCHANGED call
        /\ \/ UNCHANGED <<spawned, alive>>
           \/ spawned' = spawned + 1 /\ alive' \subseteq alive \cup {spawned + 1}
    BY <1>2 DEF Start, StartWhileStopping, StartRefused, StartFailsAfterSpawn, StartSucceeds, child
  <2>2. \A t \in Servers : stopping[t] \in alive => stopping'[t] = stopping[t]
    BY <2>1 DEF Reap
  <2>3. \A t \in Servers : stopping[t] # spawned + 1
    BY <1>1 DEF Base, TypeOK
  <2> QED BY <1>1, <2>1, <2>2, <2>3
<1>3. CASE Lookup(s)
  <2>1. /\ stopping' \in {stopping, Reap(stopping, {s})}
        /\ UNCHANGED <<alive, spawned, call>>
    BY <1>3 DEF Lookup, IsRunning, IsStopping, IsBusy, child
  <2> QED BY <1>1, <2>1 DEF Reap
<1>4. CASE ForceStop(s)
  <2>1. UNCHANGED <<spawned, call>> /\ alive' \subseteq alive
    BY <1>4 DEF ForceStop, ForceKills, ForceFails, ForceFindsNothing, child
  <2>2. CASE ForceKills(s)
    BY <1>1, <2>1, <2>2 DEF ForceKills, ForceTarget, Reap, Base, TypeOK
  <2>3. ASSUME NEW killed \in BOOLEAN, ForceFails(s, killed)
        PROVE  \A t \in Servers : stopping[t] \in alive' => stopping'[t] = stopping[t]
    <3>1. stopping' = [stopping EXCEPT ![s] = ForceTarget(s)] /\ stopping \in [Servers -> 0 .. spawned]
      BY <2>3 DEF ForceFails, Base, TypeOK
    <3>2. stopping[s] \in alive => ForceTarget(s) = stopping[s]
      BY <1>1 DEF ForceTarget, Reap
    <3> QED BY <2>1, <3>1, <3>2
  <2>4. ASSUME ForceFindsNothing(s)
        PROVE  \A t \in Servers : stopping[t] \in alive' => stopping'[t] = stopping[t]
    BY <2>1, <2>4 DEF ForceFindsNothing, Reap
  <2> QED BY <1>1, <1>4, <2>1, <2>2, <2>3, <2>4 DEF ForceStop
<1> QED BY <1>2, <1>3, <1>4

LEMMA StepStopsHold ==
  ASSUME ~StdinBreaks \/ \A c, d \in Callers : c = d,
         Base, StopsHold, [Next]_vars
  PROVE  StopsHold'
<1>1. /\ spawned \in Nat /\ alive \subseteq 1 .. spawned /\ NoProcess \notin alive
      /\ \A c \in Callers : /\ call[c] \in {Idle} \cup CallRecords
                            /\ call[c].phase \in Pending \cup Finished => call[c] \in CallRecords
  BY MaxPidAssumption DEF Base, TypeOK, NoProcess, Idle, Pending, Finished
<1>2. ASSUME NEW s \in Servers, Start(s) \/ ForceStop(s) \/ Lookup(s)
      PROVE  StopsHold'
  <2>1. /\ UNCHANGED call /\ spawned' \in {spawned, spawned + 1}
        /\ alive' \subseteq alive \cup {spawned + 1}
        /\ \A t \in Servers : stopping[t] \in alive' => stopping'[t] = stopping[t]
    BY <1>2, OutsideStops
  <2>2. \A c \in Callers : call[c].phase \in Pending \cup Finished => call[c].pid \in Nat /\ call[c].server \in Servers
    BY <1>1 DEF CallRecords, Pids
  <2> QED BY <1>1, <2>1, <2>2 DEF StopsHold, Finished
<1>3. ASSUME NEW c \in Callers, NEW s \in Servers, BeginStop(c, s)
      PROVE  StopsHold'
  <2> DEFINE st == Reap(stopping, {s})
             ru == Reap(running, {s})
  <2>1. /\ st \in [Servers -> 0 .. spawned] /\ ru \in [Servers -> 0 .. spawned]
        /\ \A t \in Servers : stopping[t] \in alive => st[t] = stopping[t]
    BY <1>1, ReapOne DEF Reap
  <2>2. UNCHANGED <<alive, spawned>>
    BY <1>3 DEF BeginStop, child
  <2> HIDE DEF st, ru
  <2>3. CASE stopping' = st /\ UNCHANGED call
    BY <1>1, <2>1, <2>2, <2>3 DEF StopsHold, CallRecords
  <2>4. CASE /\ st[s] = NoProcess /\ ru[s] # NoProcess
             /\ stopping' = [st EXCEPT ![s] = ru[s]]
             /\ call' = [call EXCEPT ![c] = [phase |-> "begun", server |-> s, pid |-> ru[s]]]
    <3>1. call'[c] = [phase |-> "begun", server |-> s, pid |-> ru[s]] /\ \A d \in Callers \ {c} : call'[d] = call[d]
      BY <2>4 DEF Base, TypeOK
    <3>2. stopping'[s] = ru[s] /\ \A t \in Servers \ {s} : stopping'[t] = st[t]
      BY <2>1, <2>4
    <3>3. stopping[s] \notin alive
      BY <1>1, <2>1, <2>4
    <3>4. ru[s] <= spawned
      BY <2>1
    <3> QED BY <1>1, <2>1, <2>2, <3>1, <3>2, <3>3, <3>4 DEF StopsHold, CallRecords
  <2> QED BY <1>3, <2>3, <2>4 DEF BeginStop, st, ru
<1>4. ASSUME NEW c \in Callers, StopStep(c)
      PROVE  StopsHold'
  <2>1. UNCHANGED <<alive, spawned>>
    BY <1>4 DEF StopStep, WriteStop, PollStop, PollError, StopDeadline, CancelStop, TakeResult, child
  <2>2. /\ \A d \in Callers \ {c} : call'[d] = call[d]
        /\ call'[c] = Idle \/ /\ call[c].phase \in Pending /\ call'[c].pid = call[c].pid
                              /\ call'[c].server = call[c].server
    BY <1>1, <1>4 DEF StopStep, WriteStop, PollStop, PollError, StopDeadline, CancelStop, TakeResult,
          Base, TypeOK, CallRecords, Pending
  <2>3. CASE CancelStop(c) \/ TakeResult(c) \/ StopDeadline(c) \/ PollError(c)
    BY <1>1, <2>1, <2>2, <2>3 DEF CancelStop, TakeResult, StopDeadline, PollError, maps, StopsHold, Idle, Pending, Finished,
          Base, TypeOK, CallRecords
  <2>4. CASE PollStop(c)
    <3>1. /\ call[c].phase = "waiting" /\ call'[c].phase = "ok" /\ call[c].server \in Servers
          /\ stopping[call[c].server] \notin alive
          /\ \A t \in Servers : stopping[t] \in alive => stopping'[t] = stopping[t]
      BY <1>1, <2>4 DEF PollStop, Base, TypeOK, CallRecords, Pending
    <3> QED BY <1>1, <2>1, <2>2, <3>1 DEF StopsHold, CallRecords, Pending, Finished, Idle
  <2>5. CASE WriteStop(c)
    <3>1. call[c].phase = "begun" /\ call[c].server \in Servers /\ call[c] \in CallRecords
      BY <1>1, <2>5 DEF WriteStop, CallRecords, Pending
    <3>2. CASE UNCHANGED stopping
      <4>1. call'[c].phase \in {"ok", "waiting", "failed"} /\ (call'[c].phase = "ok" => stopping[call[c].server] = NoProcess)
        BY <2>5, <3>1 DEF WriteStop, Base, TypeOK, CallRecords
      <4> QED BY <1>1, <2>1, <2>2, <3>1, <3>2, <4>1 DEF StopsHold, CallRecords, Pending, Finished, Idle
    <3>3. CASE StdinBreaks /\ call'[c].phase = "failed"
      BY <1>1, <2>1, <2>2, <3>1, <3>3 DEF StopsHold, CallRecords, Pending, Finished, Idle
    <3>4. UNCHANGED stopping \/ (StdinBreaks /\ call'[c].phase = "failed")
      BY <2>5, <3>1 DEF WriteStop, maps, Base, TypeOK, CallRecords
    <3> QED BY <3>2, <3>3, <3>4
  <2> QED BY <1>4, <2>3, <2>4, <2>5 DEF StopStep
<1>5. ASSUME NEW p \in Pids, ChildExit(p)
      PROVE  StopsHold'
  BY <1>5 DEF ChildExit, maps, StopsHold
<1>6. CASE UNCHANGED vars
  BY <1>6 DEF vars, StopsHold
<1> QED BY <1>2, <1>3, <1>4, <1>5, <1>6 DEF Next

(***************************************************************************)
(* A graceful stop that reports success has ended the child it took over,  *)
(* when the stop command can always be written, or when stops do not       *)
(* overlap: a failed write moves whatever child the server has by then     *)
(* back to running, also one that another stop waits for.                  *)
(***************************************************************************)
THEOREM StoppedHasExited ==
  ASSUME ~StdinBreaks \/ \A c, d \in Callers : c = d
  PROVE  Spec => []StopOkMeansExited
<1>1. Init => StopsHold
  BY DEF Init, StopsHold, Idle, Pending, Finished
<1>2. Base /\ StopsHold /\ [Next]_vars => StopsHold'
  BY StepStopsHold
<1>3. StopsHold => StopOkMeansExited
  BY DEF StopsHold, StopOkMeansExited
<1> QED BY <1>1, <1>2, <1>3, InitBase, StepBase, PTL DEF Spec
=============================================================================
