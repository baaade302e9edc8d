------------------------ MODULE StatusProbe_proofs ------------------------
(***************************************************************************)
(* Proofs about StatusProbe, for any servers, pollers, stop callers and    *)
(* number of children.  The plan:                                          *)
(*   1. a runtime_status call only does what the registries allow, so what *)
(*      is proved of the registries holds while servers are polled;        *)
(*   2. a child that lives leaves both registries never, and returns from  *)
(*      the stopping registry to the running one only when a stop command  *)
(*      could not be written, which the calls note (Onward);               *)
(*   3. so a call that lost its child knows where it went, unless the      *)
(*      child was put back, and where stop commands can always be written  *)
(*      the mark of a running child belongs to a call that will clear it   *)
(*      (PollInv).                                                         *)
(***************************************************************************)
EXTENDS StatusProbe, ProcessRegistry_proofs

Answers == [phase : {"done"}, state : States, witness : 0 .. spawned, putBack : BOOLEAN]
Calls   == [phase : InCall, state : {"starting", "running"}, server : Servers,
            pid : 0 .. spawned, witness : 0 .. spawned, putBack : BOOLEAN]

(* The types, and that the pids in use are those spawned so far.           *)
PollTypes ==
  /\ health \in [Pids -> {"starting", "ready", "failed"}]
  /\ inFlight \subseteq 1 .. spawned
  /\ cached \in [Pids -> {NoCache, "crashed", "starting", "running"}]
  /\ poll \in [Pollers -> {Quiet} \cup Answers \cup Calls]

-----------------------------------------------------------------------------
(***************************************************************************)
(* 1. The registries                                                       *)
(***************************************************************************)
LEMMA CallShape ==
  ASSUME PollTypes, NEW w \in Pollers
  PROVE  /\ poll[w].phase \in InCall => poll[w] \in Calls
         /\ poll[w].phase = "done" => poll[w] \in Answers
BY DEF PollTypes, Calls, Answers, InCall, Quiet

LEMMA PollIsNext ==
  ASSUME Base, PollTypes, [ProbeNext]_statusVars
  PROVE  [Next]_vars
<1>1. ASSUME NEW w \in Pollers, NEW s \in Servers, BeginPoll(w, s)
      PROVE  Next
  <2>1. IsStopping(s)
    BY <1>1 DEF BeginPoll, IsStopping
  <2> QED BY <2>1 DEF Next, Lookup
<1>2. ASSUME NEW w \in Pollers, Recheck(w)
      PROVE  Next
  <2>1. poll[w].server \in Servers /\ IsStopping(poll[w].server)
    BY <1>2, CallShape DEF Recheck, IsStopping, InCall, Calls
  <2> QED BY <2>1 DEF Next, Lookup
<1>3. ASSUME NEW w \in Pollers, LookupExited(w)
      PROVE  Next
  <2>1. poll[w].server \in Servers
    BY <1>3, CallShape DEF LookupExited, InCall, Calls
  <2>2. running' = Reap(running, {poll[w].server})
    BY <1>3, <2>1 DEF LookupExited, Reap, Base, TypeOK
  <2>3. IsRunning(poll[w].server)
    BY <1>3, <2>2 DEF LookupExited, IsRunning
  <2> QED BY <2>1, <2>3 DEF Next, Lookup
<1>4. ASSUME NEW w \in Pollers, \/ LookupAbsent(w) \/ LookupFailed(w) \/ LookupCached(w)
                                \/ LookupProbes(w) \/ Sample(w) \/ Store(w)
      PROVE  UNCHANGED vars
  BY <1>4 DEF LookupAbsent, LookupFailed, LookupCached, LookupProbes, Sample, Store
<1>5. ASSUME NEW p \in Pids, BecomeReady(p) \/ LaunchError(p)
      PROVE  UNCHANGED vars
  BY <1>5 DEF BecomeReady, LaunchError
<1>6. CASE UNCHANGED statusVars
  BY <1>6 DEF statusVars
<1> QED BY <1>1, <1>2, <1>3, <1>4, <1>5, <1>6 DEF ProbeNext, PollStep, RegistryStep

(* The record of a call that looks again, or goes on.                      *)
LEMMA CallUpdates ==
  ASSUME PollTypes, NEW w \in Pollers
  PROVE  /\ LookAgain(w) <=> poll' = [poll EXCEPT ![w] = [poll[w] EXCEPT !.phase = "recheck", !.pid = NoProcess]]
         /\ \A state : [poll EXCEPT ![w].phase = "sampled", ![w].state = state]
                      = [poll EXCEPT ![w] = [poll[w] EXCEPT !.phase = "sampled", !.state = state]]
BY DEF LookAgain, PollTypes

LEMMA InitPollTypes == ProbeInit => PollTypes
BY DEF ProbeInit, Init, PollTypes, Quiet, NoCache

LEMMA SpawnedGrows ==
  ASSUME Base, [Next]_vars
  PROVE  spawned \in Nat /\ spawned' \in Nat /\ spawned <= spawned'
<1>1. ASSUME NEW s \in Servers, Start(s) \/ ForceStop(s) \/ Lookup(s)
      PROVE  spawned' \in {spawned, spawned + 1}
  BY <1>1, OutsideStops
<1>2. ASSUME NEW c \in Callers, NEW s \in Servers, BeginStop(c, s)
      PROVE  spawned' = spawned
  BY <1>2 DEF BeginStop, child
<1>3. ASSUME NEW c \in Callers, StopStep(c)
      PROVE  spawned' = spawned
  BY <1>3 DEF StopStep, WriteStop, PollStop, PollError, StopDeadline, CancelStop, TakeResult, child
<1>4. ASSUME NEW p \in Pids, ChildExit(p)
      PROVE  spawned' = spawned
  BY <1>4 DEF ChildExit
<1>5. spawned \in Nat
  BY MaxPidAssumption DEF Base, TypeOK
<1>6. spawned' \in {spawned, spawned + 1}
  BY <1>1, <1>2, <1>3, <1>4 DEF Next, vars
<1> QED BY <1>5, <1>6

LEMMA PollTypesStep ==
  ASSUME Base, PollTypes, [ProbeNext]_statusVars
  PROVE  PollTypes'
<1>1. /\ spawned \in Nat /\ spawned' \in Nat /\ spawned <= spawned'
      /\ \A s \in Servers : OwnerOf(s) \in 0 .. spawned /\ running[s] \in 0 .. spawned /\ running[s] \in Pids \cup {NoProcess}
  BY PollIsNext, SpawnedGrows, MaxPidAssumption DEF Base, TypeOK, OwnerOf, Pids, NoProcess
<1>2. Answers \subseteq Answers' /\ Calls \subseteq Calls'
  BY <1>1 DEF Answers, Calls
<1>3. inFlight \subseteq 1 .. spawned' /\ poll \in [Pollers -> {Quiet} \cup Answers' \cup Calls']
  BY <1>1, <1>2 DEF PollTypes
<1>4. CASE UNCHANGED <<health, marks>> /\ poll' = [w \in Pollers |-> Noted(w)]
  <2>1. \A w \in Pollers : Noted(w) \in {Quiet} \cup Answers \cup Calls
    <3>1. ASSUME NEW w \in Pollers, poll[w].phase \in InCall
          PROVE  [poll[w] EXCEPT !.putBack = TRUE] \in Calls
      BY <3>1, CallShape DEF Calls
    <3> QED BY <3>1 DEF PollTypes, Noted
  <2>2. poll' \in [Pollers -> {Quiet} \cup Answers' \cup Calls']
    BY <1>2, <1>4, <2>1
  <2> QED BY <1>3, <1>4, <2>2 DEF PollTypes, marks
<1>5. ASSUME NEW w \in Pollers, NEW r \in Answers' \cup Calls', poll' = [poll EXCEPT ![w] = r],
             UNCHANGED health, inFlight' \subseteq 1 .. spawned',
             cached' \in [Pids -> {NoCache, "crashed", "starting", "running"}]
      PROVE  PollTypes'
  BY <1>3, <1>5 DEF PollTypes
<1>6. ASSUME NEW w \in Pollers, NEW s \in Servers, BeginPoll(w, s)
      PROVE  PollTypes'
  <2>1. Answer(StoppingStatus(s), OwnerOf(s), FALSE) \in Answers
    BY <1>1 DEF Answer, Answers, StoppingStatus, States, NoProcess
  <2>2. [phase |-> "lookup", state |-> "starting", server |-> s, pid |-> NoProcess,
         witness |-> OwnerOf(s), putBack |-> FALSE] \in Calls
    BY <1>1 DEF Calls, InCall, NoProcess
  <2> QED BY <1>2, <1>3, <1>5, <1>6, <2>1, <2>2 DEF BeginPoll, marks, PollTypes
<1>7. ASSUME NEW w \in Pollers, PollStep(w)
      PROVE  PollTypes'
  <2>1. poll[w] \in Calls
    <3>1. CASE Recheck(w) \/ LookupAbsent(w) \/ LookupExited(w) \/ LookupFailed(w)
      BY <3>1, CallShape DEF Recheck, LookupAbsent, LookupExited, LookupFailed, InCall
    <3>2. CASE LookupCached(w) \/ LookupProbes(w) \/ Sample(w) \/ Store(w)
      BY <3>2, CallShape DEF LookupCached, LookupProbes, Sample, Store, InCall
    <3> QED BY <1>7, <3>1, <3>2 DEF PollStep
  <2>2. /\ poll[w].witness \in 0 .. spawned /\ poll[w].state \in {"starting", "running"}
        /\ poll[w].server \in Servers /\ poll[w].putBack \in BOOLEAN /\ UNCHANGED health
    BY <1>7, <2>1 DEF Calls, PollStep, Recheck, LookupAbsent, LookupExited, LookupFailed, LookupCached, LookupProbes, Sample, Store
  <2>3. \A state \in States : Answer(state, poll[w].witness, poll[w].putBack) \in Answers'
    BY <1>1, <1>2, <2>2 DEF Answer, Answers, NoProcess
  <2>4. [poll[w] EXCEPT !.phase = "recheck", !.pid = NoProcess] \in Calls'
    <3>1. NoProcess \in 0 .. spawned /\ "recheck" \in InCall
      BY <1>1 DEF NoProcess, InCall
    <3>2. [poll[w] EXCEPT !.phase = "recheck", !.pid = NoProcess] \in Calls
      BY <2>1, <3>1 DEF Calls
    <3> QED BY <1>2, <3>2
  <2>5. CASE Recheck(w)
    BY <1>3, <1>5, <2>3, <2>5 DEF Recheck, Report, States, StoppingStatus, marks, PollTypes
  <2>6. CASE LookupAbsent(w)
    BY <1>3, <1>5, <2>4, <2>6 DEF LookupAbsent, LookAgain, marks, PollTypes, InCall
  <2>7. CASE LookupExited(w)
    BY <1>3, <1>5, <2>3, <2>7 DEF LookupExited, Report, States, marks, PollTypes
  <2>8. CASE LookupFailed(w)
    BY <1>3, <1>5, <2>3, <2>8 DEF LookupFailed, Report, States, PollTypes
  <2>9. CASE LookupCached(w)
    <3>1. running[poll[w].server] \in Pids
      BY <1>1, <2>2, <2>9 DEF LookupCached, Base, TypeOK, NoProcess, Pids
    <3> QED BY <1>3, <1>5, <2>3, <2>9, <3>1 DEF LookupCached, Report, States, marks, PollTypes, NoCache
  <2>10. CASE LookupProbes(w)
    <3>1. running[poll[w].server] \in 1 .. spawned
      BY <1>1, <2>2, <2>10 DEF LookupProbes, Base, TypeOK
    <3>2. [poll[w] EXCEPT !.phase = "pinging", !.pid = running[poll[w].server],
                          !.state = Found(running[poll[w].server], @)] \in Calls'
      BY <1>1, <1>2, <2>1, <3>1 DEF Calls, Found, InCall
    <3>3. poll' = [poll EXCEPT ![w] = [poll[w] EXCEPT !.phase = "pinging", !.pid = running[poll[w].server],
                                                      !.state = Found(running[poll[w].server], @)]]
      BY <2>10 DEF LookupProbes, PollTypes
    <3> QED BY <1>1, <1>3, <1>5, <2>10, <3>1, <3>2, <3>3 DEF LookupProbes, PollTypes
  <2>11. CASE Sample(w)
    <3>1. [poll[w] EXCEPT !.phase = "sampled", !.state = Found(poll[w].pid, @)] \in Calls'
      BY <1>1, <1>2, <2>1 DEF Calls, Found, InCall
    <3>2. UNCHANGED <<inFlight, cached>> /\ cached \in [Pids -> {NoCache, "crashed", "starting", "running"}]
      BY <2>11 DEF Sample, marks, PollTypes
    <3>3. "recheck" \in InCall
      BY DEF InCall
    <3>4. \/ poll' = [poll EXCEPT ![w] = [poll[w] EXCEPT !.phase = "recheck", !.pid = NoProcess]]
          \/ poll' = [poll EXCEPT ![w] = [poll[w] EXCEPT !.phase = "sampled", !.state = Found(poll[w].pid, @)]]
      BY <2>11, CallUpdates DEF Sample
    <3> QED BY <1>3, <1>5, <2>2, <2>4, <3>1, <3>2, <3>3, <3>4
  <2>12. CASE Store(w)
    <3>1. inFlight' \subseteq 1 .. spawned' /\ cached' \in [Pids -> {NoCache, "crashed", "starting", "running"}]
      BY <1>3, <2>2, <2>12 DEF Store, PollTypes
    <3>2. "recheck" \in InCall /\ poll[w].state \in States /\ "starting" \in States
      BY <2>2 DEF InCall, States
    <3>3. \/ poll' = [poll EXCEPT ![w] = [poll[w] EXCEPT !.phase = "recheck", !.pid = NoProcess]]
          \/ poll' = [poll EXCEPT ![w] = Answer("starting", poll[w].witness, poll[w].putBack)]
          \/ poll' = [poll EXCEPT ![w] = Answer(poll[w].state, poll[w].witness, poll[w].putBack)]
      BY <2>12, CallUpdates DEF Store, Report
    <3> QED BY <1>5, <2>2, <2>3, <2>4, <3>1, <3>2, <3>3
  <2> QED BY <1>7, <2>5, <2>6, <2>7, <2>8, <2>9, <2>10, <2>11, <2>12 DEF PollStep
<1>8. ASSUME NEW p \in Pids, BecomeReady(p) \/ LaunchError(p)
      PROVE  PollTypes'
  BY <1>3, <1>8 DEF BecomeReady, LaunchError, marks, PollTypes
<1>9. CASE UNCHANGED statusVars
  BY <1>3, <1>9 DEF statusVars, probeVars, PollTypes
<1> QED BY <1>4, <1>6, <1>7, <1>8, <1>9 DEF ProbeNext, RegistryStep

LEMMA PollTypesHold == ProbeSpec => [](Base /\ PollTypes)
<1>1. ProbeInit => Base /\ PollTypes
  BY InitBase, InitPollTypes DEF ProbeInit
<1>2. Base /\ PollTypes /\ [ProbeNext]_statusVars => Base' /\ PollTypes'
  BY PollIsNext, StepBase, PollTypesStep
<1> QED BY <1>1, <1>2, PTL DEF ProbeSpec

(* Polling a server only does to the registries what they allow anyway, so *)
(* every theorem about them holds of the polled application.               *)
THEOREM ProbeImplementsRegistry == ProbeSpec => Spec
<1>1. ProbeInit => Init
  BY DEF ProbeInit
<1> QED BY <1>1, PollIsNext, PollTypesHold, PTL DEF ProbeSpec, Spec

(* The types of the run, from the inductive ones.                          *)
THEOREM ProbeTypes == ProbeSpec => []ProbeTypeOK
<1>1. Base /\ PollTypes => ProbeTypeOK
  <2> SUFFICES ASSUME Base, PollTypes PROVE ProbeTypeOK
    OBVIOUS
  <2>1. spawned \in Nat /\ MaxPid \in Nat /\ spawned <= MaxPid
    BY MaxPidAssumption DEF Base, TypeOK
  <2>2. Answers \subseteq [phase : {"done"}, state : States, witness : 0 .. MaxPid, putBack : BOOLEAN]
    BY <2>1 DEF Answers
  <2>3. Calls \subseteq [phase : InCall, state : States, server : Servers,
                         pid : 0 .. MaxPid, witness : 0 .. MaxPid, putBack : BOOLEAN]
    BY <2>1 DEF Calls, States
  <2>4. inFlight \subseteq Pids /\ cached \in [Pids -> States \cup {NoCache}]
    BY <2>1 DEF PollTypes, Pids, States
  <2> QED BY <2>2, <2>3, <2>4 DEF PollTypes, ProbeTypeOK
<1> QED BY <1>1, PollTypesHold, PTL

-----------------------------------------------------------------------------
(***************************************************************************)
(* 2. Children move from running to stopping, and seldom back              *)
(***************************************************************************)
LEMMA Onward ==
  ASSUME Base, [Next]_vars
  PROVE  /\ alive' \subseteq alive \cup {spawned + 1}
         /\ \A s \in Servers :
              /\ stopping[s] \in alive' => stopping'[s] = stopping[s] \/ PutBack(s)
              /\ running[s] \in alive' => running'[s] = running[s] \/ stopping'[s] = running[s]
              /\ running'[s] \in {running[s], NoProcess, spawned + 1} \/ (StdinBreaks /\ PutBack(s))
<1>1. /\ spawned \in Nat /\ alive \subseteq 1 .. spawned /\ NoProcess \notin alive
      /\ \A s \in Servers : stopping[s] \in 0 .. spawned /\ running[s] \in 0 .. spawned
      /\ running \in [Servers -> 0 .. spawned] /\ stopping \in [Servers -> 0 .. spawned]
  BY MaxPidAssumption DEF Base, TypeOK, NoProcess
<1>2. ASSUME NEW t \in Servers, Start(t) \/ ForceStop(t) \/ Lookup(t)
      PROVE  /\ alive' \subseteq alive \cup {spawned + 1}
             /\ \A s \in Servers : stopping[s] \in alive' => stopping'[s] = stopping[s]
  BY <1>2, OutsideStops
<1>3. ASSUME NEW t \in Servers, Start(t), NEW s \in Servers
      PROVE  /\ running[s] \in alive' => running'[s] = running[s] \/ stopping'[s] = running[s]
             /\ running'[s] \in {running[s], NoProcess, spawned + 1}
  <2>1. running[s] # spawned + 1 /\ (running[s] \in alive' => running[s] \in alive)
    BY <1>1, <1>2, <1>3
  <2>2. CASE StartWhileStopping(t) \/ StartRefused(t)
    BY <2>1, <2>2 DEF StartWhileStopping, StartRefused, Reap
  <2>3. ASSUME NEW e \in Endpoints, StartFailsAfterSpawn(t, e) \/ StartSucceeds(t, e)
        PROVE  /\ running[s] \in alive' => running'[s] = running[s]
               /\ running'[s] \in {running[s], NoProcess, spawned + 1}
    <3>1. Reap(running, Servers)[t] = NoProcess
      BY <2>3 DEF StartFailsAfterSpawn, StartSucceeds, CanLaunch
    <3>2. running'[s] = Reap(running, Servers)[s] \/ (s = t /\ running'[s] = spawned + 1)
      BY <2>3 DEF StartFailsAfterSpawn, StartSucceeds, Reap
    <3> QED BY <1>1, <2>1, <3>1, <3>2 DEF Reap
  <2> QED BY <1>3, <2>2, <2>3 DEF Start
<1>4. ASSUME NEW t \in Servers, ForceStop(t), NEW s \in Servers
      PROVE  /\ running[s] \in alive' => running'[s] = running[s] \/ stopping'[s] = running[s]
             /\ running'[s] \in {running[s], NoProcess, spawned + 1}
  <2>1. CASE ForceFindsNothing(t)
    BY <2>1 DEF ForceFindsNothing, Reap, child
  <2>2. CASE ForceKills(t) \/ \E killed \in BOOLEAN : ForceFails(t, killed)
    <3>1. /\ alive' \subseteq alive /\ running' = ForcedFrom(t)
          /\ \/ alive' = alive \ {ForceTarget(t)} 
             \/ stopping' = [stopping EXCEPT ![t] = ForceTarget(t)]
      BY <2>2 DEF ForceKills, ForceFails
    <3>2. ForcedFrom(t) = running \/ /\ ForcedFrom(t) = [running EXCEPT ![t] = NoProcess]
                                     /\ ForceTarget(t) = Reap(running, {t})[t]
      BY DEF ForcedFrom, ForceTarget
    <3>3. Reap(running, {t})[t] = IF running[t] \notin alive THEN NoProcess ELSE running[t]
      BY DEF Reap
    <3> QED BY <1>1, <3>1, <3>2, <3>3
  <2> QED BY <1>4, <2>1, <2>2 DEF ForceStop
<1>5. ASSUME NEW t \in Servers, Lookup(t), NEW s \in Servers
      PROVE  /\ running[s] \in alive' => running'[s] = running[s]
             /\ running'[s] \in {running[s], NoProcess, spawned + 1}
  BY <1>5 DEF Lookup, IsRunning, IsStopping, IsBusy, Reap, child
<1>6. ASSUME NEW c \in Callers, NEW t \in Servers, BeginStop(c, t), NEW s \in Servers
      PROVE  /\ UNCHANGED alive
             /\ stopping[s] \in alive' => stopping'[s] = stopping[s]
             /\ running[s] \in alive' => running'[s] = running[s] \/ stopping'[s] = running[s]
             /\ running'[s] \in {running[s], NoProcess, spawned + 1}
  <2> DEFINE st == Reap(stopping, {t})
             ru == Reap(running, {t})
  <2>1. /\ st \in [Servers -> 0 .. spawned] /\ ru \in [Servers -> 0 .. spawned]
        /\ st[s] \in {stopping[s], NoProcess} /\ ru[s] \in {running[s], NoProcess}
        /\ (stopping[s] \in alive => st[s] = stopping[s]) /\ (running[s] \in alive => ru[s] = running[s])
    BY <1>1, ReapOne DEF Reap
  <2>2. UNCHANGED alive
    BY <1>6 DEF BeginStop, child
  <2>3. \/ stopping' = st /\ running' \in {running, ru}
        \/ /\ st[t] = NoProcess /\ stopping' = [st EXCEPT ![t] = ru[t]]
           /\ running' = [ru EXCEPT ![t] = NoProcess]
    BY <1>6 DEF BeginStop
  <2> HIDE DEF st, ru
  <2>4. CASE stopping' = st /\ running' \in {running, ru}
    BY <1>1, <2>1, <2>2, <2>4
  <2>5. CASE /\ st[t] = NoProcess /\ stopping' = [st EXCEPT ![t] = ru[t]]
             /\ running' = [ru EXCEPT ![t] = NoProcess]
    <3>1. CASE s = t
      BY <1>1, <2>1, <2>2, <2>5, <3>1
    <3>2. CASE s # t
      <4>1. stopping'[s] = st[s] /\ running'[s] = ru[s]
        BY <2>1, <2>5, <3>2
      <4> QED BY <1>1, <2>1, <2>2, <4>1
    <3> QED BY <3>1, <3>2
  <2> QED BY <2>3, <2>4, <2>5
<1>7. ASSUME NEW c \in Callers, StopStep(c), NEW s \in Servers
      PROVE  /\ UNCHANGED alive
             /\ \/ UNCHANGED running /\ (stopping[s] \in alive => stopping'[s] = stopping[s])
                \/ StdinBreaks /\ PutBack(s) /\ running[s] = NoProcess
                \/ running'[s] = running[s] /\ stopping'[s] = stopping[s]
  <2>1. CASE PollStop(c)
    BY <1>1, <2>1 DEF PollStop, child
  <2>2. CASE WriteStop(c)
    <3>1. UNCHANGED alive
      BY <2>2 DEF WriteStop, child
    <3>2. CASE UNCHANGED maps
      BY <3>1, <3>2 DEF maps
    <3>3. CASE /\ StdinBreaks
               /\ stopping[call[c].server] # NoProcess
               /\ running'  = [running EXCEPT ![call[c].server] = stopping[call[c].server]]
               /\ stopping' = [stopping EXCEPT ![call[c].server] = NoProcess]
      BY <1>1, <3>1, <3>3 DEF PutBack, Base, OneRegistry
    <3> QED BY <2>2, <3>2, <3>3 DEF WriteStop
  <2>3. CASE PollError(c) \/ StopDeadline(c) \/ CancelStop(c) \/ TakeResult(c)
    BY <2>3 DEF PollError, StopDeadline, CancelStop, TakeResult, child, maps
  <2> QED BY <1>7, <2>1, <2>2, <2>3 DEF StopStep
<1>8. ASSUME NEW p \in Pids, ChildExit(p)
      PROVE  alive' \subseteq alive /\ UNCHANGED <<running, stopping>>
  BY <1>8 DEF ChildExit, maps
<1>9. ASSUME UNCHANGED vars
      PROVE  UNCHANGED <<alive, running, stopping>>
  BY <1>9 DEF vars
<1>10. alive' \subseteq alive \cup {spawned + 1}
  <2>1. CASE \E c \in Callers : StopStep(c)
    <3>1. PICK c \in Callers : StopStep(c)
      BY <2>1
    <3>2. UNCHANGED alive
      BY <3>1 DEF StopStep, WriteStop, PollStop, PollError, StopDeadline, CancelStop, TakeResult, child
    <3> QED BY <3>2
  <2>2. CASE \E c \in Callers, s \in Servers : BeginStop(c, s)
    BY <1>6, <2>2
  <2> QED BY <1>2, <1>8, <1>9, <2>1, <2>2 DEF Next
<1> SUFFICES ASSUME NEW s \in Servers
             PROVE  /\ stopping[s] \in alive' => stopping'[s] = stopping[s] \/ PutBack(s)
                    /\ running[s] \in alive' => running'[s] = running[s] \/ stopping'[s] = running[s]
                    /\ \/ running'[s] \in {running[s], NoProcess, spawned + 1}
                       \/ StdinBreaks /\ PutBack(s)
  BY <1>10
<1>11. CASE \E t \in Servers : Start(t) \/ ForceStop(t) \/ Lookup(t)
  BY <1>2, <1>3, <1>4, <1>5, <1>11
<1>12. CASE \E t \in Servers, c \in Callers : BeginStop(c, t)
  BY <1>6, <1>12
<1>13. CASE \E c \in Callers : StopStep(c)
  BY <1>1, <1>7, <1>13
<1>14. CASE (\E p \in Pids : ChildExit(p)) \/ UNCHANGED vars
  BY <1>8, <1>9, <1>14
<1> QED BY <1>11, <1>12, <1>13, <1>14 DEF Next

(* A runtime_status call puts no child back itself.                        *)
LEMMA PollPutsNoneBack ==
  ASSUME Base, PollTypes, NEW s \in Servers,
         \/ UNCHANGED running
         \/ \E w \in Pollers : LookupExited(w)
  PROVE  ~PutBack(s)
<1>1. running[s] = NoProcess \/ stopping[s] = NoProcess
  BY DEF Base, OneRegistry
<1>2. running'[s] \in {running[s], NoProcess}
  BY CallShape DEF LookupExited, Base, TypeOK, InCall, Calls
<1> QED BY <1>1, <1>2 DEF PutBack

-----------------------------------------------------------------------------
(***************************************************************************)
(* 3. The calls, the marks and the caches                                  *)
(***************************************************************************)
(* A call that probes calls its child running only once it was found       *)
(* ready, and where stop commands can be written the child is in the       *)
(* running registry of no other server.  The child that owned the server   *)
(* when the call began, while it lives and was not put back, is where the  *)
(* call will find it.                                                      *)
CallKnows(w) ==
  /\ poll[w].phase = "lookup" => poll[w].state = "starting"
  /\ poll[w].phase \in {"pinging", "sampled"} =>
       /\ poll[w].pid # NoProcess
       /\ poll[w].state = "running" => health[poll[w].pid] # "starting"
       /\ ~StdinBreaks => \A s \in Servers \ {poll[w].server} : running[s] # poll[w].pid
  /\ poll[w].phase \in InCall /\ ~poll[w].putBack /\ poll[w].witness \in alive =>
       \/ stopping[poll[w].server] = poll[w].witness
       \/ poll[w].phase # "recheck" /\ running[poll[w].server] = poll[w].witness
CallTrue(w) ==
  poll[w].phase = "done" /\ poll[w].state = "stopped" /\ ~poll[w].putBack => poll[w].witness \notin alive

(* The mark of a child excludes other probes.                              *)
MarkExcludes ==
  \A w \in Pollers, p \in alive :
    Probing(w, p) /\ health[p] # "failed" => p \in inFlight /\ \A v \in Pollers : Probing(v, p) => v = w

MarkOwned == ~StdinBreaks => MarkHasProbe

PollInv ==
  /\ \A w \in Pollers : CallKnows(w) /\ CallTrue(w)
  /\ MarkExcludes
  /\ MarkOwned
  /\ CachedRunningIsReady

Sound == Base /\ Ownership /\ PollTypes /\ PollInv

(* A pid in use is not that of the next child.                             *)
LEMMA PidsInUse ==
  ASSUME Base, PollTypes
  PROVE  /\ spawned \in Nat /\ NoProcess \notin alive /\ alive \subseteq 1 .. spawned
         /\ inFlight \subseteq 1 .. spawned
         /\ \A w \in Pollers :
              /\ poll[w].phase \in InCall =>
                   /\ poll[w].server \in Servers /\ poll[w].pid \in 0 .. spawned /\ poll[w].witness \in 0 .. spawned
                   /\ poll[w].state \in {"starting", "running"}
              /\ poll[w].phase = "done" => poll[w].witness \in 0 .. spawned
         /\ \A s \in Servers : running[s] \in 0 .. spawned /\ stopping[s] \in 0 .. spawned
<1>1. /\ spawned \in Nat /\ NoProcess \notin alive /\ alive \subseteq 1 .. spawned /\ inFlight \subseteq 1 .. spawned
      /\ \A s \in Servers : running[s] \in 0 .. spawned /\ stopping[s] \in 0 .. spawned
  BY MaxPidAssumption DEF Base, TypeOK, NoProcess, PollTypes
<1> QED BY <1>1, CallShape DEF Calls, Answers

(* What health tells does not go back.                                     *)
LEMMA HealthStep ==
  ASSUME PollTypes, [ProbeNext]_statusVars, NEW p \in Pids
  PROVE  /\ health[p] # "starting" => health'[p] # "starting"
         /\ health'[p] # "failed" => health[p] # "failed"
<1>1. ASSUME NEW q \in Pids, BecomeReady(q) \/ LaunchError(q)
      PROVE  /\ health[p] # "starting" => health'[p] # "starting"
             /\ health'[p] # "failed" => health[p] # "failed"
  BY <1>1 DEF BecomeReady, LaunchError, PollTypes
<1>2. ASSUME NEW w \in Pollers, PollStep(w) \/ \E s \in Servers : BeginPoll(w, s)
      PROVE  UNCHANGED health
  BY <1>2 DEF PollStep, Recheck, LookupAbsent, LookupExited, LookupFailed, LookupCached, LookupProbes, Sample, Store, BeginPoll
<1> QED BY <1>1, <1>2 DEF ProbeNext, RegistryStep, statusVars, probeVars

(* A call that takes no step keeps what it knows.                          *)
LEMMA CallKeeps ==
  ASSUME Base, PollTypes, [ProbeNext]_statusVars,
         NEW w \in Pollers, CallKnows(w), CallTrue(w), poll'[w] = Noted(w)
  PROVE  CallKnows(w)' /\ CallTrue(w)'
<1>1. /\ alive' \subseteq alive \cup {spawned + 1}
      /\ \A s \in Servers :
           /\ stopping[s] \in alive' => stopping'[s] = stopping[s] \/ PutBack(s)
           /\ running[s] \in alive' => running'[s] = running[s] \/ stopping'[s] = running[s]
           /\ running'[s] \in {running[s], NoProcess, spawned + 1} \/ (StdinBreaks /\ PutBack(s))
  BY PollIsNext, Onward
<1>2. /\ spawned \in Nat
      /\ poll[w].phase \in InCall => /\ poll[w].server \in Servers /\ poll[w].pid \in 0 .. spawned
                                     /\ poll[w].witness \in 0 .. spawned
      /\ poll[w].phase = "done" => poll[w].witness \in 0 .. spawned
  BY PidsInUse
<1>3. CASE poll[w].phase \notin InCall
  <2>1. poll'[w] = poll[w]
    BY <1>3 DEF Noted
  <2> QED BY <1>1, <1>2, <1>3, <2>1 DEF CallTrue, CallKnows, InCall
<1>4. CASE poll[w].phase \in InCall
  <2>1. /\ poll[w] \in Calls
        /\ poll'[w].phase = poll[w].phase /\ poll'[w].state = poll[w].state
        /\ poll'[w].server = poll[w].server /\ poll'[w].pid = poll[w].pid
        /\ poll'[w].witness = poll[w].witness
        /\ ~poll'[w].putBack => ~poll[w].putBack /\ ~PutBack(poll[w].server)
    BY <1>4, CallShape DEF Noted, Calls
  <2>2. poll[w].phase \in {"pinging", "sampled"} =>
          /\ poll[w].state = "running" => health'[poll[w].pid] # "starting"
          /\ ~StdinBreaks => \A s \in Servers \ {poll[w].server} : running'[s] # poll[w].pid
    <3>1. SUFFICES ASSUME poll[w].phase \in {"pinging", "sampled"}
                   PROVE  /\ poll[w].state = "running" => health'[poll[w].pid] # "starting"
                          /\ ~StdinBreaks => \A s \in Servers \ {poll[w].server} : running'[s] # poll[w].pid
      OBVIOUS
    <3>2. poll[w].pid \in Pids
      BY <1>2, <1>4, <3>1, MaxPidAssumption DEF CallKnows, Base, TypeOK, Pids, NoProcess
    <3> QED BY <1>1, <1>2, <1>4, <3>1, <3>2, HealthStep DEF CallKnows
  <2>3. ~poll'[w].putBack /\ poll[w].witness \in alive' =>
          \/ stopping'[poll[w].server] = poll[w].witness
          \/ poll[w].phase # "recheck" /\ running'[poll[w].server] = poll[w].witness
    BY <1>1, <1>2, <1>4, <2>1 DEF CallKnows
  <2>4. CallKnows(w)'
    BY <1>4, <2>1, <2>2, <2>3 DEF CallKnows
  <2> QED BY <1>4, <2>1, <2>4 DEF CallTrue, InCall
<1> QED BY <1>3, <1>4

(* A call that takes a step touches no other.                              *)
LEMMA OtherCalls ==
  ASSUME PollTypes, NEW w \in Pollers, PollStep(w) \/ \E s \in Servers : BeginPoll(w, s)
  PROVE  \A v \in Pollers \ {w} : poll'[v] = poll[v]
<1>1. CASE \E s \in Servers : BeginPoll(w, s)
  BY <1>1 DEF BeginPoll, PollTypes
<1>2. CASE Recheck(w) \/ LookupExited(w) \/ LookupFailed(w)
  BY <1>2 DEF Recheck, LookupExited, LookupFailed, Report, PollTypes
<1>3. CASE LookupCached(w) \/ LookupProbes(w)
  BY <1>3 DEF LookupCached, LookupProbes, Report, PollTypes
<1>4. ASSUME LookAgain(w) PROVE \A v \in Pollers \ {w} : poll'[v] = poll[v]
  BY <1>4 DEF LookAgain, PollTypes
<1>5. CASE LookupAbsent(w)
  BY <1>4, <1>5 DEF LookupAbsent
<1>6. CASE Sample(w)
  BY <1>4, <1>6 DEF Sample, PollTypes
<1>7. CASE Store(w)
  BY <1>4, <1>7 DEF Store, Report, PollTypes
<1> QED BY <1>1, <1>2, <1>3, <1>5, <1>6, <1>7 DEF PollStep

(* What a call becomes by its step.                                        *)
LEMMA BeginStep ==
  ASSUME Sound, NEW w \in Pollers, NEW s \in Servers, BeginPoll(w, s)
  PROVE  /\ CallKnows(w)' /\ CallTrue(w)'
         /\ \A p \in Pids : ~Probing(w, p) /\ ~Probing(w, p)'
         /\ UNCHANGED <<running, health, inFlight, cached, alive>>
<1>1. UNCHANGED <<running, health, inFlight, cached, alive>> /\ poll[w].phase \notin InCall
  BY DEF BeginPoll, marks, child
<1>2. CASE stopping[s] # NoProcess
  <2>1. poll'[w] = Answer(StoppingStatus(s), stopping[s], FALSE)
    BY <1>2 DEF BeginPoll, OwnerOf, Sound, PollTypes
  <2> QED BY <1>1, <2>1 DEF Answer, StoppingStatus, CallKnows, CallTrue, Probing, InCall
<1>3. CASE stopping[s] = NoProcess
  <2>1. poll'[w] = [phase |-> "lookup", state |-> "starting", server |-> s, pid |-> NoProcess,
                    witness |-> running[s], putBack |-> FALSE]
    BY <1>3 DEF BeginPoll, OwnerOf, Sound, PollTypes
  <2> QED BY <1>1, <2>1 DEF CallKnows, CallTrue, Probing, InCall
<1> QED BY <1>2, <1>3

LEMMA RecheckStep ==
  ASSUME Sound, NEW w \in Pollers, Recheck(w)
  PROVE  /\ CallKnows(w)' /\ CallTrue(w)'
         /\ \A p \in Pids : ~Probing(w, p) /\ ~Probing(w, p)'
         /\ UNCHANGED <<running, health, inFlight, cached, alive>>
<1>1. /\ UNCHANGED <<running, health, inFlight, cached, alive>> /\ poll[w].phase = "recheck"
      /\ poll'[w] = Answer(IF stopping[poll[w].server] = NoProcess THEN "stopped"
                           ELSE StoppingStatus(poll[w].server), poll[w].witness, poll[w].putBack)
  BY DEF Recheck, Report, marks, child, Sound, PollTypes
<1>2. poll[w].witness \in alive /\ ~poll[w].putBack =>
        stopping[poll[w].server] = poll[w].witness /\ poll[w].witness # NoProcess
  BY <1>1, PidsInUse DEF Sound, PollInv, CallKnows, InCall
<1>3. poll[w].putBack \in BOOLEAN
  BY <1>1, CallShape DEF Sound, InCall, Calls
<1> QED BY <1>1, <1>2, <1>3, PidsInUse DEF Answer, StoppingStatus, CallKnows, CallTrue, Probing, InCall, Sound

(* The steps that end or interrupt a call before it probes.                *)
LEMMA LookupStep ==
  ASSUME Sound, NEW w \in Pollers,
         LookupAbsent(w) \/ LookupExited(w) \/ LookupFailed(w) \/ LookupCached(w)
  PROVE  /\ CallKnows(w)' /\ CallTrue(w)'
         /\ \A p \in Pids : ~Probing(w, p) /\ ~Probing(w, p)'
         /\ UNCHANGED <<health, alive>>
<1>1. UNCHANGED <<health, alive>> /\ poll[w].phase = "lookup"
  BY DEF LookupAbsent, LookupExited, LookupFailed, LookupCached, vars, child
<1>2. CASE LookupAbsent(w)
  <2>1. /\ poll'[w] = [poll[w] EXCEPT !.phase = "recheck", !.pid = NoProcess]
        /\ running[poll[w].server] = NoProcess /\ UNCHANGED <<running, stopping>>
    BY <1>2, CallUpdates DEF LookupAbsent, vars, Sound, PollTypes
  <2>2. /\ poll[w] \in Calls /\ (~poll[w].putBack /\ poll[w].witness \in alive => stopping[poll[w].server] = poll[w].witness)
    BY <1>1, <2>1, CallShape, PidsInUse DEF Sound, PollInv, CallKnows, InCall
  <2> QED BY <1>1, <2>1, <2>2 DEF CallKnows, CallTrue, Probing, InCall, Calls
<1>3. CASE LookupExited(w) \/ LookupFailed(w)
  <2>1. poll'[w] = Answer("crashed", poll[w].witness, poll[w].putBack)
    BY <1>3 DEF LookupExited, LookupFailed, Report, Sound, PollTypes
  <2> QED BY <1>1, <2>1 DEF Answer, CallKnows, CallTrue, Probing, InCall
<1>4. CASE LookupCached(w)
  <2>1. running[poll[w].server] \in Pids
    BY <1>1, <1>4, PidsInUse, MaxPidAssumption DEF LookupCached, Sound, InCall, Base, TypeOK, Pids
  <2>2. PICK state \in {"crashed", "starting", "running"} : poll'[w] = Answer(state, poll[w].witness, poll[w].putBack)
    BY <1>4, <2>1 DEF LookupCached, Report, Sound, PollTypes, NoCache
  <2> QED BY <1>1, <2>2 DEF Answer, CallKnows, CallTrue, Probing, InCall
<1> QED BY <1>2, <1>3, <1>4

LEMMA ProbesStep ==
  ASSUME Sound, NEW w \in Pollers, LookupProbes(w)
  PROVE  /\ CallKnows(w)' /\ CallTrue(w)'
         /\ poll[w].phase = "lookup" /\ running[poll[w].server] \in Pids
         /\ poll'[w].phase = "pinging" /\ poll'[w].pid = running[poll[w].server]
<1>1. /\ poll[w] \in Calls /\ poll[w].phase = "lookup" /\ poll[w].server \in Servers
      /\ running[poll[w].server] \in alive /\ UNCHANGED <<vars, health>>
  BY CallShape DEF LookupProbes, Sound, InCall, Calls
<1>2. poll'[w] = [poll[w] EXCEPT !.phase = "pinging", !.pid = running[poll[w].server],
                                 !.state = Found(running[poll[w].server], @)]
  BY DEF LookupProbes, Sound, PollTypes
<1>3. /\ running[poll[w].server] \in Pids /\ running[poll[w].server] # NoProcess
      /\ stopping[poll[w].server] = NoProcess /\ OwnerOf(poll[w].server) = running[poll[w].server]
  BY <1>1, PidsInUse, MaxPidAssumption DEF Sound, Base, TypeOK, OneRegistry, Pids, NoProcess, OwnerOf
<1>4. \A s \in Servers \ {poll[w].server} : running[s] # running[poll[w].server]
  <2>1. SUFFICES ASSUME NEW s \in Servers, running[s] = running[poll[w].server] PROVE s = poll[w].server
    OBVIOUS
  <2>2. OwnerOf(s) = OwnerOf(poll[w].server)
    BY <1>3, <2>1 DEF Sound, Base, OneRegistry, OwnerOf
  <2> QED BY <1>1, <1>3, <2>2 DEF Sound, Ownership, OneServer
<1>5. /\ poll[w].state = "starting"
      /\ ~poll[w].putBack /\ poll[w].witness \in alive => \/ stopping[poll[w].server] = poll[w].witness
                                      \/ running[poll[w].server] = poll[w].witness
  BY <1>1 DEF Sound, PollInv, CallKnows, InCall
<1>6. /\ poll'[w].phase = "pinging" /\ poll'[w].pid = running[poll[w].server]
      /\ poll'[w].state = Found(running[poll[w].server], "starting")
      /\ poll'[w].server = poll[w].server /\ poll'[w].witness = poll[w].witness
      /\ poll'[w].putBack = poll[w].putBack
  BY <1>1, <1>2, <1>5 DEF Calls
<1> QED BY <1>1, <1>3, <1>4, <1>5, <1>6 DEF CallKnows, CallTrue, Found, InCall, vars

LEMMA SampleStep ==
  ASSUME Sound, NEW w \in Pollers, Sample(w)
  PROVE  /\ CallKnows(w)' /\ CallTrue(w)'
         /\ poll[w].phase = "pinging"
         /\ \/ poll'[w].phase = "recheck" /\ running[poll[w].server] = NoProcess
            \/ poll'[w].phase = "sampled" /\ poll'[w].pid = poll[w].pid
         /\ UNCHANGED <<running, stopping, alive, health, inFlight, cached>>
<1>1. /\ poll[w] \in Calls /\ poll[w].phase = "pinging" /\ poll[w].server \in Servers
      /\ UNCHANGED <<running, stopping, alive, health, inFlight, cached>>
  BY CallShape DEF Sample, Sound, InCall, Calls, vars, marks
<1>2. /\ poll[w].pid # NoProcess /\ (poll[w].state = "running" => health[poll[w].pid] # "starting")
      /\ ~StdinBreaks => \A s \in Servers \ {poll[w].server} : running[s] # poll[w].pid
      /\ ~poll[w].putBack /\ poll[w].witness \in alive => \/ stopping[poll[w].server] = poll[w].witness
                                      \/ running[poll[w].server] = poll[w].witness
  BY <1>1 DEF Sound, PollInv, CallKnows, InCall
<1>3. CASE running[poll[w].server] = NoProcess
  <2>1. poll'[w] = [poll[w] EXCEPT !.phase = "recheck", !.pid = NoProcess]
    <3>1. LookAgain(w)
      BY <1>3 DEF Sample
    <3>2. poll' = [poll EXCEPT ![w] = [poll[w] EXCEPT !.phase = "recheck", !.pid = NoProcess]]
      BY <3>1, CallUpdates DEF Sound
    <3> QED BY <3>2 DEF Sound, PollTypes
  <2>2. /\ poll'[w].phase = "recheck" /\ poll'[w].server = poll[w].server
        /\ poll'[w].witness = poll[w].witness /\ poll'[w].putBack = poll[w].putBack
    BY <1>1, <2>1 DEF Calls
  <2>3. ~poll[w].putBack /\ poll[w].witness \in alive => stopping[poll[w].server] = poll[w].witness
    BY <1>2, <1>3, PidsInUse DEF Sound
  <2> QED BY <1>1, <1>3, <2>2, <2>3 DEF CallKnows, CallTrue
<1>4. CASE running[poll[w].server] # NoProcess
  <2>1. poll'[w] = [poll[w] EXCEPT !.phase = "sampled", !.state = Found(poll[w].pid, @)]
    BY <1>4 DEF Sample, Sound, PollTypes
  <2>2. /\ poll'[w].phase = "sampled" /\ poll'[w].pid = poll[w].pid /\ poll'[w].server = poll[w].server
        /\ poll'[w].witness = poll[w].witness /\ poll'[w].putBack = poll[w].putBack
        /\ poll'[w].state = Found(poll[w].pid, poll[w].state)
    BY <1>1, <2>1 DEF Calls
  <2> QED BY <1>1, <1>2, <2>2 DEF CallKnows, CallTrue, Found, InCall
<1> QED BY <1>3, <1>4

LEMMA StoreStep ==
  ASSUME Sound, NEW w \in Pollers, Store(w)
  PROVE  /\ CallKnows(w)' /\ CallTrue(w)'
         /\ poll[w].phase = "sampled"
         /\ poll'[w].phase \in {"recheck", "done"}
         /\ UNCHANGED <<running, stopping, alive, health>>
<1>1. /\ poll[w] \in Calls /\ poll[w].phase = "sampled" /\ poll[w].server \in Servers
      /\ poll[w].state \in {"starting", "running"}
      /\ UNCHANGED <<running, stopping, alive, health>>
  BY CallShape DEF Store, Sound, InCall, Calls, vars
<1>2. ~poll[w].putBack /\ poll[w].witness \in alive => \/ stopping[poll[w].server] = poll[w].witness
                                  \/ running[poll[w].server] = poll[w].witness
  BY <1>1 DEF Sound, PollInv, CallKnows, InCall
<1>3. CASE LookAgain(w) /\ running[poll[w].server] = NoProcess
  <2>1. poll'[w] = [poll[w] EXCEPT !.phase = "recheck", !.pid = NoProcess]
    BY <1>3, CallUpdates DEF Sound, PollTypes
  <2> QED BY <1>1, <1>2, <1>3, <2>1, PidsInUse DEF Calls, CallKnows, CallTrue, InCall, Sound
<1>4. CASE Report(w, "starting") \/ Report(w, poll[w].state)
  <2>1. \/ poll'[w] = Answer("starting", poll[w].witness, poll[w].putBack)
        \/ poll'[w] = Answer(poll[w].state, poll[w].witness, poll[w].putBack)
    BY <1>4 DEF Report, Sound, PollTypes
  <2> QED BY <1>1, <2>1 DEF Answer, CallKnows, CallTrue, InCall
<1> QED BY <1>3, <1>4 DEF Store

(* The marks, where a step leaves them and the probes alone.               *)
LEMMA MarksKept ==
  ASSUME Sound, [ProbeNext]_statusVars,
         inFlight' = inFlight,
         \A w \in Pollers, p \in Pids : Probing(w, p)' <=> Probing(w, p)
  PROVE  MarkExcludes' /\ MarkOwned'
<1>1. /\ alive' \subseteq alive \cup {spawned + 1} /\ spawned \in Nat /\ inFlight \subseteq 1 .. spawned
      /\ ~StdinBreaks => \A s \in Servers : running'[s] \in {running[s], NoProcess, spawned + 1}
      /\ 1 .. spawned \subseteq Pids /\ alive' \subseteq Pids
  BY PollIsNext, Onward, PidsInUse, StepBase, MaxPidAssumption DEF Sound, Base, TypeOK, Pids
<1>2. ASSUME NEW w \in Pollers, NEW p \in alive', Probing(w, p)
      PROVE  p \in alive
  BY <1>1, <1>2, PidsInUse DEF Probing, InCall, Sound
<1>3. MarkExcludes'
  BY <1>1, <1>2, HealthStep DEF MarkExcludes, Sound, PollInv
<1>4. MarkOwned'
  <2>1. SUFFICES ASSUME ~StdinBreaks, NEW s \in Servers, running'[s] \in inFlight
                 PROVE  \E w \in Pollers : /\ poll'[w].phase \in {"pinging", "sampled"}
                                            /\ poll'[w].pid = running'[s]
    BY DEF MarkOwned, MarkHasProbe, Probing
  <2>2. running'[s] = running[s] /\ running[s] \in Pids
    <3>1. running'[s] \in 1 .. spawned
      BY <1>1, <2>1
    <3>2. running'[s] = running[s]
      BY <1>1, <2>1, <3>1 DEF NoProcess
    <3> QED BY <1>1, <3>1, <3>2
  <2>3. PICK w \in Pollers : Probing(w, running[s])
    BY <2>1, <2>2 DEF Sound, PollInv, MarkOwned, MarkHasProbe
  <2> QED BY <2>2, <2>3 DEF Probing
<1> QED BY <1>3, <1>4

LEMMA StepPollInv ==
  ASSUME Sound, [ProbeNext]_statusVars
  PROVE  PollInv'
<1>1. /\ Base /\ PollTypes /\ Ownership
      /\ spawned \in Nat /\ inFlight \subseteq 1 .. spawned /\ NoProcess \notin inFlight
      /\ alive \subseteq Pids /\ \A s \in Servers : running[s] \in Pids \cup {NoProcess}
  BY PidsInUse, MaxPidAssumption DEF Sound, Base, TypeOK, Pids, NoProcess
<1>2. CASE UNCHANGED <<health, marks>> /\ \A w \in Pollers : poll'[w] = Noted(w)
  <2>1. \A w \in Pollers : CallKnows(w)' /\ CallTrue(w)'
    BY <1>1, <1>2, CallKeeps DEF Sound, PollInv
  <2>2. \A w \in Pollers, p \in Pids : Probing(w, p)' <=> Probing(w, p)
    <3>1. \A w \in Pollers : /\ poll'[w].phase = poll[w].phase
                             /\ poll[w].phase \in InCall => poll'[w].pid = poll[w].pid
      BY <1>1, <1>2, CallShape DEF Noted, Calls
    <3> QED BY <3>1 DEF Probing, InCall
  <2>3. MarkExcludes' /\ MarkOwned'
    BY <1>2, <2>2, MarksKept DEF marks
  <2>4. CachedRunningIsReady'
    BY <1>2 DEF marks, CachedRunningIsReady, Sound, PollInv
  <2> QED BY <2>1, <2>3, <2>4 DEF PollInv
<1>3. ASSUME NEW p \in Pids, BecomeReady(p) \/ LaunchError(p)
      PROVE  PollInv'
  <2>1. UNCHANGED <<inFlight, cached, poll, running>>
    BY <1>3 DEF BecomeReady, LaunchError, marks, vars
  <2>2. \A w \in Pollers : CallKnows(w)' /\ CallTrue(w)'
    <3>1. \A w \in Pollers : poll'[w] = Noted(w)
      BY <1>1, <2>1, PollPutsNoneBack, PidsInUse DEF Noted
    <3> QED BY <1>1, <3>1, CallKeeps DEF Sound, PollInv
  <2>3. MarkExcludes' /\ MarkOwned'
    BY <2>1, MarksKept DEF Probing
  <2>4. CachedRunningIsReady'
    BY <1>1, <2>1, HealthStep DEF CachedRunningIsReady, Sound, PollInv
  <2> QED BY <2>2, <2>3, <2>4 DEF PollInv
<1>4. ASSUME NEW w \in Pollers, PollStep(w) \/ \E s \in Servers : BeginPoll(w, s),
             CallKnows(w)' /\ CallTrue(w)'
      PROVE  /\ \A v \in Pollers : CallKnows(v)' /\ CallTrue(v)'
             /\ \A v \in Pollers \ {w} : \A p : Probing(v, p)' <=> Probing(v, p)
  <2>1. \A v \in Pollers \ {w} : poll'[v] = poll[v]
    BY <1>1, <1>4, OtherCalls
  <2>2. UNCHANGED running \/ \E v \in Pollers : LookupExited(v)
    BY <1>4 DEF PollStep, BeginPoll, Recheck, LookupAbsent, LookupFailed, LookupCached,
                LookupProbes, Sample, Store, vars
  <2>3. \A v \in Pollers \ {w} : poll'[v] = Noted(v)
    BY <1>1, <2>1, <2>2, PollPutsNoneBack, PidsInUse DEF Noted
  <2> QED BY <1>1, <1>4, <2>1, <2>3, CallKeeps DEF Sound, PollInv, Probing
<1>5. ASSUME NEW w \in Pollers, NEW s \in Servers, BeginPoll(w, s)
      PROVE  PollInv'
  BY <1>4, <1>5, BeginStep, MarksKept DEF CachedRunningIsReady, Sound, PollInv
<1>6. ASSUME NEW w \in Pollers, Recheck(w)
      PROVE  PollInv'
  BY <1>4, <1>6, RecheckStep, MarksKept DEF CachedRunningIsReady, Sound, PollInv, PollStep
<1>7. ASSUME NEW w \in Pollers, LookupAbsent(w) \/ LookupExited(w) \/ LookupCached(w)
      PROVE  PollInv'
  <2>1. UNCHANGED <<inFlight, cached>>
    BY <1>7 DEF LookupAbsent, LookupExited, LookupCached, marks
  <2> QED BY <1>4, <1>7, <2>1, LookupStep, MarksKept DEF CachedRunningIsReady, Sound, PollInv, PollStep
<1>8. ASSUME NEW w \in Pollers, LookupFailed(w)
      PROVE  PollInv'
  <2> DEFINE q == running[poll[w].server]
  <2>1. /\ q \in alive /\ health[q] = "failed" /\ UNCHANGED <<vars, health>>
        /\ inFlight' = inFlight \ {q} /\ cached' = [cached EXCEPT ![q] = "crashed"]
    BY <1>8 DEF LookupFailed
  <2>2. /\ \A v \in Pollers : CallKnows(v)' /\ CallTrue(v)'
        /\ \A v \in Pollers, p \in Pids : Probing(v, p)' <=> Probing(v, p)
    BY <1>4, <1>8, LookupStep DEF PollStep
  <2>3. MarkExcludes'
    BY <1>1, <2>1, <2>2 DEF vars, MarkExcludes, Sound, PollInv
  <2>4. MarkOwned'
    BY <1>1, <2>1, <2>2 DEF vars, MarkOwned, MarkHasProbe, Sound, PollInv
  <2>5. CachedRunningIsReady'
    BY <1>1, <2>1 DEF CachedRunningIsReady, Sound, PollInv, PollTypes
  <2> QED BY <2>2, <2>3, <2>4, <2>5 DEF PollInv
<1>9. ASSUME NEW w \in Pollers, LookupProbes(w)
      PROVE  PollInv'
  <2> DEFINE q == running[poll[w].server]
  <2>1. /\ q \in alive /\ health[q] # "failed" /\ q \notin inFlight /\ UNCHANGED <<vars, health, cached>>
        /\ inFlight' = inFlight \cup {q}
    BY <1>9 DEF LookupProbes
  <2>2. /\ \A v \in Pollers : CallKnows(v)' /\ CallTrue(v)'
        /\ \A v \in Pollers \ {w} : \A p : Probing(v, p)' <=> Probing(v, p)
        /\ \A p : ~Probing(w, p) /\ (Probing(w, p)' <=> p = q)
    BY <1>4, <1>9, ProbesStep DEF PollStep, Probing
  <2>3. \A v \in Pollers : ~Probing(v, q)
    BY <2>1 DEF Sound, PollInv, MarkExcludes
  <2>4. MarkExcludes'
    BY <2>1, <2>2, <2>3 DEF vars, MarkExcludes, Sound, PollInv
  <2>5. MarkOwned'
    <3>1. SUFFICES ASSUME ~StdinBreaks, NEW s \in Servers, running[s] \in inFlight \cup {q}
                   PROVE  \E v \in Pollers : /\ poll'[v].phase \in {"pinging", "sampled"}
                                              /\ poll'[v].pid = running[s]
      BY <2>1 DEF MarkOwned, MarkHasProbe, vars, maps, Probing
    <3>2. CASE running[s] = q
      BY <2>2, <3>2 DEF Probing
    <3>3. CASE running[s] # q
      <4>1. PICK v \in Pollers : Probing(v, running[s])
        BY <3>1, <3>3 DEF Sound, PollInv, MarkOwned, MarkHasProbe
      <4> QED BY <2>2, <3>3, <4>1 DEF Probing
    <3> QED BY <3>2, <3>3
  <2>6. CachedRunningIsReady'
    BY <2>1 DEF CachedRunningIsReady, Sound, PollInv
  <2> QED BY <2>2, <2>4, <2>5, <2>6 DEF PollInv
<1>10. ASSUME NEW w \in Pollers, Sample(w) \/ Store(w)
       PROVE  PollInv'
  <2> DEFINE q == running[poll[w].server]
  <2>1. /\ poll[w].phase \in {"pinging", "sampled"} /\ poll[w].server \in Servers /\ poll[w].pid \in Pids
        /\ poll[w].state = "running" => health[poll[w].pid] # "starting"
        /\ ~StdinBreaks => \A s \in Servers \ {poll[w].server} : running[s] # poll[w].pid
        /\ Probing(w, poll[w].pid)
    <3>1. poll[w].phase \in {"pinging", "sampled"} /\ poll[w].phase \in InCall
      BY <1>10 DEF Sample, Store, InCall
    <3> QED BY <3>1, <1>1, PidsInUse, MaxPidAssumption DEF Sound, PollInv, CallKnows, Probing, Base, TypeOK, Pids, NoProcess
  <2>2. /\ \A v \in Pollers : CallKnows(v)' /\ CallTrue(v)'
        /\ \A v \in Pollers \ {w} : \A p : Probing(v, p)' <=> Probing(v, p)
        /\ UNCHANGED <<running, alive, health>>
    BY <1>4, <1>10, SampleStep, StoreStep DEF PollStep
  <2>3. CASE Sample(w) /\ poll'[w].phase = "sampled"
    <3>1. UNCHANGED <<inFlight, cached>> /\ \A p : Probing(w, p)' <=> Probing(w, p)
      BY <2>1, <2>3, SampleStep DEF Probing
    <3> QED BY <2>2, <3>1, MarksKept DEF CachedRunningIsReady, Sound, PollInv
  <2>4. ASSUME \A p : ~Probing(w, p)', inFlight' = inFlight, q # poll[w].pid, UNCHANGED cached
        PROVE  PollInv'
    <3>1. MarkExcludes'
      BY <2>2, <2>4 DEF MarkExcludes, Sound, PollInv
    <3>2. MarkOwned'
      <4>1. SUFFICES ASSUME ~StdinBreaks, NEW s \in Servers, running[s] \in inFlight
                     PROVE  \E v \in Pollers : Probing(v, running[s])'
        BY <2>2, <2>4 DEF MarkOwned, MarkHasProbe
      <4>2. PICK v \in Pollers : Probing(v, running[s])
        BY <4>1 DEF Sound, PollInv, MarkOwned, MarkHasProbe
      <4>3. v # w
        BY <2>1, <2>4, <4>1, <4>2 DEF Probing
      <4> QED BY <2>2, <4>2, <4>3
    <3> QED BY <2>2, <2>4, <3>1, <3>2 DEF CachedRunningIsReady, Sound, PollInv
  <2>5. CASE Sample(w) /\ poll'[w].phase # "sampled"
    BY <2>1, <2>4, <2>5, SampleStep DEF Probing, Pids, NoProcess
  <2>6. CASE Store(w) /\ q # poll[w].pid
    BY <2>4, <2>6, StoreStep DEF Store, Probing
  <2>7. CASE Store(w) /\ q = poll[w].pid
    <3>1. /\ \A p : ~Probing(w, p)'
          /\ inFlight' = inFlight \ {q} /\ cached' = [cached EXCEPT ![q] = poll[w].state]
      BY <2>1, <2>7, StoreStep DEF Store, Probing, Pids, NoProcess
    <3>2. MarkExcludes'
      BY <2>1, <2>2, <2>7, <3>1 DEF MarkExcludes, Sound, PollInv
    <3>3. MarkOwned'
      <4>1. SUFFICES ASSUME ~StdinBreaks, NEW s \in Servers, running[s] \in inFlight, running[s] # q
                     PROVE  \E v \in Pollers : Probing(v, running[s])'
        BY <2>2, <3>1 DEF MarkOwned, MarkHasProbe
      <4>2. PICK v \in Pollers : Probing(v, running[s])
        BY <4>1 DEF Sound, PollInv, MarkOwned, MarkHasProbe
      <4> QED BY <2>2, <2>7, <4>1, <4>2 DEF Probing
    <3>4. CachedRunningIsReady'
      BY <1>1, <2>1, <2>2, <2>7, <3>1 DEF CachedRunningIsReady, Sound, PollInv, PollTypes
    <3> QED BY <2>2, <3>2, <3>3, <3>4 DEF PollInv
  <2> QED BY <1>10, <2>3, <2>5, <2>6, <2>7
<1>11. CASE UNCHANGED statusVars
  <2>1. UNCHANGED <<health, marks>> /\ \A w \in Pollers : poll'[w] = Noted(w)
    BY <1>1, <1>11, PollPutsNoneBack, PidsInUse DEF statusVars, probeVars, vars, marks, Noted
  <2> QED BY <1>2, <2>1
<1>12. CASE RegistryStep
  BY <1>2, <1>12 DEF RegistryStep
<1> QED BY <1>12, <1>3, <1>5, <1>6, <1>7, <1>8, <1>9, <1>10, <1>11 DEF ProbeNext, PollStep

-----------------------------------------------------------------------------
(***************************************************************************)
(* 4. What the calls may rely on                                           *)
(***************************************************************************)
LEMMA PollInvHolds == ProbeSpec => [](Base /\ PollTypes /\ PollInv)
<1>1. ProbeInit => PollInv
  <2> SUFFICES ASSUME ProbeInit PROVE PollInv
    OBVIOUS
  <2>1. /\ \A w \in Pollers : poll[w].phase = "quiet"
        /\ inFlight = {} /\ \A p \in Pids : cached[p] = "none"
    BY DEF ProbeInit, Quiet, NoCache
  <2>2. \A w \in Pollers : CallKnows(w) /\ CallTrue(w)
    BY <2>1 DEF CallKnows, CallTrue, InCall
  <2>3. MarkExcludes /\ MarkOwned
    BY <2>1 DEF MarkExcludes, MarkOwned, MarkHasProbe, Probing
  <2>4. CachedRunningIsReady
    BY <2>1 DEF CachedRunningIsReady
  <2> QED BY <2>2, <2>3, <2>4 DEF PollInv
<1>2. ProbeSpec => []Ownership
  <2>1. NoOrphan /\ OneServer /\ EndpointExclusive => Ownership
    BY DEF Ownership
  <2> QED BY <2>1, ProbeImplementsRegistry, RegistryOwnership, PTL
<1>3. Base /\ PollTypes /\ Ownership /\ PollInv /\ [ProbeNext]_statusVars => PollInv'
  BY StepPollInv DEF Sound
<1> QED BY <1>1, <1>2, <1>3, PollTypesHold, PTL DEF ProbeSpec

(* Of the callers that find the same live child, one pings it at a time,   *)
(* however the child is stopped and its server started again meanwhile.    *)
THEOREM ChildHasOneProbe == ProbeSpec => []OneProbe
<1>1. Base /\ PollTypes /\ PollInv => OneProbe
  BY PidsInUse DEF PollInv, MarkExcludes, OneProbe
<1> QED BY <1>1, PollInvHolds, PTL

(* Where stop commands can always be written, a running child that is      *)
(* marked as being pinged has a call that will clear the mark, so its      *)
(* reported state is never frozen.                                         *)
THEOREM MarkIsOwned ==
  ASSUME ~StdinBreaks
  PROVE  ProbeSpec => []MarkHasProbe
<1>1. PollInv => MarkHasProbe
  BY DEF PollInv, MarkOwned
<1> QED BY <1>1, PollInvHolds, PTL

(* A call that answers "stopped" began with no child, or that child has    *)
(* exited by now, or a stop command that could not be written put it back  *)
(* during the call: it is never missed on its way from the running         *)
(* registry to the stopping one.                                           *)
THEOREM StoppedAnswerIsTrue == ProbeSpec => []StoppedIsTrue
<1>1. PollInv => StoppedIsTrue
  BY DEF PollInv, CallTrue, StoppedIsTrue
<1> QED BY <1>1, PollInvHolds, PTL

(* What a ping found of one child is never cached as the state of the next *)
(* child of the server.                                                    *)
THEOREM CacheIsOfItsChild == ProbeSpec => []CachedRunningIsReady
<1>1. PollInv => CachedRunningIsReady
  BY DEF PollInv
<1> QED BY <1>1, PollInvHolds, PTL
=============================================================================
