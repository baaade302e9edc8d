----------------------------- MODULE StatusProbe -----------------------------
(***************************************************************************)
(* process.rs runtime_status: what the frontend (every one or two seconds) *)
(* and the automation monitor (every ten) call to learn the state of a     *)
(* server, while other tasks start and stop it.  A call takes the registry *)
(* locks several times and pings the server between them, so each of its   *)
(* sections is an action of the poller that made the call.                 *)
(***************************************************************************)
EXTENDS ProcessRegistry

CONSTANT Pollers   \* concurrent runtime_status calls

VARIABLES
  health,    \* health[p]: what the observer and the ping would say of child p
  inFlight,  \* children whose status_probe_in_flight is set
  cached,    \* cached[p]: state of p's cached_status
  poll       \* poll[w]: where the runtime_status call of w stands

probeVars  == <<health, inFlight, cached, poll>>
marks      == <<inFlight, cached>>
statusVars == <<vars, probeVars>>

States == {"stopped", "stopping", "crashed", "starting", "running"}
NoCache == "none"

(* A call in progress names its server and the child it probes.  To judge  *)
(* its answer by, it also notes the child that owned the server when it    *)
(* began, and whether a failed write has put a child of the server back    *)
(* into the running registry since.                                        *)
Quiet == [phase |-> "quiet"]
InCall == {"lookup", "pinging", "sampled", "recheck"}

ProbeInit ==
  /\ Init
  /\ health   = [p \in Pids |-> "starting"]
  /\ inFlight = {}
  /\ cached   = [p \in Pids |-> NoCache]
  /\ poll     = [w \in Pollers |-> Quiet]

(* The call returns.  The notes are only kept to judge "stopped" by.       *)
Answer(state, witness, putBack) ==
  [phase |-> "done", state |-> state,
   witness |-> IF state = "stopped" THEN witness ELSE NoProcess,
   putBack |-> state = "stopped" /\ putBack]

Report(w, state) ==
  poll' = [poll EXCEPT ![w] = Answer(state, poll[w].witness, poll[w].putBack)]

(* The observer is asked before the ping, the port during it; either is    *)
(* enough to call the child running.                                       *)
Found(p, before) == IF health[p] = "ready" THEN "running" ELSE before

LookAgain(w) == poll' = [poll EXCEPT ![w].phase = "recheck", ![w].pid = NoProcess]

-----------------------------------------------------------------------------

(* stopping_status: what the stopping registry says of s, reaping it.      *)
StoppingStatus(s) == IF stopping[s] \in alive THEN "stopping" ELSE "stopped"

BeginPoll(w, s) ==
  /\ poll[w].phase \notin InCall
  /\ poll' = [poll EXCEPT ![w] =
       IF stopping[s] # NoProcess THEN Answer(StoppingStatus(s), OwnerOf(s), FALSE)
       ELSE [phase |-> "lookup", state |-> "starting", server |-> s,
             pid |-> NoProcess, witness |-> OwnerOf(s), putBack |-> FALSE]]
  /\ stopping' = Reap(stopping, {s})
  /\ UNCHANGED <<running, child, call, health, marks>>

(* The entry left the running registry: look once more whether a stop owns *)
(* it, else the server is stopped.                                         *)
Recheck(w) ==
  LET s == poll[w].server
  IN  /\ poll[w].phase = "recheck"
      /\ Report(w, IF stopping[s] = NoProcess THEN "stopped" ELSE StoppingStatus(s))
      /\ stopping' = Reap(stopping, {s})
      /\ UNCHANGED <<running, child, call, health, marks>>

(* Slip: an entry that left the running registry counts as stopped.        *)
AbsentIsStopped(w) ==
  /\ poll[w].phase = "lookup"
  /\ running[poll[w].server] = NoProcess
  /\ Report(w, "stopped")
  /\ UNCHANGED <<vars, health, marks>>

(* The registry lookup: an exited child is reported crashed and reaped, a  *)
(* fatal launch is reported crashed, a fresh cache or a probe in flight    *)
(* answers from the cache, and otherwise this call becomes the probe.      *)
LookupAbsent(w) ==
  /\ poll[w].phase = "lookup"
  /\ running[poll[w].server] = NoProcess
  /\ LookAgain(w)
  /\ UNCHANGED <<vars, health, marks>>

LookupExited(w) ==
  LET s == poll[w].server
  IN  /\ poll[w].phase = "lookup"
      /\ running[s] # NoProcess
      /\ running[s] \notin alive
      /\ running' = [running EXCEPT ![s] = NoProcess]
      /\ Report(w, "crashed")
      /\ UNCHANGED <<stopping, child, call, health, marks>>

LookupFailed(w) ==
  LET p == running[poll[w].server]
  IN  /\ poll[w].phase = "lookup"
      /\ p \in alive
      /\ health[p] = "failed"
      /\ cached'   = [cached EXCEPT ![p] = "crashed"]
      /\ inFlight' = inFlight \ {p}
      /\ Report(w, "crashed")
      /\ UNCHANGED <<vars, health>>

(* Slip: no fallback for a probe in flight before anything was cached.     *)
LookupCacheOnly(w) ==
  LET p == running[poll[w].server]
  IN  /\ poll[w].phase = "lookup"
      /\ p \in alive
      /\ health[p] # "failed"
      /\ p \in inFlight \/ cached[p] # NoCache
      /\ Report(w, cached[p])
      /\ UNCHANGED <<vars, health, marks>>

LookupCached(w) ==
  LET p == running[poll[w].server]
  IN  /\ poll[w].phase = "lookup"
      /\ p \in alive
      /\ health[p] # "failed"
      /\ p \in inFlight \/ cached[p] # NoCache
      /\ Report(w, IF cached[p] = NoCache THEN "starting" ELSE cached[p])
      /\ UNCHANGED <<vars, health, marks>>

(* Slip: the probe is not marked before the lock is released.              *)
LookupProbesUnmarked(w) ==
  LET p == running[poll[w].server]
  IN  /\ poll[w].phase = "lookup"
      /\ p \in alive
      /\ health[p] # "failed"
      /\ p \notin inFlight
      /\ poll' = [poll EXCEPT ![w].phase = "pinging", ![w].pid = p, ![w].state = Found(p, @)]
      /\ UNCHANGED <<vars, health, marks>>

LookupProbes(w) ==
  LET p == running[poll[w].server]
  IN  /\ poll[w].phase = "lookup"
      /\ p \in alive
      /\ health[p] # "failed"
      /\ p \notin inFlight
      /\ inFlight' = inFlight \cup {p}
      /\ poll' = [poll EXCEPT ![w].phase = "pinging", ![w].pid = p, ![w].state = Found(p, @)]
      /\ UNCHANGED <<vars, health, cached>>

(* After the ping: the entry the server has by now is sampled for its      *)
(* resource use.                                                           *)
Sample(w) ==
  /\ poll[w].phase = "pinging"
  /\ IF running[poll[w].server] = NoProcess THEN LookAgain(w)
     ELSE poll' = [poll EXCEPT ![w].phase = "sampled", ![w].state = Found(poll[w].pid, @)]
  /\ UNCHANGED <<vars, health, marks>>

(* Slip: the telemetry is stored without comparing the pids.               *)
StoreOnAnyChild(w) ==
  LET q == running[poll[w].server]
  IN  /\ poll[w].phase = "sampled"
      /\ \/ /\ q = NoProcess
            /\ LookAgain(w)
            /\ UNCHANGED <<inFlight, cached>>
         \/ /\ q # NoProcess
            /\ inFlight' = inFlight \ {q}
            /\ cached'   = [cached EXCEPT ![q] = poll[w].state]
            /\ Report(w, poll[w].state)
      /\ UNCHANGED <<vars, health>>

(* Slip: the mark is not cleared when the telemetry is stored.             *)
StoreKeepsMark(w) ==
  LET q == running[poll[w].server]
  IN  /\ poll[w].phase = "sampled"
      /\ q # NoProcess
      /\ q = poll[w].pid
      /\ cached' = [cached EXCEPT ![q] = poll[w].state]
      /\ Report(w, poll[w].state)
      /\ UNCHANGED <<vars, health, inFlight>>

(* The telemetry is stored, unless another child has taken the place of    *)
(* the one that was probed.                                                *)
Store(w) ==
  LET q == running[poll[w].server]
  IN  /\ poll[w].phase = "sampled"
      /\ \/ /\ q = NoProcess
            /\ LookAgain(w)
            /\ UNCHANGED <<inFlight, cached>>
         \/ /\ q \notin {NoProcess, poll[w].pid}
            /\ Report(w, "starting")
            /\ UNCHANGED <<inFlight, cached>>
         \/ /\ q # NoProcess
            /\ q = poll[w].pid
            /\ inFlight' = inFlight \ {q}
            /\ cached'   = [cached EXCEPT ![q] = poll[w].state]
            /\ Report(w, poll[w].state)
      /\ UNCHANGED <<vars, health>>

-----------------------------------------------------------------------------

(* The child becomes joinable, or its log shows a fatal launch error.      *)
BecomeReady(p) ==
  /\ p \in alive
  /\ health[p] = "starting"
  /\ health' = [health EXCEPT ![p] = "ready"]
  /\ UNCHANGED <<vars, marks, poll>>

LaunchError(p) ==
  /\ p \in alive
  /\ health[p] # "failed"
  /\ health' = [health EXCEPT ![p] = "failed"]
  /\ UNCHANGED <<vars, marks, poll>>

PollStep(w) ==
  \/ Recheck(w)
  \/ LookupAbsent(w) \/ LookupExited(w) \/ LookupFailed(w)
  \/ LookupCached(w) \/ LookupProbes(w)
  \/ Sample(w) \/ Store(w)

(* A step of the commands and the children, of which the calls only note   *)
(* that it puts a child back.                                              *)
PutBack(s) == stopping[s] # NoProcess /\ running'[s] = stopping[s]

Noted(w) ==
  IF poll[w].phase \in InCall /\ PutBack(poll[w].server)
  THEN [poll[w] EXCEPT !.putBack = TRUE]
  ELSE poll[w]

RegistryStep ==
  /\ Next
  /\ poll' = [w \in Pollers |-> Noted(w)]
  /\ UNCHANGED <<health, marks>>

ProbeNext ==
  \/ RegistryStep
  \/ \E w \in Pollers : PollStep(w) \/ \E s \in Servers : BeginPoll(w, s)
  \/ \E p \in Pids : BecomeReady(p) \/ LaunchError(p)

ProbeSpec == ProbeInit /\ [][ProbeNext]_statusVars

-----------------------------------------------------------------------------
(***************************************************************************)
(* Properties                                                              *)
(***************************************************************************)

ProbeTypeOK ==
  /\ health \in [Pids -> {"starting", "ready", "failed"}]
  /\ inFlight \subseteq Pids
  /\ cached \in [Pids -> States \cup {NoCache}]
  /\ poll \in [Pollers ->
       {Quiet}
       \cup [phase : {"done"}, state : States, witness : 0 .. MaxPid, putBack : BOOLEAN]
       \cup [phase : InCall, state : States, server : Servers,
             pid : 0 .. MaxPid, witness : 0 .. MaxPid, putBack : BOOLEAN]]

Probing(w, p) == poll[w].phase \in {"pinging", "sampled"} /\ poll[w].pid = p

(* However many callers poll a server, one of them pings its child.        *)
OneProbe ==
  \A w, v \in Pollers : \A p \in alive : 
    Probing(w, p) /\ Probing(v, p) /\ health[p] # "failed" => w = v

(* The in-flight mark of a child in the running registry belongs to a      *)
(* probe that is still going on: a mark nobody will clear would freeze the *)
(* reported status of a live server.                                       *)
MarkHasProbe ==
  \A s \in Servers :
    running[s] \in inFlight => \E w \in Pollers : Probing(w, running[s])

(* "stopped" is the answer to a call throughout which one live child was   *)
(* owned only if a stop command that could not be written put the child    *)
(* back during the call: a child that moves from the running registry to   *)
(* the stopping one is not missed, although they are looked at one after   *)
(* the other.                                                              *)
StoppedIsTrue ==
  \A w \in Pollers :
    /\ poll[w].phase = "done"
    /\ poll[w].state = "stopped"
    /\ ~poll[w].putBack
    => poll[w].witness \notin alive

(* What the second look at the stopping registry is there for: a call that *)
(* answers "stopped" has not had a live child in one of the registries     *)
(* all the while (process.rs:536, :655).                                   *)
NeverEarlyStopped ==
  \A w \in Pollers :
    poll[w].phase = "done" /\ poll[w].state = "stopped" => poll[w].witness \notin alive

(* Telemetry of a replaced child is never stored on its successor: a child *)
(* is cached as running only once it was found ready itself.               *)
CachedRunningIsReady ==
  \A p \in Pids : cached[p] = "running" => health[p] # "starting"
=============================================================================
