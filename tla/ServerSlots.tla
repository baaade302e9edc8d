----------------------------- MODULE ServerSlots -----------------------------
(***************************************************************************)
(* What the two process registries of process.rs promise together, with    *)
(* the split between "running" and "stopping" hidden: each server has one  *)
(* slot, a slot holds at most one child process, a live child is always    *)
(* held by a slot, and two held children never share a network endpoint.   *)
(* The only ways a slot is emptied are that its child has already exited   *)
(* or that the same step terminates it.                                    *)
(***************************************************************************)
EXTENDS Naturals

CONSTANTS
  Servers,    \* registered servers
  Endpoints,  \* (port, transport) pairs
  MaxPid      \* how many children are ever spawned (bound)

VARIABLES
  owner,      \* owner[s]: the child holding the slot of s, or NoProcess
  endpoint,   \* endpoint[p]: the endpoint reserved for child p
  alive,      \* children that have not exited
  spawned     \* children spawned so far; child n is the n-th one

vars == <<owner, endpoint, alive, spawned>>

Pids       == 1 .. MaxPid
NoProcess  == 0
NoEndpoint == "none"

Init ==
  /\ owner    = [s \in Servers |-> NoProcess]
  /\ endpoint = [p \in Pids |-> NoEndpoint]
  /\ alive    = {}
  /\ spawned  = 0

(* The slots of S are emptied: their children have exited.                 *)
Vacated(S) == [s \in Servers |-> IF s \in S THEN NoProcess ELSE owner[s]]

Exited(S) == \A s \in S : owner[s] \notin alive

Vacate(S) ==
  /\ Exited(S)
  /\ owner' = Vacated(S)
  /\ UNCHANGED <<endpoint, alive, spawned>>

(* A launch empties any slots whose child has exited and gives a fresh     *)
(* child to an empty slot, on an endpoint no held child has.               *)
Launch(s, e, S) ==
  /\ spawned < MaxPid
  /\ Exited(S)
  /\ Vacated(S)[s] = NoProcess
  /\ \A t \in Servers \ {s} :
       Vacated(S)[t] # NoProcess => endpoint[Vacated(S)[t]] # e
  /\ owner'    = [Vacated(S) EXCEPT ![s] = spawned + 1]
  /\ endpoint' = [endpoint EXCEPT ![spawned + 1] = e]
  /\ alive'    = alive \cup {spawned + 1}
  /\ spawned'  = spawned + 1

(* A launch that fails after CreateProcess leaves no live child behind.    *)
LaunchFails(S) ==
  /\ spawned < MaxPid
  /\ Exited(S)
  /\ owner'   = Vacated(S)
  /\ spawned' = spawned + 1
  /\ UNCHANGED <<endpoint, alive>>

Exit(p) ==
  /\ alive' = alive \ {p}
  /\ UNCHANGED <<owner, endpoint, spawned>>

(* Termination kills the child and may empty its slot in the same step.    *)
Terminate(s) ==
  /\ owner[s] # NoProcess
  /\ alive' = alive \ {owner[s]}
  /\ owner' = [owner EXCEPT ![s] = NoProcess]
  /\ UNCHANGED <<endpoint, spawned>>

Next ==
  \/ \E S \in SUBSET Servers :
       \/ Vacate(S)
       \/ LaunchFails(S)
       \/ \E s \in Servers, e \in Endpoints : Launch(s, e, S)
  \/ \E p \in Pids : Exit(p)
  \/ \E s \in Servers : Terminate(s)

Spec == Init /\ [][Next]_vars
=============================================================================
