---------------------------- MODULE MCStatusProbe ----------------------------
(***************************************************************************)
(* StatusProbe for TLC.  All of its bounds at once are too many states, so *)
(* a behaviour is within one element of Bounds: whether the stop command   *)
(* may fail to be written, whether a launch may report an error, how many  *)
(* children there are, and whether both pollers poll or one.  The pollers  *)
(* are interchangeable.                                                    *)
(***************************************************************************)
EXTENDS StatusProbe, TLC

CONSTANT Bounds

VARIABLE bound  \* the element of Bounds this behaviour is within

MCBounds ==
  {[breaks |-> FALSE, errors |-> FALSE, children |-> 2, both |-> TRUE],
   [breaks |-> TRUE,  errors |-> TRUE,  children |-> 1, both |-> TRUE],
   [breaks |-> TRUE,  errors |-> TRUE,  children |-> 2, both |-> FALSE]}
MCBroken == {[breaks |-> TRUE, errors |-> FALSE, children |-> 1, both |-> FALSE]}

Within ==
  /\ bound.breaks \/ \A s \in Servers : ~PutBack(s)
  /\ bound.errors \/ \A p \in Pids : health'[p] # "failed"
  /\ spawned' <= bound.children
  /\ bound.both \/ \E w \in Pollers : poll'[w] = Quiet

MCInit == ProbeInit /\ bound \in Bounds
MCNext == ProbeNext /\ Within /\ UNCHANGED bound
MCSpec == MCInit /\ [][MCNext]_<<statusVars, bound>>

(* While the stop command can be written, the in-flight mark of a running  *)
(* child belongs to a probe that is still going on (process.rs:720): a     *)
(* mark nobody will clear would freeze the reported state.                 *)
WrittenMarkHasProbe == bound.breaks \/ MarkHasProbe

Symmetry == Permutations(Pollers)
=============================================================================
