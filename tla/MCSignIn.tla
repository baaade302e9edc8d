------------------------------- MODULE MCSignIn -------------------------------
(***************************************************************************)
(* Instances of SignInDialog: dialogs, attempts, sign-outs, failures, and  *)
(* what else the behaviour has.  Two attempts cross without failures, with *)
(* one, with deadlines and with a sign-out; the rest goes with one.        *)
(***************************************************************************)
EXTENDS SignInDialog

Use(dialogs, attempts, signouts, faults, more) ==
  [dialogs |-> dialogs, attempts |-> attempts, signouts |-> signouts, faults |-> faults, more |-> more]

MCUses ==
  {Use(2, 2, 0, 0, {}),
   Use(1, 2, 0, 1, {}),
   Use(1, 2, 0, 0, {"expiry"}),
   Use(1, 2, 1, 0, {}),
   Use(2, 1, 1, 1, {"expiry"}),
   Use(2, 1, 1, 1, {"load", "rename"}),
   Use(2, 1, 1, 0, {"load", "plan", "expiry"}),
   Use(2, 1, 0, 1, {"load", "plan", "expiry"})}

MCPlanUses == {Use(2, 1, 0, 0, {"plan"})}
===============================================================================
