----------------------------- MODULE CloudService -----------------------------
(***************************************************************************)
(* The Worker of cloudflare/account-api: fetchHandler gives a request to   *)
(* the account service or to billing.  The two read and write tables of    *)
(* their own, and billing only asks the other who is signed in, so their   *)
(* steps commute: a behaviour of the model is about one of them at a time. *)
(***************************************************************************)
EXTENDS AccountService, Billing

CloudInit == StoreInit /\ BillingInit /\ (mix.requests = 0 \/ asked.jobs = 0)

CloudNext ==
  \/ AccountNext /\ UNCHANGED billingVars
  \/ BillingNext /\ UNCHANGED storeVars

CloudSpec == CloudInit /\ [][CloudNext]_<<storeVars, billingVars>>
===============================================================================
