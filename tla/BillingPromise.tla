---------------------------- MODULE BillingPromise ----------------------------
(***************************************************************************)
(* What billing.ts promises of its copy of Stripe's subscriptions: it is   *)
(* one of the states a subscription was in, and it never goes back.        *)
(***************************************************************************)
EXTENDS Naturals

CONSTANTS Subscriptions
VARIABLES truth, known  \* how often a subscription changed; what was copied

PromiseInit == /\ truth \in [Subscriptions -> Nat]
               /\ known = [s \in Subscriptions |-> 0]

Change(s) == /\ truth' = [truth EXCEPT ![s] = @ + 1]
             /\ UNCHANGED known

Learn(s) == /\ \E v \in known[s] .. truth[s] : known' = [known EXCEPT ![s] = v]
            /\ UNCHANGED truth

PromiseNext == \E s \in Subscriptions : Change(s) \/ Learn(s)

PromiseSpec == PromiseInit /\ [][PromiseNext]_<<truth, known>>
===============================================================================
