-------------------------------- MODULE Billing --------------------------------
(***************************************************************************)
(* cloudflare/account-api/src/billing.ts: the copies of one account's      *)
(* Stripe subscriptions, which webhook events and the account's own        *)
(* request bring up to date (reconcile), and Checkout, which must not      *)
(* collect twice.                                                          *)
(*                                                                         *)
(* A job is one Worker invocation: a webhook delivery, a reconciliation or *)
(* a checkout.  Each database statement and each call of Stripe is a step; *)
(* a job that throws takes no further step, and no step is fair.  Stripe   *)
(* delivers an event any number of times, in any order, also after it has  *)
(* been acknowledged.  Of a subscription the model keeps the number of its *)
(* changes and its status.  Owners and modes do not mix and are left out,  *)
(* as are the creation of the customer, the portal, the checks of prices   *)
(* and configuration, the end of what is paid, and the signature of a      *)
(* lease.                                                                  *)
(***************************************************************************)
EXTENDS Naturals, FiniteSets

CONSTANTS
  Subscriptions,
  Asked,          \* what is asked of the service, and what was subscribed before
  Jobs,           \* jobs, numbered; each runs once.  The number is its fence
  MaxChanges,     \* bound on the changes of a subscription
  MaxTime,        \* bound of the clock of checkouts
  SessionTime     \* the 31 minutes of a checkout session

ASSUME JobsAssumption == Jobs \subseteq Nat \ {0}
ASSUME BoundsAssumption == MaxChanges \in Nat /\ MaxTime \in Nat /\ SessionTime \in Nat
ASSUME SubscriptionsAssumption == "refund" \notin Subscriptions

VARIABLES
  truth,      \* Stripe's subscriptions: [ver, status]; 0: there is none
  refunded,   \* whether a charge of the customer was refunded
  rows,       \* billing_subscriptions: [ver, status, paid]
  fences,     \* billing_reconciliation
  hold,       \* financial_hold
  events,     \* billing_events: events that were processed
  job,
  attempt,    \* billing_checkout: [id, session, exp]
  hosted,     \* Stripe's checkout sessions: [id, exp, done]
  time,
  asked       \* the element of Asked this behaviour is about

billingVars == <<truth, refunded, rows, fences, hold, events, job, attempt, hosted, time, asked>>
stripeVars  == <<truth, refunded, hosted, time, asked>>

Nobody == 0
Resting == [op |-> "none", at |-> "unstarted", targets |-> {}, sub |-> Nobody, event |-> Nobody,
            ver |-> 0, status |-> "none", paid |-> FALSE, pending |-> Nobody, exp |-> 0, session |-> Nobody]

(* blockingStatuses, of which only "active" can be paid for.               *)
Blocking(status) == status \in {"active", "past_due"}
RefundEvent   == <<"refund", 1>>
ChangeEvents  == {<<s, v>> : s \in Subscriptions, v \in 1 .. MaxChanges}
Happened(e)   == IF e = RefundEvent THEN refunded ELSE e[2] <= truth[e[1]].ver

Run == {j \in Jobs : j <= asked.jobs}
JobStands(j, at)      == job[j].at = at
JobBecomes(j, record) == job' = [job EXCEPT ![j] = record]
JobGoes(j, at)        == JobBecomes(j, [job[j] EXCEPT !.at = at])
JobBegins(j, op)      == /\ op \in asked.operations
                         /\ job[j] = Resting /\ \A k \in Jobs : k < j => job[k] # Resting

(***************************************************************************)
(* Stripe, and the customer                                                *)
(***************************************************************************)
StripeChanges(s, status) ==
  /\ "change" \in asked.operations
  /\ truth[s].ver < MaxChanges
  /\ truth[s].status \notin {"none", "canceled"}
  /\ truth' = [truth EXCEPT ![s] = [ver |-> @.ver + 1, status |-> status]]
  /\ UNCHANGED <<refunded, rows, fences, hold, events, job, attempt, hosted, time, asked>>

Refund ==
  /\ "refund" \in asked.operations
  /\ \E s \in Subscriptions : truth[s].ver > 0
  /\ refunded' = TRUE
  /\ UNCHANGED <<truth, rows, fences, hold, events, job, attempt, hosted, time, asked>>

Open(session) == ~session.done /\ session.exp > time

(* The customer pays: the session becomes a subscription.                  *)
Pay(session, s) ==
  /\ Open(session)
  /\ truth[s].ver = 0
  /\ truth' = [truth EXCEPT ![s] = [ver |-> 1, status |-> "active"]]
  /\ hosted' = (hosted \ {session}) \cup {[session EXCEPT !.done = TRUE]}
  /\ UNCHANGED <<refunded, rows, fences, hold, events, job, attempt, time, asked>>

TimePasses ==
  /\ "checkout" \in asked.operations
  /\ time < MaxTime
  /\ time' = time + 1
  /\ UNCHANGED <<truth, refunded, rows, fences, hold, events, job, attempt, hosted, asked>>

(***************************************************************************)
(* processBillingEvent                                                     *)
(***************************************************************************)
(* The event is looked up first: one that was processed does nothing.      *)
Deliver(j, e) ==
  /\ JobBegins(j, "event")
  /\ Happened(e)
  /\ e \notin events
  /\ JobBecomes(j, [Resting EXCEPT !.event = e, !.op = "event",
                   !.at = IF e = RefundEvent THEN "hold" ELSE "fence",
                   !.sub = IF e = RefundEvent THEN Nobody ELSE e[1]])
  /\ UNCHANGED <<stripeVars, rows, fences, hold, events, attempt>>

PlaceHold(j) ==
  /\ JobStands(j, "hold")
  /\ hold' = TRUE
  /\ JobGoes(j, "record")
  /\ UNCHANGED <<stripeVars, rows, fences, events, attempt>>

RecordEvent(j) ==
  /\ JobStands(j, "record")
  /\ events' = events \cup {job[j].event}
  /\ JobGoes(j, "ended")
  /\ UNCHANGED <<stripeVars, rows, fences, hold, attempt>>

(***************************************************************************)
(* reconcileAccountBilling: what is active here or blocking at Stripe.     *)
(***************************************************************************)
ReconcileAccount(j) ==
  /\ JobBegins(j, "account")
  /\ ~hold
  /\ JobBecomes(j, [Resting EXCEPT !.op = "account", !.at = "targets",
                   !.targets = {s \in Subscriptions : Blocking(truth[s].status)}])
  /\ UNCHANGED <<stripeVars, rows, fences, hold, events, attempt>>

FindTargets(j) ==
  /\ JobStands(j, "targets")
  /\ JobBecomes(j, [job[j] EXCEPT !.at = "next", !.targets = @ \cup {s \in Subscriptions : rows[s].status = "active"}])
  /\ UNCHANGED <<stripeVars, rows, fences, hold, events, attempt>>

NextTarget(j) ==
  /\ JobStands(j, "next")
  /\ \E s \in job[j].targets :
       JobBecomes(j, [job[j] EXCEPT !.at = "fence", !.sub = s, !.targets = @ \ {s}])
  /\ UNCHANGED <<stripeVars, rows, fences, hold, events, attempt>>

(***************************************************************************)
(* reconcile: the fence is taken before Stripe is asked.                   *)
(***************************************************************************)
TakeFence(j) ==
  /\ JobStands(j, "fence")
  /\ fences' = [fences EXCEPT ![job[j].sub] = j]
  /\ JobGoes(j, "retrieve")
  /\ UNCHANGED <<stripeVars, rows, hold, events, attempt>>

Retrieve(j) ==
  /\ JobStands(j, "retrieve")
  /\ JobBecomes(j, [job[j] EXCEPT !.at = "owner", !.ver = truth[job[j].sub].ver,
                   !.status = truth[job[j].sub].status])
  /\ UNCHANGED <<stripeVars, rows, fences, hold, events, attempt>>

ReadOwner(j) ==
  /\ JobStands(j, "owner")
  /\ JobBecomes(j, [job[j] EXCEPT !.at = "verify", !.paid = ~hold /\ job[j].status = "active"])
  /\ UNCHANGED <<stripeVars, rows, fences, hold, events, attempt>>

(* verifiedPaidUntil: the invoice, the payment and the charge.             *)
VerifyPaid(j) ==
  /\ JobStands(j, "verify")
  /\ JobBecomes(j, [job[j] EXCEPT !.at = "write", !.paid = @ /\ ~refunded])
  /\ UNCHANGED <<stripeVars, rows, fences, hold, events, attempt>>

(* Slip: the row is written without a look at the fence.                   *)
HoldsAnyFence(j) == TRUE
HoldsFence(j)    == fences[job[j].sub] = j

WriteRow(j) ==
  /\ JobStands(j, "write")
  /\ rows' = IF HoldsFence(j)
             THEN [rows EXCEPT ![job[j].sub] = [ver |-> job[j].ver, status |-> job[j].status, paid |-> job[j].paid]]
             ELSE rows
  /\ JobGoes(j, IF job[j].op = "event" THEN "record" ELSE "next")
  /\ UNCHANGED <<stripeVars, fences, hold, events, attempt>>

(***************************************************************************)
(* checkout                                                                *)
(***************************************************************************)
BeginCheckout(j) ==
  /\ JobBegins(j, "checkout")
  /\ ~hold
  /\ JobBecomes(j, [Resting EXCEPT !.op = "checkout", !.at = "list"])
  /\ UNCHANGED <<stripeVars, rows, fences, hold, events, attempt>>

ListSubscriptions(j) ==
  /\ JobStands(j, "list")
  /\ \A s \in Subscriptions : ~Blocking(truth[s].status)
  /\ JobGoes(j, "attempt")
  /\ UNCHANGED <<stripeVars, rows, fences, hold, events, attempt>>

(* Slip: a click always begins an attempt of its own.                      *)
AlwaysReplaces == TRUE
Replaces       == attempt.id = Nobody \/ attempt.exp <= time

UpsertAttempt(j) ==
  /\ JobStands(j, "attempt")
  /\ attempt' = IF Replaces THEN [id |-> j, session |-> Nobody, exp |-> time + SessionTime] ELSE attempt
  /\ JobGoes(j, "pending")
  /\ UNCHANGED <<stripeVars, rows, fences, hold, events>>

ReadPending(j) ==
  /\ JobStands(j, "pending")
  /\ JobBecomes(j, [job[j] EXCEPT !.at = "session", !.pending = attempt.id, !.exp = attempt.exp, !.session = attempt.session])
  /\ UNCHANGED <<stripeVars, rows, fences, hold, events, attempt>>

(* The session there is, or the one whose idempotency key is the attempt;  *)
(* Stripe makes none that has expired.                                     *)
KeyOf(j) == IF job[j].session = Nobody THEN job[j].pending ELSE job[j].session

CreateSession(j) ==
  /\ JobStands(j, "session")
  /\ IF \E session \in hosted : session.id = KeyOf(j)
     THEN UNCHANGED hosted
     ELSE /\ job[j].exp > time
          /\ hosted' = hosted \cup {[id |-> KeyOf(j), exp |-> job[j].exp, done |-> FALSE]}
  /\ JobGoes(j, "check")
  /\ UNCHANGED <<truth, refunded, time, asked, rows, fences, hold, events, attempt>>

CheckSession(j) ==
  /\ JobStands(j, "check")
  /\ \E session \in hosted : session.id = KeyOf(j) /\ Open(session)
  /\ JobGoes(j, "store")
  /\ UNCHANGED <<stripeVars, rows, fences, hold, events, attempt>>

(* Slip: the session is stored whatever attempt is there by now.           *)
StoresInAny(j) == TRUE
StoresIn(j)    == attempt.id = job[j].pending

StoreSession(j) ==
  /\ JobStands(j, "store")
  /\ attempt' = IF StoresIn(j) THEN [attempt EXCEPT !.session = KeyOf(j)] ELSE attempt
  /\ JobGoes(j, "ended")
  /\ UNCHANGED <<stripeVars, rows, fences, hold, events>>

(***************************************************************************)
(* A new customer, or one with subscriptions nobody has heard of yet.      *)
BillingInit ==
  /\ asked \in Asked
  /\ truth = [s \in Subscriptions |-> IF s \in asked.old THEN [ver |-> 1, status |-> "active"]
                                                       ELSE [ver |-> 0, status |-> "none"]]
  /\ refunded = FALSE
  /\ rows = [s \in Subscriptions |-> [ver |-> 0, status |-> "none", paid |-> FALSE]]
  /\ fences = [s \in Subscriptions |-> Nobody]
  /\ hold = FALSE /\ events = {}
  /\ job = [j \in Jobs |-> Resting]
  /\ attempt = [id |-> Nobody, session |-> Nobody, exp |-> 0]
  /\ hosted = {} /\ time = 0

BillingNext ==
  \/ \E s \in Subscriptions, status \in {"active", "past_due", "canceled"} : StripeChanges(s, status)
  \/ Refund
  \/ \E session \in hosted, s \in Subscriptions : Pay(session, s)
  \/ TimePasses
  \/ \E j \in Run :
       \/ \E e \in ChangeEvents \cup {RefundEvent} : Deliver(j, e)
       \/ PlaceHold(j) \/ RecordEvent(j)
       \/ ReconcileAccount(j) \/ FindTargets(j) \/ NextTarget(j)
       \/ TakeFence(j) \/ Retrieve(j) \/ ReadOwner(j) \/ VerifyPaid(j) \/ WriteRow(j)
       \/ BeginCheckout(j) \/ ListSubscriptions(j) \/ UpsertAttempt(j) \/ ReadPending(j)
       \/ CreateSession(j) \/ CheckSession(j) \/ StoreSession(j)

BillingSpec == BillingInit /\ [][BillingNext]_billingVars

(***************************************************************************)
(* Properties                                                              *)
(***************************************************************************)
(* The copies of Stripe's subscriptions never go back, whatever the order  *)
(* in which events, jobs and Stripe's answers overtake each other.         *)
Promise == INSTANCE BillingPromise WITH
  truth <- [s \in Subscriptions |-> truth[s].ver], known <- [s \in Subscriptions |-> rows[s].ver]
CopiesNeverGoBack == Promise!PromiseSpec

(* lease                                                                   *)
MayLease == ~hold /\ \E s \in Subscriptions : rows[s].status = "active" /\ rows[s].paid

(* Somebody has version v of s, or took the fence later and will have it.  *)
HasOrWill(j, s, v) ==
  /\ fences[s] = j /\ job[j].sub = s
  /\ \/ job[j].at = "retrieve"
     \/ job[j].at \in {"owner", "verify", "write"} /\ job[j].ver >= v
Covered(s, v) == rows[s].ver >= v \/ \E j \in Jobs : HasOrWill(j, s, v)

(* An event is acknowledged only when what it tells is in the copy, unless *)
(* a job that took the fence later has yet to write it, or died on the way *)
(* to it; and after a refund was acknowledged there is no lease.           *)
AckedIsCovered ==
  /\ \A s \in Subscriptions, v \in 1 .. MaxChanges : <<s, v>> \in events => Covered(s, v)
  /\ RefundEvent \in events => ~MayLease

(* "Concurrent clicks cannot mint multiple sessions": of all the sessions  *)
(* Stripe made, the customer can pay one.                                  *)
OneOpenCheckout ==
  \A session, other \in hosted : Open(session) /\ Open(other) => session = other

(* The session that is stored is the one of the attempt it is stored with. *)
StoredIsOfAttempt == attempt.session \in {Nobody, attempt.id}

(* "A paid but not yet delivered webhook must not allow a second           *)
(* subscription" (billing.ts:113): a new customer, however checkouts and   *)
(* payments cross, never has two subscriptions at once.                    *)
OneSubscription ==
  asked.old = {} =>
    \A s, t \in Subscriptions : Blocking(truth[s].status) /\ Blocking(truth[t].status) => s = t
===============================================================================
