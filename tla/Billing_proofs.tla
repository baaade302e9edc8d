---------------------------- MODULE Billing_proofs ----------------------------
(***************************************************************************)
(* Proofs about Billing, for any subscriptions and jobs and any number of  *)
(* changes: the copies implement BillingPromise, and what an acknowledged  *)
(* event told is in the copy or will be.                                   *)
(*                                                                         *)
(* The fence is what both rest on: a job that holds it and has asked       *)
(* Stripe knows at least as much as the copy (FenceKnows), since nobody    *)
(* else has written meanwhile.                                             *)
(***************************************************************************)
EXTENDS Billing, TLAPS

Statuses   == {"none", "active", "past_due", "canceled"}
Events     == ChangeEvents \cup {RefundEvent}
Operations == {"none", "event", "account", "checkout"}
Places     == {"unstarted", "hold", "record", "targets", "next", "fence", "retrieve", "owner", "verify", "write",
               "list", "attempt", "pending", "session", "check", "store", "ended"}
JobRecords ==
  [op : Operations, at : Places, targets : SUBSET Subscriptions, sub : Subscriptions \cup {Nobody},
   event : Events \cup {Nobody}, ver : Nat, status : Statuses, paid : BOOLEAN,
   pending : Jobs \cup {Nobody}, exp : Nat, session : Jobs \cup {Nobody}]

(* The types of Stripe's state, of the copies, of the jobs and of Checkout.*)
StripeTypes   == truth \in [Subscriptions -> [ver : Nat, status : Statuses]] /\ refunded \in BOOLEAN
CopyTypes     == /\ rows \in [Subscriptions -> [ver : Nat, status : Statuses, paid : BOOLEAN]]
                 /\ fences \in [Subscriptions -> Jobs \cup {Nobody}] /\ hold \in BOOLEAN
JobTypes      == job \in [Jobs -> JobRecords]
CheckoutTypes == /\ attempt \in [id : Jobs \cup {Nobody}, session : Jobs \cup {Nobody}, exp : Nat]
                 /\ time \in Nat
BillingTypes  == StripeTypes /\ CopyTypes /\ JobTypes /\ CheckoutTypes

(* A job between its fence and its write knows a state the subscription    *)
(* was in; while it holds the fence, the copy knows no more.               *)
Reconciling(j) == job[j].at \in {"fence", "retrieve", "owner", "verify", "write"}
Answered(j)    == job[j].at \in {"owner", "verify", "write"}
CopiesBehind == \A s \in Subscriptions : rows[s].ver <= truth[s].ver
HasSubject   == \A j \in Jobs : Reconciling(j) => job[j].sub \in Subscriptions
FenceKnows   == \A j \in Jobs : Answered(j) =>
                  /\ job[j].ver <= truth[job[j].sub].ver
                  /\ fences[job[j].sub] = j => rows[job[j].sub].ver <= job[j].ver
CopyInv == BillingTypes /\ CopiesBehind /\ HasSubject /\ FenceKnows

-----------------------------------------------------------------------------
(* What the steps do to the record of a job.                               *)
LEMMA RestingJob == Resting \in JobRecords
BY DEF Resting, JobRecords, Operations, Places, Statuses, Nobody

LEMMA JobUpdate ==
  ASSUME JobTypes, NEW j \in Jobs, NEW r \in JobRecords, JobBecomes(j, r)
  PROVE  JobTypes' /\ job'[j] = r /\ \A k \in Jobs \ {j} : job'[k] = job[k]
BY DEF JobTypes, JobBecomes

LEMMA JobMoves ==
  ASSUME NEW r \in JobRecords, NEW at \in Places
  PROVE  /\ [r EXCEPT !.at = at] \in JobRecords
         /\ [r EXCEPT !.at = at].at = at
         /\ [r EXCEPT !.at = at].sub = r.sub /\ [r EXCEPT !.at = at].ver = r.ver
         /\ [r EXCEPT !.at = at].event = r.event
BY DEF JobRecords

LEMMA InitCopyInv == BillingInit => CopyInv
<1> SUFFICES ASSUME BillingInit PROVE CopyInv
  OBVIOUS
<1>1. JobTypes
  BY RestingJob DEF BillingInit, JobTypes
<1>2. StripeTypes
  BY DEF BillingInit, StripeTypes, Statuses
<1>3. CopyTypes
  BY DEF BillingInit, CopyTypes, Statuses, Nobody
<1>4. CheckoutTypes
  BY DEF BillingInit, CheckoutTypes, Nobody
<1>5. CopiesBehind
  BY DEF BillingInit, CopiesBehind
<1>6. HasSubject /\ FenceKnows
  BY DEF BillingInit, HasSubject, FenceKnows, Reconciling, Answered, Resting
<1> QED BY <1>1, <1>2, <1>3, <1>4, <1>5, <1>6 DEF CopyInv, BillingTypes

(* Each kind of step keeps the types; first the record of the job.         *)
LEMMA RecordsStep ==
  ASSUME BillingTypes, HasSubject, NEW j \in Jobs,
         \/ \E e \in ChangeEvents \cup {RefundEvent} : Deliver(j, e)
         \/ PlaceHold(j) \/ RecordEvent(j)
         \/ ReconcileAccount(j) \/ FindTargets(j) \/ NextTarget(j)
         \/ TakeFence(j) \/ Retrieve(j) \/ ReadOwner(j) \/ VerifyPaid(j) \/ WriteRow(j)
         \/ BeginCheckout(j) \/ ListSubscriptions(j) \/ UpsertAttempt(j) \/ ReadPending(j)
         \/ CreateSession(j) \/ CheckSession(j) \/ StoreSession(j)
  PROVE  JobTypes'
<1>1. job[j] \in JobRecords
  BY DEF BillingTypes, JobTypes
<1>2. /\ "hold" \in Places /\ "record" \in Places /\ "targets" \in Places /\ "next" \in Places
      /\ "fence" \in Places /\ "retrieve" \in Places /\ "owner" \in Places /\ "verify" \in Places
      /\ "write" \in Places /\ "list" \in Places /\ "attempt" \in Places /\ "pending" \in Places
      /\ "session" \in Places /\ "check" \in Places /\ "store" \in Places /\ "ended" \in Places
  BY DEF Places
<1>3. \A r \in JobRecords : JobBecomes(j, r) => JobTypes'
  BY JobUpdate DEF BillingTypes
<1>4. \A at \in Places : JobGoes(j, at) => JobTypes'
  BY <1>1, <1>3, JobMoves DEF JobGoes
<1>5. ASSUME NEW e \in ChangeEvents \cup {RefundEvent}, Deliver(j, e)
      PROVE  JobTypes'
  <2> DEFINE r == [Resting EXCEPT !.event = e, !.op = "event",
                   !.at = IF e = RefundEvent THEN "hold" ELSE "fence",
                   !.sub = IF e = RefundEvent THEN Nobody ELSE e[1]]
  <2>1. e # RefundEvent => e[1] \in Subscriptions
    BY DEF ChangeEvents
  <2>2. r \in JobRecords
    BY <2>1, <1>2, RestingJob DEF JobRecords, Events, Operations
  <2> QED BY <1>5, <1>3, <2>2 DEF Deliver
<1>6. CASE ReconcileAccount(j)
  <2>1. [Resting EXCEPT !.op = "account", !.at = "targets",
          !.targets = {s \in Subscriptions : Blocking(truth[s].status)}] \in JobRecords
    BY <1>2, RestingJob DEF JobRecords, Operations
  <2> QED BY <1>6, <1>3, <2>1 DEF ReconcileAccount
<1>7. CASE FindTargets(j)
  <2>1. [job[j] EXCEPT !.at = "next", !.targets = @ \cup {s \in Subscriptions : rows[s].status = "active"}] \in JobRecords
    BY <1>1, <1>2 DEF JobRecords
  <2> QED BY <1>7, <1>3, <2>1 DEF FindTargets
<1>8. CASE NextTarget(j)
  <2>1. PICK s \in job[j].targets : JobBecomes(j, [job[j] EXCEPT !.at = "fence", !.sub = s, !.targets = @ \ {s}])
    BY <1>8 DEF NextTarget
  <2>2. [job[j] EXCEPT !.at = "fence", !.sub = s, !.targets = @ \ {s}] \in JobRecords
    BY <1>1, <1>2, <2>1 DEF JobRecords
  <2> QED BY <1>3, <2>1, <2>2
<1>9. CASE Retrieve(j)
  <2>1. truth[job[j].sub].ver \in Nat /\ truth[job[j].sub].status \in Statuses
    BY <1>9 DEF Retrieve, JobStands, HasSubject, Reconciling, BillingTypes, StripeTypes
  <2>2. [job[j] EXCEPT !.at = "owner", !.ver = truth[job[j].sub].ver, !.status = truth[job[j].sub].status] \in JobRecords
    BY <1>1, <1>2, <2>1 DEF JobRecords
  <2> QED BY <1>9, <1>3, <2>2 DEF Retrieve
<1>10. CASE ReadOwner(j)
  <2>1. [job[j] EXCEPT !.at = "verify", !.paid = ~hold /\ job[j].status = "active"] \in JobRecords
    BY <1>1, <1>2 DEF JobRecords
  <2> QED BY <1>10, <1>3, <2>1 DEF ReadOwner
<1>11. CASE VerifyPaid(j)
  <2>1. [job[j] EXCEPT !.at = "write", !.paid = @ /\ ~refunded] \in JobRecords
    BY <1>1, <1>2 DEF JobRecords
  <2> QED BY <1>11, <1>3, <2>1 DEF VerifyPaid
<1>12. CASE BeginCheckout(j)
  <2>1. [Resting EXCEPT !.op = "checkout", !.at = "list"] \in JobRecords
    BY <1>2, RestingJob DEF JobRecords, Operations
  <2> QED BY <1>12, <1>3, <2>1 DEF BeginCheckout
<1>13. CASE ReadPending(j)
  <2>1. [job[j] EXCEPT !.at = "session", !.pending = attempt.id, !.exp = attempt.exp, !.session = attempt.session] \in JobRecords
    BY <1>1, <1>2 DEF JobRecords, BillingTypes, CheckoutTypes
  <2> QED BY <1>13, <1>3, <2>1 DEF ReadPending
<1>14. CASE \/ PlaceHold(j) \/ RecordEvent(j) \/ TakeFence(j) \/ WriteRow(j) \/ ListSubscriptions(j)
            \/ UpsertAttempt(j) \/ CreateSession(j) \/ CheckSession(j) \/ StoreSession(j)
  BY <1>14, <1>2, <1>4
     DEF PlaceHold, RecordEvent, TakeFence, WriteRow, ListSubscriptions, UpsertAttempt, CreateSession, CheckSession, StoreSession
<1> QED BY <1>5, <1>6, <1>7, <1>8, <1>9, <1>10, <1>11, <1>12, <1>13, <1>14

(* The steps of a job that neither take the fence nor hold it.             *)
Elsewhere(j) ==
  \/ \E e \in ChangeEvents \cup {RefundEvent} : Deliver(j, e)
  \/ PlaceHold(j) \/ RecordEvent(j)
  \/ ReconcileAccount(j) \/ FindTargets(j) \/ NextTarget(j)
  \/ BeginCheckout(j) \/ ListSubscriptions(j) \/ UpsertAttempt(j) \/ ReadPending(j)
  \/ CreateSession(j) \/ CheckSession(j) \/ StoreSession(j)
Fenced(j) == job[j].at \in {"retrieve", "owner", "verify", "write"}

(* The rest of the types.                                                  *)
LEMMA TypesStep ==
  ASSUME BillingTypes, HasSubject, [BillingNext]_billingVars
  PROVE  BillingTypes'
<1>1. ASSUME NEW s \in Subscriptions, NEW status \in {"active", "past_due", "canceled"}, StripeChanges(s, status)
      PROVE  BillingTypes'
  BY <1>1 DEF StripeChanges, BillingTypes, StripeTypes, CopyTypes, JobTypes, CheckoutTypes, Statuses
<1>2. CASE Refund \/ TimePasses \/ UNCHANGED billingVars
  <2>1. CASE Refund
    BY <2>1 DEF Refund, BillingTypes, StripeTypes, CopyTypes, JobTypes, CheckoutTypes
  <2>2. CASE TimePasses
    BY <2>2 DEF TimePasses, BillingTypes, StripeTypes, CopyTypes, JobTypes, CheckoutTypes
  <2>3. CASE UNCHANGED billingVars
    BY <2>3 DEF billingVars, BillingTypes, StripeTypes, CopyTypes, JobTypes, CheckoutTypes
  <2> QED BY <1>2, <2>1, <2>2, <2>3
<1>3. ASSUME NEW session \in hosted, NEW s \in Subscriptions, Pay(session, s)
      PROVE  BillingTypes'
  BY <1>3 DEF Pay, BillingTypes, StripeTypes, CopyTypes, JobTypes, CheckoutTypes, Statuses
<1>4. ASSUME NEW j \in Jobs, \/ Elsewhere(j)
                             \/ TakeFence(j) \/ Retrieve(j) \/ ReadOwner(j) \/ VerifyPaid(j) \/ WriteRow(j)
      PROVE  BillingTypes'
  <2>1. JobTypes'
    BY <1>4, RecordsStep DEF Elsewhere
  <2>2. job[j] \in JobRecords
    BY DEF BillingTypes, JobTypes
  <2>3. StripeTypes'
    <3>1. CASE Elsewhere(j)
      BY <3>1 DEF Elsewhere, Deliver, PlaceHold, RecordEvent, ReconcileAccount, FindTargets, NextTarget, BeginCheckout,
            ListSubscriptions, UpsertAttempt, ReadPending, CreateSession, CheckSession, StoreSession,
            stripeVars, BillingTypes, StripeTypes
    <3>2. CASE TakeFence(j) \/ Retrieve(j) \/ ReadOwner(j) \/ VerifyPaid(j) \/ WriteRow(j)
      BY <3>2 DEF TakeFence, Retrieve, ReadOwner, VerifyPaid, WriteRow, stripeVars, BillingTypes, StripeTypes
    <3> QED BY <1>4, <3>1, <3>2
  <2>4. CopyTypes'
    <3>1. CASE TakeFence(j)
      BY <3>1 DEF TakeFence, BillingTypes, CopyTypes
    <3>2. CASE WriteRow(j)
      <4>1. [ver |-> job[j].ver, status |-> job[j].status, paid |-> job[j].paid] \in [ver : Nat, status : Statuses, paid : BOOLEAN]
        BY <2>2 DEF JobRecords
      <4> QED BY <3>2, <4>1 DEF WriteRow, BillingTypes, CopyTypes
    <3>3. CASE PlaceHold(j)
      BY <3>3 DEF PlaceHold, BillingTypes, CopyTypes
    <3>4. CASE Elsewhere(j) /\ ~PlaceHold(j)
      BY <3>4 DEF Elsewhere, Deliver, RecordEvent, ReconcileAccount, FindTargets, NextTarget, BeginCheckout,
            ListSubscriptions, UpsertAttempt, ReadPending, CreateSession, CheckSession, StoreSession, BillingTypes, CopyTypes
    <3>5. CASE Retrieve(j) \/ ReadOwner(j) \/ VerifyPaid(j)
      BY <3>5 DEF Retrieve, ReadOwner, VerifyPaid, BillingTypes, CopyTypes
    <3> QED BY <1>4, <3>1, <3>2, <3>3, <3>4, <3>5
  <2>5. CheckoutTypes'
    <3>1. CASE UpsertAttempt(j)
      BY <3>1, BoundsAssumption DEF UpsertAttempt, stripeVars, BillingTypes, CheckoutTypes
    <3>2. CASE StoreSession(j)
      <4>1. KeyOf(j) \in Jobs \cup {Nobody}
        BY <2>2 DEF KeyOf, JobRecords
      <4> QED BY <3>2, <4>1 DEF StoreSession, stripeVars, BillingTypes, CheckoutTypes
    <3>3. CASE Elsewhere(j) /\ ~UpsertAttempt(j) /\ ~StoreSession(j)
      BY <3>3 DEF Elsewhere, Deliver, PlaceHold, RecordEvent, ReconcileAccount, FindTargets, NextTarget, BeginCheckout,
            ListSubscriptions, ReadPending, CreateSession, CheckSession, stripeVars, BillingTypes, CheckoutTypes
    <3>4. CASE TakeFence(j) \/ Retrieve(j) \/ ReadOwner(j) \/ VerifyPaid(j) \/ WriteRow(j)
      BY <3>4 DEF TakeFence, Retrieve, ReadOwner, VerifyPaid, WriteRow, stripeVars, BillingTypes, CheckoutTypes
    <3> QED BY <1>4, <3>1, <3>2, <3>3, <3>4
  <2> QED BY <2>1, <2>3, <2>4, <2>5 DEF BillingTypes
<1> QED BY <1>1, <1>2, <1>3, <1>4 DEF BillingNext, Run, Elsewhere

(***************************************************************************)
(* What the steps do to the truth, the copies and the fences               *)
(***************************************************************************)
(* Stripe's steps add changes to a subscription, and touch no copy.        *)
LEMMA StripeStep ==
  ASSUME BillingTypes, NEW s \in Subscriptions,
         \/ \E status \in {"active", "past_due", "canceled"} : StripeChanges(s, status)
         \/ \E session \in hosted : Pay(session, s)
  PROVE  /\ UNCHANGED <<rows, fences, hold, events, job>>
         /\ truth'[s].ver = truth[s].ver + 1
         /\ \A o \in Subscriptions \ {s} : truth'[o] = truth[o]
BY DEF BillingTypes, StripeTypes, StripeChanges, Pay

LEMMA ElsewhereStep ==
  ASSUME BillingTypes, NEW j \in Jobs, Elsewhere(j)
  PROVE  /\ UNCHANGED <<truth, rows, fences>>
         /\ \A k \in Jobs \ {j} : job'[k] = job[k]
         /\ ~Fenced(j) /\ ~Fenced(j)'
         /\ Reconciling(j)' => job'[j].sub \in Subscriptions
<1> USE DEF BillingTypes, JobTypes, JobStands, JobGoes, JobBecomes, Fenced, Reconciling, stripeVars
<1>1. job[j] \in JobRecords
  OBVIOUS
<1>2. ASSUME NEW e \in ChangeEvents \cup {RefundEvent}, Deliver(j, e)
      PROVE  /\ UNCHANGED <<truth, rows, fences>> /\ \A k \in Jobs \ {j} : job'[k] = job[k]
             /\ ~Fenced(j) /\ ~Fenced(j)' /\ (Reconciling(j)' => job'[j].sub \in Subscriptions)
  <2>1. e # RefundEvent => e[1] \in Subscriptions
    BY DEF ChangeEvents
  <2> QED BY <1>2, <2>1 DEF Deliver, JobBegins, Resting
<1>3. CASE NextTarget(j)
  BY <1>1, <1>3 DEF NextTarget, JobRecords
<1>4. CASE ReconcileAccount(j) \/ BeginCheckout(j)
  <2>1. CASE ReconcileAccount(j)
    BY <2>1 DEF ReconcileAccount, JobBegins, Resting
  <2>2. CASE BeginCheckout(j)
    BY <2>2 DEF BeginCheckout, JobBegins, Resting
  <2> QED BY <1>4, <2>1, <2>2
<1>5. CASE FindTargets(j) \/ ReadPending(j)
  <2>1. CASE FindTargets(j)
    BY <1>1, <2>1 DEF FindTargets, JobRecords
  <2>2. CASE ReadPending(j)
    BY <1>1, <2>2 DEF ReadPending, JobRecords
  <2> QED BY <1>5, <2>1, <2>2
<1>6. CASE PlaceHold(j) \/ RecordEvent(j) \/ ListSubscriptions(j) \/ UpsertAttempt(j)
  BY <1>1, <1>6 DEF PlaceHold, RecordEvent, ListSubscriptions, UpsertAttempt, JobRecords
<1>7. CASE CreateSession(j) \/ CheckSession(j) \/ StoreSession(j)
  BY <1>1, <1>7 DEF CreateSession, CheckSession, StoreSession, JobRecords
<1> QED BY <1>2, <1>3, <1>4, <1>5, <1>6, <1>7 DEF Elsewhere

(* The fence is taken, Stripe is asked, the answer is checked, and written *)
(* where the fence is still held.                                          *)
LEMMA TakeFenceStep ==
  ASSUME BillingTypes, NEW j \in Jobs, TakeFence(j)
  PROVE  /\ job[j].at = "fence" /\ job'[j].at = "retrieve" /\ job'[j].sub = job[j].sub
         /\ fences' = [fences EXCEPT ![job[j].sub] = j] /\ UNCHANGED <<truth, rows, hold, events>>
         /\ job'[j].op = job[j].op /\ job'[j].event = job[j].event
         /\ \A k \in Jobs \ {j} : job'[k] = job[k]
<1>1. job[j] \in JobRecords
  BY DEF BillingTypes, JobTypes
<1> QED BY <1>1 DEF TakeFence, JobRecords, BillingTypes, JobTypes, JobStands, JobGoes, JobBecomes, stripeVars

LEMMA RetrieveStep ==
  ASSUME BillingTypes, NEW j \in Jobs, Retrieve(j)
  PROVE  /\ job[j].at = "retrieve" /\ job'[j].at = "owner" /\ job'[j].sub = job[j].sub
         /\ job'[j].ver = truth[job[j].sub].ver /\ UNCHANGED <<truth, rows, fences, hold, events>>
         /\ job'[j].op = job[j].op /\ job'[j].event = job[j].event
         /\ \A k \in Jobs \ {j} : job'[k] = job[k]
<1>1. job[j] \in JobRecords
  BY DEF BillingTypes, JobTypes
<1> QED BY <1>1 DEF Retrieve, JobRecords, BillingTypes, JobTypes, JobStands, JobBecomes, stripeVars

LEMMA CheckStep ==
  ASSUME BillingTypes, NEW j \in Jobs, ReadOwner(j) \/ VerifyPaid(j)
  PROVE  /\ Answered(j) /\ job'[j].at \in {"verify", "write"} /\ job'[j].sub = job[j].sub
         /\ job'[j].ver = job[j].ver /\ UNCHANGED <<truth, rows, fences, hold, events>>
         /\ job'[j].op = job[j].op /\ job'[j].event = job[j].event
         /\ \A k \in Jobs \ {j} : job'[k] = job[k]
<1>1. job[j] \in JobRecords
  BY DEF BillingTypes, JobTypes
<1>2. CASE ReadOwner(j)
  BY <1>1, <1>2 DEF ReadOwner, Answered, JobRecords, BillingTypes, JobTypes, JobStands, JobBecomes, stripeVars
<1>3. CASE VerifyPaid(j)
  BY <1>1, <1>3 DEF VerifyPaid, Answered, JobRecords, BillingTypes, JobTypes, JobStands, JobBecomes, stripeVars
<1> QED BY <1>2, <1>3

LEMMA WriteRowStep ==
  ASSUME BillingTypes, NEW j \in Jobs, WriteRow(j)
  PROVE  /\ job[j].at = "write" /\ job'[j].at = (IF job[j].op = "event" THEN "record" ELSE "next")
         /\ job'[j].sub = job[j].sub /\ UNCHANGED <<truth, fences, hold, events>>
         /\ fences[job[j].sub] # j => UNCHANGED rows
         /\ fences[job[j].sub] = j =>
              rows' = [rows EXCEPT ![job[j].sub] =
                        [ver |-> job[j].ver, status |-> job[j].status, paid |-> job[j].paid]]
         /\ job'[j].op = job[j].op /\ job'[j].event = job[j].event
         /\ \A k \in Jobs \ {j} : job'[k] = job[k]
<1>1. job[j] \in JobRecords
  BY DEF BillingTypes, JobTypes
<1> QED BY <1>1 DEF WriteRow, HoldsFence, JobRecords, BillingTypes, JobTypes, JobStands, JobGoes, JobBecomes, stripeVars

LEMMA WrittenRow ==
  ASSUME BillingTypes, NEW j \in Jobs, WriteRow(j), fences[job[j].sub] = j, job[j].sub \in Subscriptions
  PROVE  /\ rows'[job[j].sub].ver = job[j].ver
         /\ \A o \in Subscriptions \ {job[j].sub} : rows'[o] = rows[o]
<1>1. rows' = [rows EXCEPT ![job[j].sub] = [ver |-> job[j].ver, status |-> job[j].status, paid |-> job[j].paid]]
  BY WriteRowStep
<1> QED BY <1>1 DEF BillingTypes, CopyTypes

LEMMA Steps ==
  ASSUME [BillingNext]_billingVars
  PROVE  \/ UNCHANGED <<truth, rows, fences, hold, events, job>>
         \/ \E s \in Subscriptions :
              \/ \E status \in {"active", "past_due", "canceled"} : StripeChanges(s, status)
              \/ \E session \in hosted : Pay(session, s)
         \/ \E j \in Jobs : \/ Elsewhere(j) \/ TakeFence(j) \/ Retrieve(j)
                            \/ ReadOwner(j) \/ VerifyPaid(j) \/ WriteRow(j)
<1>1. CASE Refund \/ TimePasses \/ UNCHANGED billingVars
  BY <1>1 DEF Refund, TimePasses, billingVars
<1> QED BY <1>1 DEF BillingNext, Run, Elsewhere

(***************************************************************************)
(* The copies                                                              *)
(***************************************************************************)
LEMMA CopyInvStep ==
  ASSUME CopyInv, [BillingNext]_billingVars
  PROVE  CopyInv'
<1> USE DEF CopyInv
<1>1. BillingTypes'
  BY TypesStep
<1>2. /\ \A s \in Subscriptions : truth[s].ver \in Nat /\ rows[s].ver \in Nat
      /\ \A j \in Jobs : job[j].ver \in Nat /\ j # Nobody
  BY JobsAssumption DEF BillingTypes, StripeTypes, CopyTypes, JobTypes, JobRecords, Nobody
<1>3. CASE UNCHANGED <<truth, rows, fences, hold, events, job>>
  BY <1>1, <1>3 DEF CopiesBehind, HasSubject, FenceKnows, Reconciling, Answered
<1>4. ASSUME NEW s \in Subscriptions,
             \/ \E status \in {"active", "past_due", "canceled"} : StripeChanges(s, status)
             \/ \E session \in hosted : Pay(session, s)
      PROVE  CopyInv'
  <2>1. /\ UNCHANGED <<rows, fences, job>>
        /\ \A o \in Subscriptions : truth[o].ver <= truth'[o].ver /\ truth'[o].ver \in Nat
    BY <1>2, <1>4, StripeStep
  <2>2. CopiesBehind' /\ HasSubject'
    BY <1>2, <2>1 DEF CopiesBehind, HasSubject, Reconciling
  <2>3. FenceKnows'
    BY <1>2, <2>1 DEF FenceKnows, HasSubject, Reconciling, Answered
  <2> QED BY <1>1, <2>2, <2>3
<1>5. ASSUME NEW j \in Jobs, Elsewhere(j)
      PROVE  CopyInv'
  BY <1>1, <1>5, ElsewhereStep DEF CopiesBehind, HasSubject, FenceKnows, Reconciling, Answered, Fenced
<1>6. ASSUME NEW j \in Jobs, TakeFence(j)
      PROVE  CopyInv'
  <2>1. job[j].sub \in Subscriptions
    BY <1>6, TakeFenceStep DEF HasSubject, Reconciling
  <2>2. \A s \in Subscriptions, k \in Jobs \ {j} : fences'[s] = k => fences[s] = k
    BY <1>6, TakeFenceStep DEF BillingTypes, CopyTypes
  <2>3. HasSubject' /\ CopiesBehind'
    BY <1>6, <2>1, TakeFenceStep DEF HasSubject, CopiesBehind, Reconciling
  <2>4. FenceKnows'
    BY <1>6, <2>2, TakeFenceStep DEF FenceKnows, HasSubject, Reconciling, Answered
  <2> QED BY <1>1, <2>3, <2>4
<1>7. ASSUME NEW j \in Jobs, Retrieve(j)
      PROVE  CopyInv'
  <2>1. job[j].sub \in Subscriptions
    BY <1>7, RetrieveStep DEF HasSubject, Reconciling
  <2>2. HasSubject' /\ CopiesBehind'
    BY <1>7, <2>1, RetrieveStep DEF HasSubject, CopiesBehind, Reconciling
  <2>3. FenceKnows'
    BY <1>2, <1>7, <2>1, RetrieveStep DEF FenceKnows, CopiesBehind, Answered
  <2> QED BY <1>1, <2>2, <2>3
<1>8. ASSUME NEW j \in Jobs, ReadOwner(j) \/ VerifyPaid(j)
      PROVE  CopyInv'
  BY <1>1, <1>8, CheckStep DEF CopiesBehind, HasSubject, FenceKnows, Reconciling, Answered
<1>9. ASSUME NEW j \in Jobs, WriteRow(j)
      PROVE  CopyInv'
  <2>1. job[j].sub \in Subscriptions /\ job[j].ver <= truth[job[j].sub].ver /\ Answered(j)
    BY <1>9, WriteRowStep DEF HasSubject, FenceKnows, Reconciling, Answered
  <2>2. /\ HasSubject' /\ ~Answered(j)'
        /\ \A k \in Jobs \ {j} : Answered(k)' => Answered(k)
    BY <1>9, WriteRowStep DEF HasSubject, Reconciling, Answered
  <2>3. CASE fences[job[j].sub] # j
    BY <1>1, <1>9, <2>2, <2>3, WriteRowStep DEF CopiesBehind, FenceKnows
  <2>4. CASE fences[job[j].sub] = j
    <3>1. /\ rows'[job[j].sub].ver = job[j].ver
          /\ \A s \in Subscriptions \ {job[j].sub} : rows'[s] = rows[s]
      BY <1>9, <2>1, <2>4, WrittenRow
    <3>2. CopiesBehind'
      BY <1>9, <2>1, <3>1, WriteRowStep DEF CopiesBehind
    <3>3. ASSUME NEW k \in Jobs \ {j}, Answered(k)'
          PROVE  /\ job'[k].ver <= truth'[job'[k].sub].ver
                 /\ fences'[job'[k].sub] = k => rows'[job'[k].sub].ver <= job'[k].ver
      <4>1. job[k].sub \in Subscriptions /\ Answered(k)
        BY <2>2, <3>3 DEF HasSubject, Reconciling, Answered
      <4>2. job'[k] = job[k] /\ UNCHANGED <<truth, fences>>
        BY <1>9, <3>3, WriteRowStep
      <4> QED BY <2>4, <3>1, <4>1, <4>2 DEF FenceKnows
    <3> QED BY <1>1, <2>2, <3>2, <3>3 DEF FenceKnows
  <2> QED BY <2>3, <2>4
<1> QED BY <1>3, <1>4, <1>5, <1>6, <1>7, <1>8, <1>9, Steps

(* A copy only grows, and up to what Stripe has.                           *)
LEMMA CopiesStep ==
  ASSUME CopyInv, [BillingNext]_billingVars
  PROVE  \/ UNCHANGED <<truth, rows>>
         \/ \E s \in Subscriptions : /\ UNCHANGED rows
                                     /\ truth'[s].ver = truth[s].ver + 1
                                     /\ \A o \in Subscriptions \ {s} : truth'[o] = truth[o]
         \/ \E s \in Subscriptions : /\ UNCHANGED truth
                                     /\ rows'[s].ver \in rows[s].ver .. truth[s].ver
                                     /\ \A o \in Subscriptions \ {s} : rows'[o] = rows[o]
<1>1. ASSUME NEW j \in Jobs, WriteRow(j), fences[job[j].sub] = j
      PROVE  /\ job[j].sub \in Subscriptions /\ UNCHANGED truth
             /\ rows'[job[j].sub].ver \in rows[job[j].sub].ver .. truth[job[j].sub].ver
             /\ \A o \in Subscriptions \ {job[j].sub} : rows'[o] = rows[o]
  <2>1. Answered(j) /\ job[j].sub \in Subscriptions /\ UNCHANGED truth
    BY <1>1, WriteRowStep DEF CopyInv, HasSubject, Answered, Reconciling
  <2>2. /\ rows'[job[j].sub].ver = job[j].ver
        /\ \A o \in Subscriptions \ {job[j].sub} : rows'[o] = rows[o]
    BY <1>1, <2>1, WrittenRow DEF CopyInv
  <2>3. rows[job[j].sub].ver <= job[j].ver /\ job[j].ver <= truth[job[j].sub].ver
    BY <1>1, <2>1 DEF CopyInv, FenceKnows
  <2>4. rows[job[j].sub].ver \in Nat /\ job[j].ver \in Nat /\ truth[job[j].sub].ver \in Nat
    BY <2>1 DEF CopyInv, BillingTypes, StripeTypes, CopyTypes, JobTypes, JobRecords
  <2> QED BY <2>1, <2>2, <2>3, <2>4
<1>2. ASSUME NEW j \in Jobs,
             \/ Elsewhere(j) \/ TakeFence(j) \/ Retrieve(j) \/ ReadOwner(j) \/ VerifyPaid(j)
             \/ WriteRow(j) /\ fences[job[j].sub] # j
      PROVE  UNCHANGED <<truth, rows>>
  BY <1>2, ElsewhereStep, TakeFenceStep, RetrieveStep, CheckStep, WriteRowStep DEF CopyInv
<1>3. ASSUME NEW s \in Subscriptions,
             \/ \E status \in {"active", "past_due", "canceled"} : StripeChanges(s, status)
             \/ \E session \in hosted : Pay(session, s)
      PROVE  /\ UNCHANGED rows
             /\ truth'[s].ver = truth[s].ver + 1
             /\ \A o \in Subscriptions \ {s} : truth'[o] = truth[o]
  BY <1>3, StripeStep DEF CopyInv
<1> QED BY <1>1, <1>2, <1>3, Steps

(* The copies of Stripe's subscriptions never go back: whatever the order  *)
(* in which webhooks, reconciliations and Stripe's answers overtake each   *)
(* other, the service keeps the promise of BillingPromise.                 *)
THEOREM CopiesKeepPromise == BillingSpec => CopiesNeverGoBack
<1> DEFINE there == [s \in Subscriptions |-> truth[s].ver]
           here  == [s \in Subscriptions |-> rows[s].ver]
<1>1. BillingInit => Promise!PromiseInit
  BY DEF BillingInit, Promise!PromiseInit
<1>2. CopyInv /\ [BillingNext]_billingVars => [Promise!PromiseNext]_<<there, here>>
  <2> SUFFICES ASSUME CopyInv, [BillingNext]_billingVars
               PROVE  [Promise!PromiseNext]_<<there, here>>
    OBVIOUS
  <2>1. \A s \in Subscriptions : truth[s].ver \in Nat /\ rows[s].ver \in Nat
    BY DEF CopyInv, BillingTypes, StripeTypes, CopyTypes
  <2>2. CASE UNCHANGED <<truth, rows>>
    BY <2>2
  <2>3. ASSUME NEW s \in Subscriptions, UNCHANGED rows, truth'[s].ver = truth[s].ver + 1,
               \A o \in Subscriptions \ {s} : truth'[o] = truth[o]
        PROVE  Promise!PromiseNext
    <3>1. UNCHANGED here
      BY <2>3
    <3>2. there' = [there EXCEPT ![s] = @ + 1]
      BY <2>3
    <3> QED BY <3>1, <3>2 DEF Promise!PromiseNext, Promise!Change
  <2>4. ASSUME NEW s \in Subscriptions, UNCHANGED truth, rows'[s].ver \in rows[s].ver .. truth[s].ver,
               \A o \in Subscriptions \ {s} : rows'[o] = rows[o]
        PROVE  Promise!PromiseNext
    <3>1. UNCHANGED there
      BY <2>4
    <3>2. here' = [here EXCEPT ![s] = rows'[s].ver]
      BY <2>4
    <3>3. rows'[s].ver \in here[s] .. there[s]
      BY <2>4
    <3> QED BY <3>1, <3>2, <3>3 DEF Promise!PromiseNext, Promise!Learn
  <2> QED BY <2>2, <2>3, <2>4, CopiesStep
<1>3. BillingSpec => []CopyInv
  BY InitCopyInv, CopyInvStep, PTL DEF BillingSpec
<1> QED BY <1>1, <1>2, <1>3, PTL DEF BillingSpec, CopiesNeverGoBack, Promise!PromiseSpec

(***************************************************************************)
(* The acknowledged events                                                 *)
(***************************************************************************)
(* An event a job works on was told by Stripe; from its fence on, it is in *)
(* the copy or will be.                                                    *)
IsTold(e)    == e \in ChangeEvents /\ e[2] <= truth[e[1]].ver
IsCovered(e) == Covered(e[1], e[2])
OfEvent(j) ==
  \/ job[j].at = "hold" /\ job[j].event = RefundEvent
  \/ job[j].at = "fence" /\ IsTold(job[j].event) /\ job[j].sub = job[j].event[1]
  \/ Fenced(j) /\ IsTold(job[j].event) /\ job[j].sub = job[j].event[1] /\ IsCovered(job[j].event)
  \/ job[j].at = "record" /\ IsTold(job[j].event) /\ IsCovered(job[j].event)
  \/ job[j].at = "record" /\ job[j].event = RefundEvent /\ hold
  \/ job[j].at = "ended"
WorksOnEvent == \A j \in Jobs : /\ job[j].at \in {"hold", "record"} => job[j].op = "event"
                                /\ job[j].op = "event" => OfEvent(j)
Acknowledged == \A e \in events : (IsTold(e) /\ IsCovered(e)) \/ (e = RefundEvent /\ hold)
AckInv == WorksOnEvent /\ Acknowledged

LEMMA ChangeEventParts ==
  ASSUME NEW e \in ChangeEvents
  PROVE  /\ e[1] \in Subscriptions /\ e[2] \in Nat /\ e # RefundEvent
         /\ e = <<e[1], e[2]>>
BY BoundsAssumption, SubscriptionsAssumption DEF ChangeEvents, RefundEvent

(* What was told or is covered once stays so.                              *)
LEMMA ToldStays ==
  ASSUME CopyInv, [BillingNext]_billingVars, NEW e, IsTold(e)
  PROVE  IsTold(e)'
<1>1. e[1] \in Subscriptions /\ e[2] \in Nat
  BY ChangeEventParts DEF IsTold
<1>2. truth[e[1]].ver \in Nat /\ truth'[e[1]].ver \in Nat
  BY <1>1, CopyInvStep DEF CopyInv, BillingTypes, StripeTypes
<1>3. truth[e[1]].ver <= truth'[e[1]].ver
  BY <1>1, <1>2, CopiesStep
<1> QED BY <1>1, <1>2, <1>3 DEF IsTold

LEMMA CoveredStays ==
  ASSUME CopyInv, [BillingNext]_billingVars, NEW e, IsTold(e), IsCovered(e)
  PROVE  IsTold(e)' /\ IsCovered(e)'
<1>1. e[1] \in Subscriptions /\ e[2] \in Nat
  BY ChangeEventParts DEF IsTold
<1>2. BillingTypes /\ CopyInv' /\ \A s \in Subscriptions : /\ truth[s].ver \in Nat /\ rows[s].ver \in Nat
                                                           /\ truth'[s].ver \in Nat /\ rows'[s].ver \in Nat
  BY CopyInvStep DEF CopyInv, BillingTypes, StripeTypes, CopyTypes
<1>3. \A s \in Subscriptions : truth[s].ver <= truth'[s].ver /\ rows[s].ver <= rows'[s].ver
  BY <1>2, CopiesStep
<1>4. IsTold(e)'
  BY ToldStays
<1>5. CASE rows[e[1]].ver >= e[2]
  <2>1. rows'[e[1]].ver >= e[2]
    BY <1>1, <1>2, <1>3, <1>5
  <2> QED BY <1>4, <2>1 DEF IsCovered, Covered
<1>6. ASSUME NEW j \in Jobs, HasOrWill(j, e[1], e[2])
      PROVE  IsCovered(e)'
  <2>1. fences[e[1]] = j /\ job[j].sub = e[1] /\ Fenced(j) /\ (Answered(j) => job[j].ver >= e[2])
    BY <1>6 DEF HasOrWill, Fenced, Answered
  <2>2. CASE UNCHANGED <<rows, fences, job>>
    BY <1>6, <2>2 DEF IsCovered, Covered, HasOrWill
  <2>3. ASSUME NEW k \in Jobs, Elsewhere(k)
        PROVE  IsCovered(e)'
    <3>1. k # j /\ UNCHANGED <<rows, fences>> /\ job'[j] = job[j]
      BY <1>2, <2>1, <2>3, ElsewhereStep
    <3> QED BY <1>6, <3>1 DEF IsCovered, Covered, HasOrWill
  <2>4. ASSUME NEW k \in Jobs, TakeFence(k)
        PROVE  IsCovered(e)'
    <3>1. /\ k # j /\ UNCHANGED rows /\ job'[j] = job[j]
          /\ fences' = [fences EXCEPT ![job[k].sub] = k]
          /\ job'[k].sub = job[k].sub /\ job'[k].at = "retrieve"
      BY <1>2, <2>1, <2>4, TakeFenceStep DEF Fenced
    <3>2. CASE job[k].sub = e[1]
      <4>1. HasOrWill(k, e[1], e[2])'
        BY <1>1, <1>2, <3>1, <3>2 DEF HasOrWill, BillingTypes, CopyTypes
      <4> QED BY <4>1 DEF IsCovered, Covered
    <3>3. CASE job[k].sub # e[1]
      <4>1. HasOrWill(j, e[1], e[2])'
        BY <1>1, <1>2, <1>6, <3>1, <3>3 DEF HasOrWill, BillingTypes, CopyTypes
      <4> QED BY <4>1 DEF IsCovered, Covered
    <3> QED BY <3>2, <3>3
  <2>5. ASSUME NEW k \in Jobs, Retrieve(k)
        PROVE  IsCovered(e)'
    <3>1. CASE k = j
      <4>1. /\ job'[j].at = "owner" /\ job'[j].sub = e[1] /\ job'[j].ver = truth[e[1]].ver
            /\ fences'[e[1]] = j
        BY <1>2, <2>1, <2>5, <3>1, RetrieveStep
      <4>2. HasOrWill(j, e[1], e[2])'
        BY <4>1 DEF HasOrWill, IsTold
      <4> QED BY <4>2 DEF IsCovered, Covered
    <3>2. CASE k # j
      BY <1>2, <1>6, <2>5, <3>2, RetrieveStep DEF IsCovered, Covered, HasOrWill
    <3> QED BY <3>1, <3>2
  <2>6. ASSUME NEW k \in Jobs, ReadOwner(k) \/ VerifyPaid(k)
        PROVE  IsCovered(e)'
    <3>1. CASE k = j
      <4>1. /\ job'[j].at \in {"verify", "write"} /\ job'[j].sub = e[1] /\ job'[j].ver >= e[2]
            /\ fences'[e[1]] = j
        BY <1>2, <2>1, <2>6, <3>1, CheckStep
      <4>2. HasOrWill(j, e[1], e[2])'
        BY <4>1 DEF HasOrWill
      <4> QED BY <4>2 DEF IsCovered, Covered
    <3>2. CASE k # j
      BY <1>2, <1>6, <2>6, <3>2, CheckStep DEF IsCovered, Covered, HasOrWill
    <3> QED BY <3>1, <3>2
  <2>7. ASSUME NEW k \in Jobs, WriteRow(k)
        PROVE  IsCovered(e)'
    <3>1. CASE k = j
      <4>1. job[j].at = "write"
        BY <1>2, <2>7, <3>1, WriteRowStep
      <4>2. rows'[e[1]].ver = job[j].ver /\ job[j].ver >= e[2]
        BY <1>1, <1>2, <2>1, <2>7, <3>1, <4>1, WrittenRow DEF Answered
      <4> QED BY <4>2 DEF IsCovered, Covered
    <3>2. CASE k # j
      <4>1. HasOrWill(j, e[1], e[2])'
        BY <1>2, <1>6, <2>7, <3>2, WriteRowStep DEF HasOrWill
      <4> QED BY <4>1 DEF IsCovered, Covered
    <3> QED BY <3>1, <3>2
  <2>8. ASSUME NEW s \in Subscriptions,
               \/ \E status \in {"active", "past_due", "canceled"} : StripeChanges(s, status)
               \/ \E session \in hosted : Pay(session, s)
        PROVE  IsCovered(e)'
    BY <1>2, <2>2, <2>8, StripeStep
  <2> QED BY <2>2, <2>3, <2>4, <2>5, <2>6, <2>7, <2>8, Steps
<1> QED BY <1>4, <1>5, <1>6 DEF IsCovered, Covered

LEMMA InitAckInv == BillingInit => AckInv
BY DEF BillingInit, AckInv, WorksOnEvent, Acknowledged, Resting

(* A job that is about no event does not become one that is, but for       *)
(* Deliver; and a step of the event's own job follows OfEvent.             *)
LEMMA OtherStep ==
  ASSUME BillingTypes, WorksOnEvent, NEW j \in Jobs,
         \/ ReconcileAccount(j) \/ FindTargets(j) \/ NextTarget(j)
         \/ BeginCheckout(j) \/ ListSubscriptions(j) \/ UpsertAttempt(j) \/ ReadPending(j)
         \/ CreateSession(j) \/ CheckSession(j) \/ StoreSession(j)
  PROVE  /\ UNCHANGED <<hold, events>>
         /\ job'[j].op # "event" /\ job'[j].at \notin {"hold", "record"}
<1> USE DEF BillingTypes, JobTypes, JobStands, JobGoes, JobBecomes
<1>1. job[j] \in JobRecords
  OBVIOUS
<1>2. job[j].at \notin {"hold", "fence", "retrieve", "owner", "verify", "write", "record", "ended"} => job[j].op # "event"
  BY DEF WorksOnEvent, OfEvent, Fenced
<1>3. CASE ReconcileAccount(j)
  BY <1>3 DEF ReconcileAccount, Resting
<1>4. CASE BeginCheckout(j)
  BY <1>4 DEF BeginCheckout, Resting
<1>5. CASE FindTargets(j)
  BY <1>1, <1>2, <1>5 DEF FindTargets, JobRecords
<1>6. CASE NextTarget(j)
  <2>1. PICK s \in job[j].targets : JobBecomes(j, [job[j] EXCEPT !.at = "fence", !.sub = s, !.targets = @ \ {s}])
    BY <1>6 DEF NextTarget
  <2>2. job'[j].op = job[j].op /\ job'[j].at = "fence" /\ job[j].op # "event"
    BY <1>1, <1>2, <1>6, <2>1 DEF NextTarget, JobRecords
  <2> QED BY <1>6, <2>2 DEF NextTarget
<1>7. CASE ReadPending(j)
  BY <1>1, <1>2, <1>7 DEF ReadPending, JobRecords
<1>8. CASE ListSubscriptions(j) \/ UpsertAttempt(j)
  BY <1>1, <1>2, <1>8 DEF ListSubscriptions, UpsertAttempt, JobRecords
<1>9. CASE CreateSession(j) \/ CheckSession(j) \/ StoreSession(j)
  BY <1>1, <1>2, <1>9 DEF CreateSession, CheckSession, StoreSession, JobRecords
<1> QED BY <1>3, <1>4, <1>5, <1>6, <1>7, <1>8, <1>9

(* A job that does not move keeps what is known of its event.              *)
LEMMA OthersKeep ==
  ASSUME CopyInv, AckInv, [BillingNext]_billingVars, hold => hold',
         NEW j \in Jobs, job'[j] = job[j]
  PROVE  /\ job'[j].at \in {"hold", "record"} => job'[j].op = "event"
         /\ job'[j].op = "event" => OfEvent(j)'
<1>1. /\ job[j].at \in {"hold", "record"} => job[j].op = "event"
      /\ job[j].op = "event" => OfEvent(j)
  BY DEF AckInv, WorksOnEvent
<1>2. PICK e : e = job[j].event /\ e = job'[j].event
  OBVIOUS
<1>3. IsTold(e) => IsTold(job[j].event)'
  BY <1>2, ToldStays DEF IsTold
<1>4. IsTold(e) /\ IsCovered(e) => IsTold(job[j].event)' /\ IsCovered(job[j].event)'
  <2>1. IsTold(e) /\ IsCovered(e) => IsTold(e)' /\ IsCovered(e)'
    BY CoveredStays
  <2> QED BY <1>2, <2>1 DEF IsTold, IsCovered
<1> QED BY <1>1, <1>2, <1>3, <1>4 DEF OfEvent, Fenced

LEMMA AckInvStep ==
  ASSUME CopyInv, AckInv, [BillingNext]_billingVars
  PROVE  AckInv'
<1> USE DEF AckInv
<1>1. BillingTypes /\ HasSubject /\ CopyInv'
  BY CopyInvStep DEF CopyInv
<1>2. CASE UNCHANGED <<truth, rows, fences, hold, events, job>>
  BY <1>2 DEF WorksOnEvent, Acknowledged, OfEvent, Fenced, IsTold, IsCovered, Covered, HasOrWill
<1>3. ASSUME hold => hold', \A e \in events' : e \in events \/ (IsTold(e) /\ IsCovered(e))' \/ (e = RefundEvent /\ hold')
      PROVE  Acknowledged'
  <2>1. SUFFICES ASSUME NEW e \in events'
                 PROVE  (IsTold(e) /\ IsCovered(e))' \/ (e = RefundEvent /\ hold')
    BY DEF Acknowledged
  <2> QED BY <1>3, <2>1, CoveredStays DEF Acknowledged
<1>4. ASSUME NEW j \in Jobs, hold => hold',
             \A k \in Jobs \ {j} : job'[k] = job[k],
             job'[j].at \in {"hold", "record"} => job'[j].op = "event",
             job'[j].op = "event" => OfEvent(j)'
      PROVE  WorksOnEvent'
  BY <1>4, OthersKeep DEF WorksOnEvent
<1>5. ASSUME NEW s \in Subscriptions,
             \/ \E status \in {"active", "past_due", "canceled"} : StripeChanges(s, status)
             \/ \E session \in hosted : Pay(session, s)
      PROVE  AckInv'
  <2>1. UNCHANGED <<hold, events, job>>
    BY <1>1, <1>5, StripeStep
  <2> QED BY <1>3, <2>1, OthersKeep DEF WorksOnEvent
<1>6. ASSUME NEW j \in Jobs, NEW e \in ChangeEvents \cup {RefundEvent}, Deliver(j, e)
      PROVE  AckInv'
  <2>1. /\ UNCHANGED <<truth, hold, events>> /\ \A k \in Jobs \ {j} : job'[k] = job[k]
        /\ job'[j].event = e /\ job'[j].op = "event"
        /\ job'[j].at = (IF e = RefundEvent THEN "hold" ELSE "fence")
        /\ job'[j].sub = (IF e = RefundEvent THEN Nobody ELSE e[1])
        /\ Happened(e)
    BY <1>1, <1>6 DEF Deliver, JobBecomes, BillingTypes, JobTypes, Resting, stripeVars
  <2>2. OfEvent(j)'
    BY <1>6, <2>1 DEF OfEvent, IsTold, Happened
  <2> QED BY <1>3, <1>4, <2>1, <2>2
<1>7. ASSUME NEW j \in Jobs, PlaceHold(j)
      PROVE  AckInv'
  <2>1. /\ job[j] \in JobRecords /\ hold' /\ UNCHANGED events
        /\ job[j].at = "hold" /\ job[j].op = "event" /\ OfEvent(j)
    BY <1>1, <1>7 DEF PlaceHold, JobStands, WorksOnEvent, BillingTypes, JobTypes
  <2>2. /\ \A k \in Jobs \ {j} : job'[k] = job[k]
        /\ job'[j].event = job[j].event /\ job'[j].op = "event" /\ job'[j].at = "record"
    BY <1>1, <1>7, <2>1 DEF PlaceHold, JobGoes, JobBecomes, BillingTypes, JobTypes, JobRecords
  <2>3. OfEvent(j)'
    BY <2>1, <2>2 DEF OfEvent, Fenced
  <2> QED BY <1>3, <1>4, <2>1, <2>2, <2>3
<1>8. ASSUME NEW j \in Jobs, RecordEvent(j)
      PROVE  AckInv'
  <2>1. /\ job[j] \in JobRecords /\ UNCHANGED hold /\ events' = events \cup {job[j].event}
        /\ job[j].at = "record" /\ job[j].op = "event" /\ OfEvent(j)
    BY <1>1, <1>8 DEF RecordEvent, JobStands, WorksOnEvent, BillingTypes, JobTypes, stripeVars
  <2>2. /\ \A k \in Jobs \ {j} : job'[k] = job[k]
        /\ job'[j].op = "event" /\ job'[j].at = "ended"
    BY <1>1, <1>8, <2>1 DEF RecordEvent, JobGoes, JobBecomes, BillingTypes, JobTypes, JobRecords
  <2>3. OfEvent(j)'
    BY <2>2 DEF OfEvent
  <2>4. PICK e : e = job[j].event
    OBVIOUS
  <2>5. (IsTold(e) /\ IsCovered(e)) \/ (e = RefundEvent /\ hold)
    BY <2>1, <2>4 DEF OfEvent, Fenced
  <2>6. (IsTold(e) /\ IsCovered(e))' \/ (e = RefundEvent /\ hold')
    BY <2>1, <2>5, CoveredStays
  <2>7. Acknowledged'
    BY <1>3, <2>1, <2>4, <2>6
  <2> QED BY <1>4, <2>1, <2>2, <2>3, <2>7
<1>9. ASSUME NEW j \in Jobs, \/ ReconcileAccount(j) \/ FindTargets(j) \/ NextTarget(j)
                             \/ BeginCheckout(j) \/ ListSubscriptions(j) \/ UpsertAttempt(j) \/ ReadPending(j)
                             \/ CreateSession(j) \/ CheckSession(j) \/ StoreSession(j)
      PROVE  AckInv'
  <2>1. \A k \in Jobs \ {j} : job'[k] = job[k]
    BY <1>1, <1>9, ElsewhereStep DEF Elsewhere
  <2>2. /\ UNCHANGED <<hold, events>>
        /\ job'[j].op # "event" /\ job'[j].at \notin {"hold", "record"}
    BY <1>1, <1>9, OtherStep
  <2> QED BY <1>3, <1>4, <2>1, <2>2
<1>10. ASSUME NEW j \in Jobs, TakeFence(j)
       PROVE  AckInv'
  <2>1. /\ job[j].at = "fence" /\ job'[j].at = "retrieve" /\ job'[j].sub = job[j].sub
        /\ fences' = [fences EXCEPT ![job[j].sub] = j] /\ UNCHANGED <<truth, hold, events>>
        /\ job'[j].op = job[j].op /\ job'[j].event = job[j].event
        /\ \A k \in Jobs \ {j} : job'[k] = job[k]
    BY <1>1, <1>10, TakeFenceStep
  <2>2. job'[j].op = "event" => OfEvent(j)'
    <3>1. SUFFICES ASSUME job[j].op = "event" PROVE OfEvent(j)'
      BY <2>1
    <3>2. IsTold(job[j].event) /\ job[j].sub = job[j].event[1] /\ job[j].sub \in Subscriptions
      BY <1>1, <2>1, <3>1 DEF WorksOnEvent, OfEvent, Fenced, HasSubject, Reconciling
    <3>3. HasOrWill(j, job[j].event[1], job[j].event[2])'
      BY <1>1, <2>1, <3>2 DEF HasOrWill, BillingTypes, CopyTypes
    <3>4. IsCovered(job[j].event)'
      BY <2>1, <3>3 DEF IsCovered, Covered
    <3> QED BY <2>1, <3>2, <3>4 DEF OfEvent, Fenced, IsTold
  <2> QED BY <1>3, <1>4, <2>1, <2>2
<1>11. ASSUME NEW j \in Jobs, Retrieve(j) \/ ReadOwner(j) \/ VerifyPaid(j) \/ WriteRow(j)
       PROVE  AckInv'
  <2>1. /\ Fenced(j) /\ UNCHANGED <<hold, events>>
        /\ job'[j].op = job[j].op /\ job'[j].event = job[j].event /\ job'[j].sub = job[j].sub
        /\ \A k \in Jobs \ {j} : job'[k] = job[k]
        /\ Fenced(j)' \/ job'[j].at = (IF job[j].op = "event" THEN "record" ELSE "next")
    BY <1>1, <1>11, RetrieveStep, CheckStep, WriteRowStep DEF Fenced, Answered
  <2>2. job'[j].op = "event" => OfEvent(j)'
    <3>1. SUFFICES ASSUME job[j].op = "event" PROVE OfEvent(j)'
      BY <2>1
    <3>2. PICK e : e = job[j].event /\ e = job'[j].event
      BY <2>1
    <3>3. IsTold(e) /\ IsCovered(e) /\ job[j].sub = e[1]
      BY <2>1, <3>1, <3>2 DEF WorksOnEvent, OfEvent, Fenced
    <3>4. IsTold(e)' /\ IsCovered(e)' /\ job'[j].sub = e[1]
      BY <2>1, <3>3, CoveredStays
    <3> QED BY <2>1, <3>1, <3>2, <3>4 DEF OfEvent
  <2>3. job'[j].at \in {"hold", "record"} => job'[j].op = "event"
    BY <2>1 DEF Fenced
  <2> QED BY <1>3, <1>4, <2>1, <2>2, <2>3
<1> QED BY <1>2, <1>5, <1>6, <1>7, <1>8, <1>9, <1>10, <1>11, Steps DEF Elsewhere

LEMMA AckedIsInvariant == BillingSpec => [](CopyInv /\ AckInv)
<1>1. BillingInit => CopyInv /\ AckInv
  BY InitCopyInv, InitAckInv
<1>2. CopyInv /\ AckInv /\ [BillingNext]_billingVars => CopyInv' /\ AckInv'
  BY CopyInvStep, AckInvStep
<1> QED BY <1>1, <1>2, PTL DEF BillingSpec

(* What an acknowledged event told is in the copy, or a job that took the  *)
(* fence later has yet to write it; and there is no lease after a refund   *)
(* was acknowledged.                                                       *)
THEOREM AcknowledgedIsCovered == BillingSpec => []AckedIsCovered
<1>1. AckInv => AckedIsCovered
  <2> SUFFICES ASSUME AckInv PROVE AckedIsCovered
    OBVIOUS
  <2>1. ASSUME NEW s \in Subscriptions, NEW v \in 1 .. MaxChanges, <<s, v>> \in events
        PROVE  Covered(s, v)
    <3>1. <<s, v>> # RefundEvent
      BY <2>1, ChangeEventParts DEF ChangeEvents
    <3> QED BY <2>1, <3>1 DEF AckInv, Acknowledged, IsCovered
  <2>2. RefundEvent \in events => ~MayLease
    BY ChangeEventParts DEF AckInv, Acknowledged, IsTold, MayLease
  <2> QED BY <2>1, <2>2 DEF AckedIsCovered
<1> QED BY <1>1, AckedIsInvariant, PTL

(***************************************************************************)
(* Checkout                                                                *)
(***************************************************************************)
(* An attempt is replaced only when it has expired, and its number is that *)
(* of a job that begins it once: so what a job has read of an attempt, and *)
(* every session that can still be paid, are of the attempt there is.      *)
Begun(j)   == job[j].at \in {"pending", "session", "check", "store", "ended"}
HasRead(j) == job[j].at \in {"session", "check", "store"}
AttemptInv == /\ StoredIsOfAttempt
              /\ attempt.id = Nobody => attempt.exp = 0
              /\ attempt.id \in Jobs => Begun(attempt.id)
ReadInv    == \A j \in Jobs : HasRead(j) =>
                /\ job[j].session \in {Nobody, job[j].pending}
                /\ job[j].pending \in Jobs => Begun(job[j].pending)
                /\ job[j].pending = attempt.id => job[j].exp = attempt.exp
                /\ job[j].exp > time => job[j].pending = attempt.id
HostedInv  == /\ hosted \subseteq [id : Jobs \cup {Nobody}, exp : Nat, done : BOOLEAN]
              /\ \A session \in hosted :
                   /\ session.id \in Jobs => Begun(session.id)
                   /\ session.id = attempt.id => session.exp = attempt.exp
                   /\ session.exp > time => session.id = attempt.id
              /\ \A session, other \in hosted : session.id = other.id => session = other
CheckoutInv == AttemptInv /\ ReadInv /\ HostedInv

LEMMA InitCheckoutInv == BillingInit => CheckoutInv
BY JobsAssumption DEF BillingInit, CheckoutInv, AttemptInv, ReadInv, HostedInv, StoredIsOfAttempt, HasRead, Resting, Nobody

(* The steps of a job before it reads the attempt.                         *)
Before(j) ==
  \/ \E e \in ChangeEvents \cup {RefundEvent} : Deliver(j, e)
  \/ PlaceHold(j) \/ RecordEvent(j)
  \/ ReconcileAccount(j) \/ FindTargets(j) \/ NextTarget(j)
  \/ TakeFence(j) \/ Retrieve(j) \/ ReadOwner(j) \/ VerifyPaid(j) \/ WriteRow(j)
  \/ BeginCheckout(j) \/ ListSubscriptions(j)

LEMMA BeforeStep ==
  ASSUME BillingTypes, NEW j \in Jobs, Before(j)
  PROVE  /\ UNCHANGED <<attempt, hosted, time>>
         /\ ~Begun(j) /\ ~HasRead(j)' /\ \A k \in Jobs \ {j} : job'[k] = job[k]
<1> USE DEF BillingTypes, JobTypes, JobStands, JobGoes, JobBecomes, JobBegins, Begun, HasRead, stripeVars
<1>1. job[j] \in JobRecords
  OBVIOUS
<1>2. CASE \E e \in ChangeEvents \cup {RefundEvent} : Deliver(j, e)
  BY <1>2 DEF Deliver, Resting
<1>3. CASE ReconcileAccount(j)
  BY <1>3 DEF ReconcileAccount, Resting
<1>4. CASE BeginCheckout(j)
  BY <1>4 DEF BeginCheckout, Resting
<1>5. CASE PlaceHold(j) \/ RecordEvent(j)
  BY <1>1, <1>5 DEF PlaceHold, RecordEvent, JobRecords
<1>6. CASE FindTargets(j)
  BY <1>1, <1>6 DEF FindTargets, JobRecords
<1>7. CASE NextTarget(j)
  BY <1>1, <1>7 DEF NextTarget, JobRecords
<1>8. CASE TakeFence(j) \/ ListSubscriptions(j)
  BY <1>1, <1>8 DEF TakeFence, ListSubscriptions, JobRecords
<1>9. CASE Retrieve(j)
  BY <1>1, <1>9 DEF Retrieve, JobRecords
<1>10. CASE ReadOwner(j)
  BY <1>1, <1>10 DEF ReadOwner, JobRecords
<1>11. CASE VerifyPaid(j)
  BY <1>1, <1>11 DEF VerifyPaid, JobRecords
<1>12. CASE WriteRow(j)
  BY <1>1, <1>12 DEF WriteRow, JobRecords
<1> QED BY <1>2, <1>3, <1>4, <1>5, <1>6, <1>7, <1>8, <1>9, <1>10, <1>11, <1>12 DEF Before

LEMMA CheckoutInvStep ==
  ASSUME BillingTypes, HasSubject, CheckoutInv, [BillingNext]_billingVars
  PROVE  CheckoutInv'
<1> USE DEF CheckoutInv
<1>1. /\ BillingTypes' /\ \A k \in Jobs : job[k] \in JobRecords /\ job[k].exp \in Nat
      /\ attempt.id \in Jobs \cup {Nobody} /\ attempt.exp \in Nat /\ time \in Nat
      /\ Nobody \notin Jobs
  BY TypesStep, JobsAssumption DEF BillingTypes, JobTypes, JobRecords, CheckoutTypes, Nobody
<1>2. ASSUME UNCHANGED <<attempt, hosted, time, job>>
      PROVE  CheckoutInv'
  BY <1>2 DEF AttemptInv, ReadInv, HostedInv, StoredIsOfAttempt, Begun, HasRead
<1>3. CASE TimePasses
  <2>1. UNCHANGED <<attempt, hosted, job>> /\ time' = time + 1
    BY <1>3 DEF TimePasses
  <2>2. AttemptInv'
    BY <2>1 DEF AttemptInv, StoredIsOfAttempt, Begun
  <2>3. ReadInv'
    BY <1>1, <2>1 DEF ReadInv, HasRead, Begun
  <2>4. \A session \in hosted : session.exp \in Nat
    BY DEF HostedInv
  <2>5. HostedInv'
    BY <1>1, <2>1, <2>4 DEF HostedInv, Begun
  <2> QED BY <2>2, <2>3, <2>5
<1>4. ASSUME NEW session \in hosted, NEW s \in Subscriptions, Pay(session, s)
      PROVE  CheckoutInv'
  <2> DEFINE paid == [session EXCEPT !.done = TRUE]
  <2>1. /\ UNCHANGED <<attempt, time, job>> /\ hosted' = (hosted \ {session}) \cup {paid}
        /\ hosted \subseteq [id : Jobs \cup {Nobody}, exp : Nat, done : BOOLEAN]
    BY <1>4 DEF Pay, HostedInv
  <2>2. /\ paid \in [id : Jobs \cup {Nobody}, exp : Nat, done : BOOLEAN]
        /\ paid.id = session.id /\ paid.exp = session.exp
    BY <2>1
  <2>3. AttemptInv' /\ ReadInv'
    BY <2>1 DEF AttemptInv, ReadInv, StoredIsOfAttempt, HasRead, Begun
  <2>4. HostedInv'
    <3> HIDE DEF paid
    <3> QED BY <2>1, <2>2 DEF HostedInv, Begun
  <2> QED BY <2>3, <2>4
<1>5. ASSUME NEW j \in Jobs, Before(j)
      PROVE  CheckoutInv'
  <2>1. /\ UNCHANGED <<attempt, hosted, time>>
        /\ \A k \in Jobs : Begun(k) => Begun(k)'
        /\ \A k \in Jobs : HasRead(k)' => HasRead(k) /\ job'[k] = job[k]
    BY <1>5, BeforeStep DEF HasRead, Begun
  <2>2. AttemptInv'
    BY <2>1 DEF AttemptInv, StoredIsOfAttempt
  <2>3. ReadInv'
    BY <2>1 DEF ReadInv
  <2>4. HostedInv'
    BY <2>1 DEF HostedInv
  <2> QED BY <2>2, <2>3, <2>4
<1>6. ASSUME NEW j \in Jobs, UpsertAttempt(j)
      PROVE  CheckoutInv'
  <2>1. /\ UNCHANGED <<hosted, time>> /\ job[j].at = "attempt" /\ job'[j].at = "pending"
        /\ \A k \in Jobs \ {j} : job'[k] = job[k]
        /\ attempt' = IF Replaces THEN [id |-> j, session |-> Nobody, exp |-> time + SessionTime] ELSE attempt
    BY <1>1, <1>6 DEF UpsertAttempt, JobStands, JobGoes, JobBecomes, BillingTypes, JobTypes, JobRecords, stripeVars
  <2>2. /\ \A k \in Jobs : Begun(k) => Begun(k)' /\ k # j
        /\ \A k \in Jobs : HasRead(k)' => HasRead(k) /\ job'[k] = job[k]
        /\ Begun(j)' /\ ~Begun(j)
    BY <2>1 DEF HasRead, Begun
  <2>3. CASE Replaces
    <3>1. /\ attempt'.id = j /\ attempt'.session = Nobody
          /\ attempt.exp <= time
      BY <1>1, <2>1, <2>3 DEF Replaces, AttemptInv
    <3>2. AttemptInv'
      BY <1>1, <2>2, <3>1 DEF AttemptInv, StoredIsOfAttempt
    <3>3. ReadInv'
      BY <1>1, <2>1, <2>2, <3>1 DEF ReadInv
    <3>4. HostedInv'
      <4>1. \A session \in hosted : session.id # j /\ ~(session.exp > time)
        BY <1>1, <2>2, <3>1 DEF HostedInv
      <4> QED BY <2>1, <2>2, <3>1, <4>1 DEF HostedInv
    <3> QED BY <3>2, <3>3, <3>4
  <2>4. CASE ~Replaces
    <3>1. UNCHANGED <<attempt, hosted, time>>
      BY <2>1, <2>4
    <3>2. AttemptInv'
      BY <2>2, <3>1 DEF AttemptInv, StoredIsOfAttempt
    <3>3. ReadInv'
      BY <2>2, <3>1 DEF ReadInv
    <3>4. HostedInv'
      BY <2>2, <3>1 DEF HostedInv
    <3> QED BY <3>2, <3>3, <3>4
  <2> QED BY <2>3, <2>4
<1>7. ASSUME NEW j \in Jobs, ReadPending(j)
      PROVE  CheckoutInv'
  <2>1. /\ UNCHANGED <<attempt, hosted, time>> /\ job[j].at = "pending" /\ job'[j].at = "session"
        /\ job'[j].pending = attempt.id /\ job'[j].exp = attempt.exp /\ job'[j].session = attempt.session
        /\ \A k \in Jobs \ {j} : job'[k] = job[k]
    BY <1>1, <1>7 DEF ReadPending, JobStands, JobBecomes, BillingTypes, JobTypes, JobRecords, stripeVars
  <2>2. /\ \A k \in Jobs : Begun(k) => Begun(k)'
        /\ \A k \in Jobs \ {j} : HasRead(k)' => HasRead(k)
    BY <2>1 DEF HasRead, Begun
  <2>3. AttemptInv'
    BY <2>1, <2>2 DEF AttemptInv, StoredIsOfAttempt
  <2>4. ReadInv'
    BY <2>1, <2>2 DEF ReadInv, AttemptInv, StoredIsOfAttempt
  <2>5. HostedInv'
    BY <2>1, <2>2 DEF HostedInv
  <2> QED BY <2>3, <2>4, <2>5
<1>8. ASSUME NEW j \in Jobs, CreateSession(j) \/ CheckSession(j) \/ StoreSession(j)
      PROVE  CheckoutInv'
  <2>1. HasRead(j) /\ KeyOf(j) = job[j].pending /\ job[j].pending \in Jobs \cup {Nobody}
    BY <1>1, <1>8 DEF CreateSession, CheckSession, StoreSession, JobStands, HasRead, KeyOf, ReadInv, JobRecords
  <2>2. /\ UNCHANGED time /\ Begun(j)'
        /\ job'[j].session = job[j].session /\ job'[j].pending = job[j].pending /\ job'[j].exp = job[j].exp
        /\ \A k \in Jobs \ {j} : job'[k] = job[k]
    <3>1. CASE CreateSession(j)
      BY <1>1, <3>1 DEF CreateSession, JobGoes, JobBecomes, BillingTypes, JobTypes, JobRecords, Begun, stripeVars
    <3>2. CASE CheckSession(j)
      BY <1>1, <3>2 DEF CheckSession, JobGoes, JobBecomes, BillingTypes, JobTypes, JobRecords, Begun, stripeVars
    <3>3. CASE StoreSession(j)
      BY <1>1, <3>3 DEF StoreSession, JobGoes, JobBecomes, BillingTypes, JobTypes, JobRecords, Begun, stripeVars
    <3> QED BY <1>8, <3>1, <3>2, <3>3
  <2>3. /\ \A k \in Jobs : Begun(k) => Begun(k)'
        /\ \A k \in Jobs : HasRead(k)' =>
             /\ HasRead(k) /\ job'[k].session = job[k].session
             /\ job'[k].pending = job[k].pending /\ job'[k].exp = job[k].exp
    BY <2>1, <2>2 DEF HasRead, Begun
  <2>4. attempt'.id = attempt.id /\ attempt'.exp = attempt.exp /\ StoredIsOfAttempt'
    <3>1. CASE StoreSession(j)
      BY <2>1, <3>1 DEF StoreSession, StoresIn, AttemptInv, StoredIsOfAttempt, BillingTypes, CheckoutTypes
    <3>2. CASE CreateSession(j) \/ CheckSession(j)
      BY <3>2 DEF CreateSession, CheckSession, AttemptInv, StoredIsOfAttempt
    <3> QED BY <1>8, <3>1, <3>2
  <2>5. AttemptInv'
    BY <2>3, <2>4 DEF AttemptInv
  <2>6. ReadInv'
    BY <2>2, <2>3, <2>4 DEF ReadInv
  <2>7. HostedInv'
    <3>1. CASE UNCHANGED hosted
      BY <2>2, <2>3, <2>4, <3>1 DEF HostedInv
    <3>2. CASE CreateSession(j) /\ ~UNCHANGED hosted
      <4> DEFINE made == [id |-> job[j].pending, exp |-> job[j].exp, done |-> FALSE]
      <4>1. /\ hosted' = hosted \cup {made} /\ \A session \in hosted : session.id # made.id
            /\ job[j].exp > time
        BY <2>1, <3>2 DEF CreateSession
      <4>2. /\ made \in [id : Jobs \cup {Nobody}, exp : Nat, done : BOOLEAN]
            /\ made.id = attempt.id /\ made.exp = attempt.exp
            /\ made.id \in Jobs => Begun(made.id)
        BY <1>1, <2>1, <4>1 DEF ReadInv
      <4> HIDE DEF made
      <4> QED BY <2>2, <2>3, <2>4, <4>1, <4>2 DEF HostedInv
    <3> QED BY <1>8, <3>1, <3>2 DEF CheckSession, StoreSession, stripeVars
  <2> QED BY <2>5, <2>6, <2>7
<1>9. ASSUME NEW s \in Subscriptions, NEW status \in {"active", "past_due", "canceled"}, StripeChanges(s, status)
      PROVE  CheckoutInv'
  BY <1>2, <1>9 DEF StripeChanges
<1>10. CASE Refund \/ UNCHANGED billingVars
  BY <1>2, <1>10 DEF Refund, billingVars
<1> QED BY <1>3, <1>4, <1>5, <1>6, <1>7, <1>8, <1>9, <1>10 DEF BillingNext, Run, Before

LEMMA CheckoutIsInvariant == BillingSpec => []CheckoutInv
<1>1. BillingInit => CopyInv /\ CheckoutInv
  BY InitCopyInv, InitCheckoutInv
<1>2. CopyInv /\ CheckoutInv /\ [BillingNext]_billingVars => CopyInv' /\ CheckoutInv'
  BY CopyInvStep, CheckoutInvStep DEF CopyInv
<1> QED BY <1>1, <1>2, PTL DEF BillingSpec

(* Of all the sessions Stripe made for the clicks of a customer, however   *)
(* they overlap, one at most can be paid.                                  *)
THEOREM CheckoutCollectsOnce == BillingSpec => []OneOpenCheckout
<1>1. CheckoutInv => OneOpenCheckout
  BY DEF CheckoutInv, HostedInv, OneOpenCheckout, Open
<1> QED BY <1>1, CheckoutIsInvariant, PTL

(* The session stored with an attempt is the attempt's own.                *)
THEOREM StoredSessionIsOfAttempt == BillingSpec => []StoredIsOfAttempt
<1>1. CheckoutInv => StoredIsOfAttempt
  BY DEF CheckoutInv, AttemptInv
<1> QED BY <1>1, CheckoutIsInvariant, PTL
===============================================================================
