-------------------------- MODULE CloudService_proofs --------------------------
(***************************************************************************)
(* What is proved of the account service and of billing holds in the       *)
(* Worker as a whole: its steps are steps of the one and leave the tables  *)
(* of the other alone.                                                     *)
(***************************************************************************)
EXTENDS CloudService, TLAPS

(* The Worker implements Billing.                                          *)
THEOREM CloudImplementsBilling == CloudSpec => BillingSpec
<1>1. CloudInit => BillingInit
  BY DEF CloudInit
<1>2. [CloudNext]_<<storeVars, billingVars>> => [BillingNext]_billingVars
  BY DEF CloudNext
<1> QED BY <1>1, <1>2, PTL DEF CloudSpec, BillingSpec

(* The Worker implements the account service.                              *)
THEOREM CloudImplementsAccounts == CloudSpec => AccountSpec
<1>1. CloudInit => StoreInit
  BY DEF CloudInit
<1>2. [CloudNext]_<<storeVars, billingVars>> => [AccountNext]_storeVars
  BY DEF CloudNext
<1> QED BY <1>1, <1>2, PTL DEF CloudSpec, AccountSpec
===============================================================================
