------------------------------- MODULE MailCodes -------------------------------
(***************************************************************************)
(* The codes of worker.ts that belong to an address and not to an account: *)
(* requestCode and verifyCode, the sign-in of version 0.5.7, and the codes *)
(* of password enrolment with enrollPassword, which is handed a proof that *)
(* the mailbox was reached.  A proof is leased while it is processed, so   *)
(* that it can be tried again after a failure and used once.               *)
(***************************************************************************)
EXTENDS PasswordSignIn

(***************************************************************************)
(* email_codes and password_enrollment_codes: one row per address          *)
(***************************************************************************)
CodeFor(purpose, e) == {c \in db.codes : c.purpose = purpose /\ c.email = e}

UpsertCode(r, purpose, e) ==
  /\ Begins(r, purpose)
  /\ db' = [db EXCEPT !.codes = (@ \ CodeFor(purpose, e)) \cup
              {[purpose |-> purpose, email |-> e, id |-> r, attempts |-> 0, exp |-> clock + CodeTicks]}]
  /\ Becomes(r, [New(purpose, "send") EXCEPT !.email = e])
  /\ OnlyTables

RequestCode(r, e)           == UpsertCode(r, "legacyCode", e)
RequestEnrollmentCode(r, e) == UpsertCode(r, "enrollmentCode", e)

(* The mail could not be sent: the code goes, unless it was replaced.      *)
SendFails(r) ==
  /\ req[r].at = "send" /\ req[r].op \in {"legacyCode", "enrollmentCode"}
  /\ db' = [db EXCEPT !.codes = {c \in @ : c.id # r}]
  /\ Ends(r)
  /\ OnlyTables

AttemptCode(r, op, purpose, e, right) ==
  /\ Begins(r, op)
  /\ right \/ "guess" \in mix.operations
  /\ \E c \in CodeFor(purpose, e) :
       /\ c.exp > clock /\ MayTry(c)
       /\ db' = [db EXCEPT !.codes = (@ \ {c}) \cup {[c EXCEPT !.attempts = @ + 1]}]
       /\ Becomes(r, [New(op, IF right THEN "consume" ELSE "wrong") EXCEPT
                        !.email = e, !.id = c.id, !.n = c.attempts + 1])
  /\ OnlyTables

WrongCode(r, op, purpose) ==
  /\ Stands(r, op, "wrong")
  /\ db' = [db EXCEPT !.codes =
       IF req[r].n < MaxAttempts THEN @
       ELSE {c \in @ : c \notin CodeFor(purpose, req[r].email) \/ c.attempts < MaxAttempts}]
  /\ Ends(r)
  /\ OnlyTables

(* The row whose code and whose attempt this was.                          *)
ConsumeCode(r, op, purpose, next) ==
  /\ Stands(r, op, "consume")
  /\ \E c \in CodeFor(purpose, req[r].email) :
       /\ c.id = req[r].id /\ c.attempts = req[r].n
       /\ db' = [db EXCEPT !.codes = @ \ {c}]
  /\ Becomes(r, [req[r] EXCEPT !.at = next, !.n = 0])
  /\ OnlyTables

(***************************************************************************)
(* verifyCode                                                              *)
(***************************************************************************)
VerifyCodeInsert(r) ==
  /\ Stands(r, "verifyCode", "insert")
  /\ InsertAccount(req[r].email)
  /\ Goes(r, "reserved")
  /\ OnlyTables

VerifyCodeReserved(r) ==
  /\ Stands(r, "verifyCode", "reserved")
  /\ Reserved(req[r].email) = {}
  /\ Goes(r, "account")
  /\ OnlyRequests

VerifyCodeAccount(r) ==
  LET a == OwnerOf(req[r].email)
  IN  /\ Stands(r, "verifyCode", "account")
      /\ a # None
      /\ db.accounts[a].uid = None
      /\ Becomes(r, [req[r] EXCEPT !.at = "mint", !.acct = a, !.ver = db.accounts[a].ver])
      /\ OnlyRequests

VerifyCodeMint(r) == Stands(r, "verifyCode", "mint") /\ Mint(r, "legacyCode", req[r].now)

(***************************************************************************)
(* verifyPasswordEnrollmentCode, enrollPassword                            *)
(***************************************************************************)
InsertProof(r) ==
  /\ Stands(r, "verifyEnrollment", "prove")
  /\ db' = [db EXCEPT !.proofs = @ \cup {[id |-> r, email |-> req[r].email, exp |-> req[r].now + CodeTicks, until |-> 0]}]
  /\ Ends(r)
  /\ OnlyTables

(* processing_until; 0 stands for NULL, as a lease ends after the start.   *)
EnrollLease(r, proof, p) ==
  /\ Begins(r, "enroll")
  /\ proof.exp > clock /\ proof.until <= clock
  /\ db' = [db EXCEPT !.proofs = (@ \ {proof}) \cup {[proof EXCEPT !.until = clock + LeaseTicks]}]
  /\ Becomes(r, [New("enroll", "signup") EXCEPT !.email = proof.email, !.pw = p, !.id = proof.id,
                   !.n = clock + LeaseTicks])
  /\ OnlyTables

LeasedBy(r) == {proof \in db.proofs : proof.id = req[r].id /\ proof.until = req[r].n}

(* releaseProof: Firebase or linkFirebaseAccount refused, or D1 threw.     *)
EnrollRelease(r) ==
  /\ req[r].op = "enroll"
  /\ db' = [db EXCEPT !.proofs = (@ \ LeasedBy(r)) \cup {[proof EXCEPT !.until = 0] : proof \in LeasedBy(r)}]
  /\ Ends(r)
  /\ OnlyTables

(* accounts:signUp, or EMAIL_EXISTS.                                       *)
EnrollSignUp(r) ==
  LET taken == \E u \in Uids : firebase.ids[u].email = req[r].email
  IN  /\ Stands(r, "enroll", "signup")
      /\ IF taken
         THEN Goes(r, "signin") /\ UNCHANGED firebase
         ELSE \E u \in Uids :
                /\ firebase.ids[u] = NoIdentity
                /\ firebase' = [firebase EXCEPT !.ids[u] = [email |-> req[r].email, pw |-> req[r].pw],
                                                !.held[u] = @ \cup {req[r].email}]
                /\ Becomes(r, [req[r] EXCEPT !.at = "linkInsert", !.uid = u])
      /\ UNCHANGED <<db, clock, mix, minted, revoked>>

EnrollSignIn(r) ==
  /\ Stands(r, "enroll", "signin")
  /\ \E u \in Uids :
       /\ SignsIn(u, req[r].email, req[r].pw)
       /\ Becomes(r, [req[r] EXCEPT !.at = "linkInsert", !.uid = u])
  /\ OnlyRequests

(* linkFirebaseAccount.  A second account of the identity makes D1 throw.  *)
LinkInsert(r) ==
  LET e == req[r].email
  IN  /\ Stands(r, "enroll", "linkInsert")
      /\ IF OwnerOf(e) = None
         THEN /\ Unlinked(req[r].uid)
              /\ \E a \in Accounts :
                   /\ db.accounts[a] = NoAccount
                   /\ db' = [db EXCEPT !.accounts[a] = [email |-> e, uid |-> req[r].uid, ver |-> 1]]
         ELSE UNCHANGED db
      /\ Goes(r, "linkRead")
      /\ OnlyTables

LinkRead(r) ==
  LET a == OwnerOf(req[r].email)
  IN  /\ Stands(r, "enroll", "linkRead")
      /\ a # None
      /\ MayLink(a, req[r].uid)
      /\ Becomes(r, [req[r] EXCEPT !.acct = a, !.ver = db.accounts[a].ver,
                       !.at = IF db.accounts[a].uid = None THEN "linkUpdate" ELSE "sessions"])
      /\ OnlyRequests

LinkUpdate(r) ==
  /\ Stands(r, "enroll", "linkUpdate")
  /\ Link(req[r].acct, req[r].uid)
  /\ Goes(r, "linked")
  /\ OnlyTables

EnrollLinked(r) ==
  /\ Stands(r, "enroll", "linked")
  /\ db.accounts[req[r].acct].uid = req[r].uid
  /\ Becomes(r, [req[r] EXCEPT !.at = "sessions", !.ver = db.accounts[req[r].acct].ver])
  /\ OnlyRequests

EnrollSessions(r) ==
  /\ Stands(r, "enroll", "sessions")
  /\ db' = [db EXCEPT !.sessions = {s \in @ : s.acct # req[r].acct}]
  /\ Goes(r, "challenges")
  /\ OnlyTables

EnrollChallenges(r) ==
  /\ Stands(r, "enroll", "challenges")
  /\ db' = [db EXCEPT !.challenges = @ \ ChallengesOf(req[r].acct)]
  /\ Goes(r, "consume")
  /\ OnlyTables

EnrollConsume(r) ==
  /\ Stands(r, "enroll", "consume")
  /\ \E proof \in LeasedBy(r) :
       /\ proof.exp > clock
       /\ db' = [db EXCEPT !.proofs = @ \ {proof}]
  /\ Goes(r, "mint")
  /\ OnlyTables

EnrollMint(r) == Stands(r, "enroll", "mint") /\ Mint(r, "proof", clock)

MailCodesNext ==
  \E r \in Made :
    \/ \E e \in mix.emails : RequestCode(r, e) \/ RequestEnrollmentCode(r, e)
    \/ SendFails(r)
    \/ \E e \in mix.emails, right \in BOOLEAN :
         \/ AttemptCode(r, "verifyCode", "legacyCode", e, right)
         \/ AttemptCode(r, "verifyEnrollment", "enrollmentCode", e, right)
    \/ WrongCode(r, "verifyCode", "legacyCode")
    \/ WrongCode(r, "verifyEnrollment", "enrollmentCode")
    \/ ConsumeCode(r, "verifyCode", "legacyCode", "insert")
    \/ ConsumeCode(r, "verifyEnrollment", "enrollmentCode", "prove")
    \/ VerifyCodeInsert(r) \/ VerifyCodeReserved(r) \/ VerifyCodeAccount(r) \/ VerifyCodeMint(r)
    \/ InsertProof(r)
    \/ \E proof \in db.proofs, p \in mix.passwords : EnrollLease(r, proof, p)
    \/ EnrollRelease(r) \/ EnrollSignUp(r) \/ EnrollSignIn(r) \/ LinkInsert(r) \/ LinkRead(r)
    \/ LinkUpdate(r) \/ EnrollLinked(r) \/ EnrollSessions(r) \/ EnrollChallenges(r)
    \/ EnrollConsume(r) \/ EnrollMint(r)
===============================================================================
