------------------------- MODULE AccountService_proofs -------------------------
(***************************************************************************)
(* Proofs about AccountService, for any accounts, addresses, identities    *)
(* and requests and any mix of what the clients ask for.                   *)
(*                                                                         *)
(* TypesInv carries the types and what a request must have read to be      *)
(* where it is; RowsChange and the Kept predicates say in which ways a     *)
(* step may change the accounts and the other tables. Over these stand     *)
(* three inductive invariants. ShownInv: what was proven with a password   *)
(* is bound to a credential version no newer than the one read with it, so *)
(* that a revocation outdates it. VerifiedInv: an address is relied upon   *)
(* where Firebase has verified it. OnceInv: an identifier names one row,   *)
(* or one request that has taken the row, or one session.                  *)
(***************************************************************************)
EXTENDS AccountService, TLAPS

RequestOps ==
  {"none", "login", "verify", "reset", "legacyCode", "enrollmentCode", "verifyCode", "verifyEnrollment", "enroll",
   "changeEmail", "completeChange", "browserApprove", "browserPoll"}
RequestPlaces ==
  {"unstarted", "ended", "authenticate", "resolve", "owner", "reserved", "insert", "reselect", "confirm", "recheck",
   "clear", "challenge", "send", "compare", "wrong", "consume", "account", "link", "revoke", "linked", "change",
   "reconcile", "reread", "mint", "find", "bump", "sessions", "challenges", "apply", "prove", "signup", "signin",
   "linkInsert", "linkRead", "linkUpdate", "expired", "pending", "delete", "invalidate", "finalize", "approve"}
Grants == {"past", "challenge", "legacyCode", "proof", "browser"} \X (Requests \cup {Past})

Origins    == Requests \cup {Past}
Identities == [email : Emails, pw : Passwords]
Rows       == [email : Emails \cup {None}, uid : Uids \cup {None}, ver : Nat]
SessionRows ==
  [by : Origins, acct : Accounts, grant : Grants, ver : Nat, at : Nat, shown : Nat \cup {None}]
ChallengeRows ==
  [id : Requests, acct : Accounts, uid : Uids, ver : Nat, attempts : 0 .. MaxAttempts, exp : Nat,
   email : Emails, sent : BOOLEAN, shown : Nat]
CodeRows   == [purpose : {"legacyCode", "enrollmentCode"}, email : Emails, id : Origins, attempts : 0 .. MaxAttempts, exp : Nat]
ProofRows  == [id : Origins, email : Emails, exp : Nat, until : Nat]
GrantRows  ==
  [id : Requests, status : {"pending", "approved"}, acct : Accounts \cup {None}, ver : Nat, by : Origins,
   exp : Nat, shown : Nat \cup {None}, used : Origins]
ChangeRows ==
  [acct : Accounts, old : Emails \cup {None}, new : Emails, uid : Uids, ver : Nat, exp : Nat,
   status : {"pending", "applying"}, until : Nat]
LinkRows ==
  [id : Origins, kind : {"reset", "change"}, uid : Uids, email : Emails \cup {None},
   new : Emails \cup {None}]
RequestRecords ==
  [op : RequestOps, at : RequestPlaces, email : Emails \cup {None}, pw : Passwords \cup {None}, uid : Uids \cup {None},
   acct : Accounts \cup {None}, ver : Nat, old : Emails \cup Accounts \cup {None}, id : Origins,
   n : Nat, now : Nat, shown : Nat \cup {None}]
Tables ==
  [accounts : [Accounts -> Rows], sessions : SUBSET SessionRows, challenges : SUBSET ChallengeRows,
   codes : SUBSET CodeRows, proofs : SUBSET ProofRows, grants : SUBSET GrantRows, changes : SUBSET ChangeRows]
Providers ==
  [ids : [Uids -> Identities \cup {NoIdentity}], links : SUBSET LinkRows, held : [Uids -> SUBSET Emails],
   crossed : [Uids -> SUBSET Emails]]

StateTypes ==
  /\ db \in Tables
  /\ firebase \in Providers
  /\ req \in [Requests -> RequestRecords]
  /\ clock \in 0 .. MaxClock
  /\ mix \in Mixes
  /\ minted \subseteq Grants \X Requests
  /\ revoked \in [Accounts -> Nat]

(* The phases of a request in which it has ... *)
LoginProven  == {"resolve", "owner", "reserved", "insert", "reselect", "confirm", "recheck", "clear", "challenge"}
LoginBound   == {"confirm", "recheck", "clear", "challenge"}
Verified     == {"account", "link", "revoke", "linked", "change", "reconcile", "reread", "mint"}
ResetBound   == {"bump", "sessions", "challenges"}
EnrollProven == {"linkInsert", "linkRead", "linkUpdate", "linked", "sessions", "challenges", "consume", "mint"}
EnrollBound  == {"linkUpdate", "linked", "sessions", "challenges", "consume", "mint"}
Completing   == {"owner", "invalidate", "apply", "finalize"}

Addressed == {"login", "legacyCode", "enrollmentCode", "verifyCode", "verifyEnrollment", "enroll",
              "changeEmail", "completeChange"}
WithEmail(x) == x.op \in Addressed \/ (x.op = "verify" /\ x.at \in Verified)
WithAccount(x) ==
  \/ x.op = "login" /\ x.at \in LoginBound
  \/ x.op = "verify" /\ x.at \in Verified
  \/ x.op = "reset" /\ x.at \in ResetBound
  \/ x.op = "verifyCode" /\ x.at = "mint"
  \/ x.op = "enroll" /\ x.at \in EnrollBound
  \/ x.op = "completeChange" /\ x.at \in Completing
  \/ x.op \in {"changeEmail", "browserApprove", "browserPoll"}
WithIdentity(x) ==
  \/ x.op = "login" /\ x.at \in LoginProven
  \/ x.op = "verify" /\ x.at \in Verified
  \/ x.op = "enroll" /\ x.at \in EnrollProven
  \/ x.op = "completeChange" /\ x.at \in Completing
  \/ x.op = "changeEmail"
WithPassword(x) == x.op \in {"reset", "enroll"}

Known(u) == u \in Uids /\ firebase.ids[u] \in Identities

RequestNames(x) ==
  /\ WithEmail(x) => x.email \in Emails
  /\ WithAccount(x) => x.acct \in Accounts
  /\ WithIdentity(x) => Known(x.uid)
  /\ WithPassword(x) => x.pw \in Passwords
  /\ x.op = "login" /\ x.at \in {"recheck", "clear", "challenge"} => x.shown \in Nat
  /\ x.op = "verify" /\ x.at \in Verified => x.shown \in Nat
  /\ x.op = "changeEmail" => x.old # x.email
  /\ x.op \in {"changeEmail", "completeChange"} => x.old \in Emails \cup {None}

(* What is known of a request once nothing it does follows. *)
Finished(i) == i = Past \/ req[i] = Ended

LinksOnce ==
  /\ \A l \in firebase.links : Finished(l.id) /\ Known(l.uid) /\ (l.kind = "change" => l.new \in Emails)
  /\ \A l, m \in firebase.links : l.id = m.id => l = m
RequestLinks(x) ==
  x.op = "completeChange" =>
    /\ Finished(x.id)
    /\ \A l \in firebase.links : l.id = x.id => l.kind = "change" /\ l.new = x.email /\ l.email = x.old

TypesInv ==
  /\ StateTypes
  /\ \A r \in Requests : RequestNames(req[r])
  /\ \A u \in Uids : firebase.held[u] # {} => Known(u)
  /\ \A a \in Accounts : db.accounts[a].uid # None => Known(db.accounts[a].uid)
  /\ \A c \in db.challenges : Known(c.uid)
  /\ \A c \in db.changes : Known(c.uid) /\ c.old # c.new
  /\ \A g \in db.grants : g.status = "approved" <=> g.acct \in Accounts
  /\ LinksOnce
  /\ \A r \in Requests : RequestLinks(req[r])

-------------------------------------------------------------------------------
(***************************************************************************)
(* The steps, operation by operation                                       *)
(***************************************************************************)

(* The steps of the handlers, one operation each, and the others.          *)
LoginStep(r) ==
  \/ \E e \in Emails, p \in Passwords : LoginSnapshot(r, e, p)
  \/ LoginAuthenticate(r) \/ LoginResolve(r) \/ LoginOwner(r) \/ LoginReserved(r)
  \/ LoginInsert(r) \/ LoginReselect(r) \/ LoginConfirm(r) \/ LoginRecheck(r)
  \/ LoginClear(r) \/ LoginChallenge(r) \/ LoginSend(r)
VerifyStep(r) ==
  \/ \E c \in db.challenges, right \in BOOLEAN : VerifyAttempt(r, c, right)
  \/ VerifyWrong(r) \/ VerifyCompare(r) \/ VerifyConsume(r) \/ VerifyAccount(r)
  \/ VerifyLink(r) \/ VerifyRevoke(r) \/ VerifyLinked(r) \/ VerifyChange(r)
  \/ VerifyReconcile(r) \/ VerifyReread(r) \/ VerifyMint(r)
ResetStep(r) ==
  \/ \E u \in Uids : RequestReset(r, u)
  \/ \E link \in firebase.links, p \in Passwords : ResetCheck(r, link, p)
  \/ ResetFind(r) \/ ResetBump(r) \/ ResetSessions(r) \/ ResetChallenges(r) \/ ResetApply(r)
CodeStep(r) ==
  \/ \E e \in Emails, purpose \in {"legacyCode", "enrollmentCode"} : UpsertCode(r, purpose, e)
  \/ SendFails(r)
  \/ \E e \in Emails, right \in BOOLEAN :
       \/ AttemptCode(r, "verifyCode", "legacyCode", e, right)
       \/ AttemptCode(r, "verifyEnrollment", "enrollmentCode", e, right)
  \/ WrongCode(r, "verifyCode", "legacyCode") \/ WrongCode(r, "verifyEnrollment", "enrollmentCode")
  \/ ConsumeCode(r, "verifyCode", "legacyCode", "insert")
  \/ ConsumeCode(r, "verifyEnrollment", "enrollmentCode", "prove")
  \/ VerifyCodeInsert(r) \/ VerifyCodeReserved(r) \/ VerifyCodeAccount(r) \/ VerifyCodeMint(r)
  \/ InsertProof(r)
EnrollStep(r) ==
  \/ \E proof \in db.proofs, p \in Passwords : EnrollLease(r, proof, p)
  \/ EnrollRelease(r) \/ EnrollSignUp(r) \/ EnrollSignIn(r) \/ LinkInsert(r) \/ LinkRead(r)
  \/ LinkUpdate(r) \/ EnrollLinked(r) \/ EnrollSessions(r) \/ EnrollChallenges(r)
  \/ EnrollConsume(r) \/ EnrollMint(r)
ChangeStep(r) ==
  \/ \E s \in db.sessions, e \in Emails, p \in Passwords : ChangeAuthenticate(r, s, e, p)
  \/ ChangeReread(r) \/ ChangeSignIn(r) \/ ChangeDropExpired(r) \/ ChangeOwner(r)
  \/ ChangePending(r) \/ ChangeDeleteOwn(r) \/ ChangeInsert(r) \/ ChangeSend(r) \/ ChangeRefused(r)
CompleteStep(r) ==
  \/ \E link \in firebase.links : CompleteInspect(r, link)
  \/ CompleteFind(r) \/ CompleteOwner(r) \/ CompleteInvalidate(r)
  \/ CompleteApply(r) \/ CompleteRefused(r) \/ CompleteFinalize(r)
BrowserStep(r) ==
  \/ StartBrowserAuth(r)
  \/ \E s \in db.sessions, g \in db.grants : ApproveSession(r, s, g)
  \/ ApproveGrant(r)
  \/ \E g \in db.grants : PollBrowserAuth(r, g)
  \/ PollAccount(r) \/ PollMint(r)
HandlerStep(r) ==
  \/ LoginStep(r) \/ VerifyStep(r) \/ ResetStep(r) \/ CodeStep(r)
  \/ EnrollStep(r) \/ ChangeStep(r) \/ CompleteStep(r) \/ BrowserStep(r)
OtherStep ==
  \/ StoreNext
  \/ \E link \in firebase.links : Hosted(link)
  \/ \E u \in Uids, e \in Emails : Recover(u, e)
  \/ \E g \in db.grants : CancelBrowserAuth(g)

(* What the step of a handler writes of its request.                       *)
Turn(r) == \E x \in RequestRecords : Becomes(r, x)

(* Every step is one of these.                                             *)
LEMMA StepCases == ASSUME StateTypes, AccountNext PROVE OtherStep \/ \E r \in Requests : HandlerStep(r)
<1>1. mix.emails \subseteq Emails /\ mix.passwords \subseteq Passwords
  BY MixesAssumption DEF StateTypes
<1>2. Made \subseteq Requests
  BY DEF Made
<1>3. CASE StoreNext
  BY <1>3 DEF OtherStep
<1>4. CASE PasswordNext
  BY <1>4, <1>1, <1>2 DEF PasswordNext, HandlerStep, LoginStep, VerifyStep, ResetStep
<1>5. CASE MailCodesNext
  BY <1>5, <1>1, <1>2 DEF MailCodesNext, RequestCode, RequestEnrollmentCode, HandlerStep, CodeStep, EnrollStep
<1>6. CASE EmailChangeNext
  BY <1>6, <1>1, <1>2 DEF EmailChangeNext, HandlerStep, ChangeStep, CompleteStep, OtherStep
<1>7. CASE BrowserNext
  BY <1>7, <1>2 DEF BrowserNext, HandlerStep, BrowserStep, OtherStep
<1> QED BY <1>3, <1>4, <1>5, <1>6, <1>7 DEF AccountNext

LEMMA PlaceNames ==
  /\ "authenticate" \in RequestPlaces /\ "resolve" \in RequestPlaces /\ "owner" \in RequestPlaces
  /\ "reserved" \in RequestPlaces /\ "insert" \in RequestPlaces /\ "reselect" \in RequestPlaces
  /\ "confirm" \in RequestPlaces /\ "recheck" \in RequestPlaces /\ "clear" \in RequestPlaces
  /\ "challenge" \in RequestPlaces /\ "send" \in RequestPlaces /\ "compare" \in RequestPlaces
  /\ "wrong" \in RequestPlaces /\ "consume" \in RequestPlaces /\ "account" \in RequestPlaces
  /\ "link" \in RequestPlaces /\ "revoke" \in RequestPlaces /\ "linked" \in RequestPlaces
  /\ "change" \in RequestPlaces /\ "reconcile" \in RequestPlaces /\ "reread" \in RequestPlaces
  /\ "mint" \in RequestPlaces /\ "find" \in RequestPlaces /\ "bump" \in RequestPlaces
  /\ "sessions" \in RequestPlaces /\ "challenges" \in RequestPlaces /\ "apply" \in RequestPlaces
  /\ "prove" \in RequestPlaces /\ "signup" \in RequestPlaces /\ "signin" \in RequestPlaces
  /\ "linkInsert" \in RequestPlaces /\ "linkRead" \in RequestPlaces /\ "linkUpdate" \in RequestPlaces
  /\ "expired" \in RequestPlaces /\ "pending" \in RequestPlaces /\ "delete" \in RequestPlaces
  /\ "invalidate" \in RequestPlaces /\ "finalize" \in RequestPlaces /\ "approve" \in RequestPlaces
BY DEF RequestPlaces

LEMMA RestingRequests == Unstarted \in RequestRecords /\ Ended \in RequestRecords
BY DEF Unstarted, Ended, RequestRecords, RequestOps, RequestPlaces, Origins, Past

(* A request as it begins, as it goes on and as it ends.                   *)
LEMMA NewRequest ==
  ASSUME clock \in Nat, NEW op \in RequestOps, NEW at \in RequestPlaces
  PROVE  New(op, at) \in RequestRecords
BY RestingRequests DEF New, RequestRecords

LEMMA Going ==
  ASSUME StateTypes, NEW r \in Requests
  PROVE  /\ \A at \in RequestPlaces : Goes(r, at) => Turn(r)
         /\ Ends(r) => Turn(r)
BY RestingRequests DEF StateTypes, Goes, Ends, Turn, RequestRecords

-------------------------------------------------------------------------------
(***************************************************************************)
(* What a step does to its request                                         *)
(***************************************************************************)

LEMMA OwnersNamed ==
  /\ \A e : OwnerOf(e) \in Accounts \cup {None}
  /\ \A u : AccountOf(u) \in Accounts \cup {None}
BY DEF OwnerOf, AccountOf

(* A step of a handler changes the record of its request.                  *)
LEMMA LoginTurn == ASSUME TypesInv, NEW r \in Requests, LoginStep(r) PROVE Turn(r)
<1>0. StateTypes
  BY DEF TypesInv
<1> USE <1>0
<1>1. req[r] \in RequestRecords /\ clock \in Nat
  BY TicksAssumption DEF StateTypes
<1>2. \A a \in Accounts : db.accounts[a].ver \in Nat /\ db.accounts[a].email \in Emails \cup {None}
  BY DEF StateTypes, Tables, Rows
<1>3. CASE \E e \in Emails, p \in Passwords : LoginSnapshot(r, e, p)
  <2>1. PICK e \in Emails, p \in Passwords : LoginSnapshot(r, e, p)
    BY <1>3
  <2>2. "login" \in RequestOps
    BY DEF RequestOps
  <2>3. OwnerOf(e) # None => db.accounts[OwnerOf(e)].ver \in Nat
    BY <1>2, OwnersNamed
  <2> DEFINE z == New("login", "authenticate")
             n == IF OwnerOf(e) = None THEN 0 ELSE db.accounts[OwnerOf(e)].ver
             x == [z EXCEPT !.email = e, !.pw = p, !.old = OwnerOf(e), !.n = n]
  <2>4. z \in RequestRecords
    BY <1>1, <2>2, PlaceNames, NewRequest
  <2>5. n \in Nat /\ OwnerOf(e) \in Accounts \cup {None}
    BY <2>3, OwnersNamed
  <2>6. x \in RequestRecords
    <3> HIDE DEF z, n
    <3> QED BY <2>4, <2>5 DEF RequestRecords
  <2>7. Becomes(r, x)
    BY <2>1 DEF LoginSnapshot
  <2> QED BY <2>6, <2>7 DEF Turn
<1>4. CASE LoginAuthenticate(r)
  BY <1>1, <1>4, PlaceNames DEF LoginAuthenticate, Turn, RequestRecords
<1>5. CASE LoginResolve(r)
  <2> DEFINE a == AccountOf(req[r].uid)
  <2>1. a \in Accounts \cup {None} /\ (a # None => a \in Accounts)
    BY OwnersNamed
  <2> DEFINE v == IF a = None THEN 0 ELSE db.accounts[a].ver
             old == IF a = None THEN None ELSE db.accounts[a].email
  <2>2. v \in Nat /\ old \in Emails \cup {None}
    BY <2>1, <1>2
  <2>3. Becomes(r, [req[r] EXCEPT !.at = "owner", !.acct = a, !.ver = v, !.n = 0, !.old = old])
    BY <1>5 DEF LoginResolve
  <2> HIDE DEF a, v, old
  <2> QED BY <1>1, <2>1, <2>2, <2>3, PlaceNames DEF Turn, RequestRecords
<1>6. CASE LoginReselect(r)
  <2>1. OwnerOf(req[r].email) \in Accounts
    BY <1>6, OwnersNamed DEF LoginReselect
  <2> QED BY <1>1, <1>2, <1>6, <2>1, PlaceNames DEF LoginReselect, Turn, RequestRecords
<1>7. CASE LoginConfirm(r)
  <2>1. req[r].acct \in Accounts
    BY <1>7 DEF TypesInv, RequestNames, WithAccount, LoginBound, LoginConfirm, Stands
  <2>2. revoked[req[r].acct] \in Nat
    BY <2>1 DEF StateTypes
  <2> QED BY <1>1, <1>7, <2>2, PlaceNames DEF LoginConfirm, Turn, RequestRecords
<1>8. CASE LoginOwner(r) \/ LoginReserved(r) \/ LoginInsert(r) \/ LoginRecheck(r) \/ LoginClear(r) \/ LoginChallenge(r) \/ LoginSend(r)
  BY <1>8, PlaceNames, Going
     DEF LoginOwner, LoginReserved, LoginInsert, LoginRecheck, LoginClear, LoginChallenge, LoginSend
<1> QED BY <1>3, <1>4, <1>5, <1>6, <1>7, <1>8 DEF LoginStep

LEMMA VerifyTurn == ASSUME TypesInv, NEW r \in Requests, VerifyStep(r) PROVE Turn(r)
<1>0. StateTypes
  BY DEF TypesInv
<1> USE <1>0
<1>1. req[r] \in RequestRecords /\ clock \in Nat
  BY TicksAssumption DEF StateTypes
<1>2. \A a \in Accounts : db.accounts[a].ver \in Nat /\ db.accounts[a].email \in Emails \cup {None}
  BY DEF StateTypes, Tables, Rows
<1>3. ASSUME NEW c \in db.challenges, NEW right \in BOOLEAN, VerifyAttempt(r, c, right) PROVE Turn(r)
  <2>1. "verify" \in RequestOps
    BY DEF RequestOps
  <2>2. c.id \in Origins /\ c.attempts + 1 \in Nat
    BY DEF StateTypes, Tables, ChallengeRows, Origins
  <2> DEFINE at == IF right THEN "compare" ELSE "wrong"
             z  == New("verify", at)
  <2>3. z \in RequestRecords
    BY <1>1, <2>1, PlaceNames, NewRequest
  <2>4. Becomes(r, [z EXCEPT !.id = c.id, !.n = c.attempts + 1])
    BY <1>3 DEF VerifyAttempt
  <2> HIDE DEF z
  <2> QED BY <2>2, <2>3, <2>4 DEF Turn, RequestRecords
<1>4. CASE VerifyConsume(r)
  BY <1>1, <1>4, PlaceNames DEF VerifyConsume, Turn, RequestRecords, StateTypes, Tables, ChallengeRows
<1>9. req[r].op = "verify" /\ req[r].at \in Verified => req[r].acct \in Accounts
  BY DEF TypesInv, RequestNames, WithAccount
<1>5. CASE VerifyAccount(r)
  <2>1. req[r].acct \in Accounts
    BY <1>5, <1>9 DEF VerifyAccount, Stands, Verified
  <2> QED BY <1>1, <1>2, <1>5, <2>1, PlaceNames DEF VerifyAccount, Turn, RequestRecords
<1>6. CASE VerifyLinked(r)
  <2>1. req[r].acct \in Accounts
    BY <1>6, <1>9 DEF VerifyLinked, Stands, Verified
  <2> QED BY <1>1, <1>2, <1>6, <2>1, PlaceNames DEF VerifyLinked, Turn, RequestRecords
<1>7. CASE VerifyReread(r)
  <2>1. req[r].ver + 1 \in Nat
    BY <1>1 DEF RequestRecords
  <2>2. Becomes(r, [req[r] EXCEPT !.at = "mint", !.ver = req[r].ver + 1])
    BY <1>7 DEF VerifyReread
  <2> QED BY <1>1, <2>1, <2>2, PlaceNames DEF Turn, RequestRecords
<1>8. CASE VerifyWrong(r) \/ VerifyCompare(r) \/ VerifyLink(r) \/ VerifyRevoke(r) \/ VerifyChange(r) \/ VerifyReconcile(r) \/ VerifyMint(r)
  BY <1>8, PlaceNames, Going
     DEF VerifyWrong, VerifyCompare, VerifyLink, VerifyRevoke, VerifyChange, VerifyReconcile, VerifyMint, Mint
<1> QED BY <1>3, <1>4, <1>5, <1>6, <1>7, <1>8 DEF VerifyStep

LEMMA ResetTurn == ASSUME TypesInv, NEW r \in Requests, ResetStep(r) PROVE Turn(r)
<1>0. StateTypes
  BY DEF TypesInv
<1> USE <1>0
<1>1. req[r] \in RequestRecords /\ clock \in Nat
  BY TicksAssumption DEF StateTypes
<1>2. ASSUME NEW link \in firebase.links, NEW p \in Passwords, ResetCheck(r, link, p) PROVE Turn(r)
  <2> DEFINE z == New("reset", "find")
  <2>1. z \in RequestRecords
    BY <1>1, PlaceNames, NewRequest DEF RequestOps
  <2>2. link.id \in Origins /\ link.uid \in Uids /\ link.email \in Emails \cup {None}
    BY DEF StateTypes, Providers, LinkRows
  <2>3. Becomes(r, [z EXCEPT !.id = link.id, !.uid = link.uid, !.email = link.email, !.pw = p])
    BY <1>2 DEF ResetCheck
  <2> HIDE DEF z
  <2> QED BY <2>1, <2>2, <2>3 DEF Turn, RequestRecords
<1>3. CASE ResetFind(r)
  <2> DEFINE a  == OwnerOf(req[r].email)
             at == IF a = None THEN "apply" ELSE "bump"
  <2>1. a \in Accounts \cup {None} /\ at \in RequestPlaces
    BY OwnersNamed, PlaceNames
  <2>2. Becomes(r, [req[r] EXCEPT !.acct = a, !.at = at])
    BY <1>3 DEF ResetFind
  <2> HIDE DEF a, at
  <2> QED BY <1>1, <2>1, <2>2 DEF Turn, RequestRecords
<1>4. CASE (\E u \in Uids : RequestReset(r, u)) \/ ResetBump(r) \/ ResetSessions(r) \/ ResetChallenges(r) \/ ResetApply(r)
  BY <1>4, PlaceNames, Going DEF RequestReset, ResetBump, ResetSessions, ResetChallenges, ResetApply
<1> QED BY <1>2, <1>3, <1>4 DEF ResetStep

LEMMA CodeTurn == ASSUME TypesInv, NEW r \in Requests, CodeStep(r) PROVE Turn(r)
<1>0. StateTypes
  BY DEF TypesInv
<1> USE <1>0
<1>1. req[r] \in RequestRecords /\ clock \in Nat
  BY TicksAssumption DEF StateTypes
<1>2. ASSUME NEW e \in Emails, NEW purpose \in {"legacyCode", "enrollmentCode"}, UpsertCode(r, purpose, e)
      PROVE  Turn(r)
  <2> DEFINE z == New(purpose, "send")
  <2>1. z \in RequestRecords
    BY <1>1, PlaceNames, NewRequest DEF RequestOps
  <2>2. Becomes(r, [z EXCEPT !.email = e])
    BY <1>2 DEF UpsertCode
  <2> HIDE DEF z
  <2> QED BY <2>1, <2>2 DEF Turn, RequestRecords
<1>3. ASSUME NEW e \in Emails, NEW right \in BOOLEAN, NEW purpose, NEW op \in {"verifyCode", "verifyEnrollment"},
             AttemptCode(r, op, purpose, e, right)
      PROVE  Turn(r)
  <2> DEFINE z == New(op, IF right THEN "consume" ELSE "wrong")
  <2>1. z \in RequestRecords
    BY <1>1, PlaceNames, NewRequest DEF RequestOps
  <2>2. PICK c \in CodeFor(purpose, e) : Becomes(r, [z EXCEPT !.email = e, !.id = c.id, !.n = c.attempts + 1])
    BY <1>3 DEF AttemptCode
  <2>3. c.id \in Origins /\ c.attempts + 1 \in Nat
    BY DEF CodeFor, StateTypes, Tables, CodeRows
  <2> HIDE DEF z
  <2> QED BY <2>1, <2>2, <2>3 DEF Turn, RequestRecords
<1>4. ASSUME NEW op, NEW purpose, NEW next \in RequestPlaces, ConsumeCode(r, op, purpose, next) PROVE Turn(r)
  BY <1>1, <1>4 DEF ConsumeCode, Turn, RequestRecords
<1>5. CASE VerifyCodeAccount(r)
  <2> DEFINE a == OwnerOf(req[r].email)
  <2>1. a \in Accounts
    BY <1>5, OwnersNamed DEF VerifyCodeAccount
  <2>2. db.accounts[a].ver \in Nat
    BY <2>1 DEF StateTypes, Tables, Rows
  <2>3. Becomes(r, [req[r] EXCEPT !.at = "mint", !.acct = a, !.ver = db.accounts[a].ver])
    BY <1>5 DEF VerifyCodeAccount
  <2> HIDE DEF a
  <2> QED BY <1>1, <2>1, <2>2, <2>3, PlaceNames DEF Turn, RequestRecords
<1>6. ASSUME NEW op, NEW purpose, WrongCode(r, op, purpose) PROVE Turn(r)
  BY <1>6, Going DEF WrongCode
<1>7. CASE SendFails(r) \/ VerifyCodeInsert(r) \/ VerifyCodeReserved(r) \/ VerifyCodeMint(r) \/ InsertProof(r)
  BY <1>7, PlaceNames, Going
     DEF SendFails, VerifyCodeInsert, VerifyCodeReserved, VerifyCodeMint, InsertProof, Mint
<1> QED BY <1>2, <1>3, <1>4, <1>5, <1>6, <1>7, PlaceNames DEF CodeStep

LEMMA EnrollTurn == ASSUME TypesInv, NEW r \in Requests, EnrollStep(r) PROVE Turn(r)
<1>0. StateTypes
  BY DEF TypesInv
<1> USE <1>0
<1>1. req[r] \in RequestRecords /\ clock \in Nat
  BY TicksAssumption DEF StateTypes
<1>2. \A a \in Accounts : db.accounts[a].ver \in Nat
  BY DEF StateTypes, Tables, Rows
<1>3. ASSUME NEW proof \in db.proofs, NEW p \in Passwords, EnrollLease(r, proof, p) PROVE Turn(r)
  <2> DEFINE z == New("enroll", "signup")
  <2>1. z \in RequestRecords
    BY <1>1, PlaceNames, NewRequest DEF RequestOps
  <2>2. proof.email \in Emails /\ proof.id \in Origins /\ clock + LeaseTicks \in Nat
    BY <1>1, TicksAssumption DEF StateTypes, Tables, ProofRows
  <2>3. Becomes(r, [z EXCEPT !.email = proof.email, !.pw = p, !.id = proof.id, !.n = clock + LeaseTicks])
    BY <1>3 DEF EnrollLease
  <2> HIDE DEF z
  <2> QED BY <2>1, <2>2, <2>3 DEF Turn, RequestRecords
<1>4. CASE EnrollSignUp(r)
  <2>1. Goes(r, "signin") \/ \E u \in Uids : Becomes(r, [req[r] EXCEPT !.at = "linkInsert", !.uid = u])
    BY <1>4 DEF EnrollSignUp
  <2> QED BY <1>1, <2>1, Going, PlaceNames DEF Turn, RequestRecords
<1>5. CASE EnrollSignIn(r)
  BY <1>1, <1>5, PlaceNames DEF EnrollSignIn, Turn, RequestRecords
<1>6. CASE LinkRead(r)
  <2> DEFINE a  == OwnerOf(req[r].email)
             at == IF db.accounts[a].uid = None THEN "linkUpdate" ELSE "sessions"
  <2>1. a \in Accounts /\ at \in RequestPlaces
    BY <1>6, OwnersNamed, PlaceNames DEF LinkRead
  <2>2. Becomes(r, [req[r] EXCEPT !.acct = a, !.ver = db.accounts[a].ver, !.at = at])
    BY <1>6 DEF LinkRead
  <2> HIDE DEF a, at
  <2> QED BY <1>1, <1>2, <2>1, <2>2 DEF Turn, RequestRecords
<1>7. CASE EnrollLinked(r)
  <2>1. req[r].acct \in Accounts
    BY <1>7 DEF TypesInv, RequestNames, WithAccount, EnrollBound, EnrollLinked, Stands
  <2> QED BY <1>1, <1>2, <1>7, <2>1, PlaceNames DEF EnrollLinked, Turn, RequestRecords
<1>8. CASE \/ EnrollRelease(r) \/ LinkInsert(r) \/ LinkUpdate(r) \/ EnrollSessions(r)
           \/ EnrollChallenges(r) \/ EnrollConsume(r) \/ EnrollMint(r)
  BY <1>8, PlaceNames, Going
     DEF EnrollRelease, LinkInsert, LinkUpdate, EnrollSessions, EnrollChallenges, EnrollConsume, EnrollMint,
         Mint
<1> QED BY <1>3, <1>4, <1>5, <1>6, <1>7, <1>8 DEF EnrollStep

LEMMA ChangeTurn == ASSUME TypesInv, NEW r \in Requests, ChangeStep(r) PROVE Turn(r)
<1>0. StateTypes
  BY DEF TypesInv
<1> USE <1>0
<1>1. clock \in Nat
  BY TicksAssumption DEF StateTypes
<1>2. ASSUME NEW s \in db.sessions, NEW e \in Emails, NEW p \in Passwords, ChangeAuthenticate(r, s, e, p)
      PROVE  Turn(r)
  <2> DEFINE z   == New("changeEmail", "reread")
             row == db.accounts[s.acct]
  <2>1. z \in RequestRecords
    BY <1>1, PlaceNames, NewRequest DEF RequestOps
  <2>2. s.acct \in Accounts /\ row \in Rows
    BY DEF StateTypes, Tables, SessionRows
  <2>3. Becomes(r, [z EXCEPT !.email = e, !.pw = p, !.acct = s.acct, !.uid = row.uid, !.ver = row.ver, !.old = row.email])
    BY <1>2 DEF ChangeAuthenticate
  <2> HIDE DEF z, row
  <2> QED BY <2>1, <2>2, <2>3 DEF Turn, RequestRecords, Rows
<1>3. CASE \/ ChangeReread(r) \/ ChangeSignIn(r) \/ ChangeDropExpired(r) \/ ChangeOwner(r) \/ ChangePending(r)
           \/ ChangeDeleteOwn(r) \/ ChangeInsert(r) \/ ChangeSend(r) \/ ChangeRefused(r)
  BY <1>3, PlaceNames, Going
     DEF ChangeReread, ChangeSignIn, ChangeDropExpired, ChangeOwner, ChangePending, ChangeDeleteOwn,
         ChangeInsert,
         ChangeSend, ChangeRefused
<1> QED BY <1>2, <1>3 DEF ChangeStep

LEMMA CompleteTurn == ASSUME TypesInv, NEW r \in Requests, CompleteStep(r) PROVE Turn(r)
<1>0. StateTypes
  BY DEF TypesInv
<1> USE <1>0
<1>1. req[r] \in RequestRecords /\ clock \in Nat
  BY TicksAssumption DEF StateTypes
<1>2. ASSUME NEW link \in firebase.links, CompleteInspect(r, link) PROVE Turn(r)
  <2> DEFINE z == New("completeChange", "find")
  <2>1. z \in RequestRecords
    BY <1>1, PlaceNames, NewRequest DEF RequestOps
  <2>2. link.id \in Origins /\ link.email \in Emails \cup {None} /\ link.new \in Emails \cup {None}
    BY DEF StateTypes, Providers, LinkRows
  <2>3. Becomes(r, [z EXCEPT !.id = link.id, !.old = link.email, !.email = link.new])
    BY <1>2 DEF CompleteInspect
  <2> HIDE DEF z
  <2> QED BY <2>1, <2>2, <2>3 DEF Turn, RequestRecords
<1>3. CASE CompleteFind(r)
  <2>1. PICK change \in db.changes :
          Becomes(r, [req[r] EXCEPT !.at = "owner", !.acct = change.acct, !.uid = change.uid, !.ver = change.ver])
    BY <1>3 DEF CompleteFind, Reserved
  <2>2. change.acct \in Accounts /\ change.uid \in Uids /\ change.ver \in Nat
    BY DEF StateTypes, Tables, ChangeRows
  <2> QED BY <1>1, <2>1, <2>2, PlaceNames DEF Turn, RequestRecords
<1>4. CASE CompleteInvalidate(r)
  <2>1. Becomes(r, [req[r] EXCEPT !.at = "apply", !.ver = req[r].ver + 1, !.n = req[r].now + LeaseTicks])
    BY <1>4 DEF CompleteInvalidate
  <2>2. req[r].now + LeaseTicks \in Nat /\ req[r].ver + 1 \in Nat
    BY <1>1, TicksAssumption DEF RequestRecords
  <2> QED BY <1>1, <2>1, <2>2, PlaceNames DEF Turn, RequestRecords
<1>5. CASE CompleteOwner(r) \/ CompleteApply(r) \/ CompleteRefused(r) \/ CompleteFinalize(r)
  BY <1>5, PlaceNames, Going DEF CompleteOwner, CompleteApply, CompleteRefused, CompleteFinalize
<1> QED BY <1>2, <1>3, <1>4, <1>5 DEF CompleteStep

LEMMA BrowserTurn == ASSUME TypesInv, NEW r \in Requests, BrowserStep(r) PROVE Turn(r)
<1>0. StateTypes
  BY DEF TypesInv
<1> USE <1>0
<1>1. clock \in Nat
  BY TicksAssumption DEF StateTypes
<1>2. ASSUME NEW s \in db.sessions, NEW g \in db.grants, ApproveSession(r, s, g) PROVE Turn(r)
  <2> DEFINE z == New("browserApprove", "approve")
  <2>1. z \in RequestRecords
    BY <1>1, PlaceNames, NewRequest DEF RequestOps
  <2>2. g \in GrantRows /\ s \in SessionRows
    BY DEF StateTypes, Tables
  <2>4. g.id \in Origins /\ s.acct \in Accounts /\ s.ver \in Nat /\ s.by \in Nat
    BY <2>2, RequestsAssumption DEF GrantRows, SessionRows, Origins, Past
  <2>3. Becomes(r, [z EXCEPT !.id = g.id, !.acct = s.acct, !.ver = s.ver, !.n = s.by])
    BY <1>2 DEF ApproveSession
  <2> HIDE DEF z
  <2> QED BY <2>1, <2>3, <2>4 DEF Turn, RequestRecords
<1>3. ASSUME NEW g \in db.grants, PollBrowserAuth(r, g) PROVE Turn(r)
  <2> DEFINE z == New("browserPoll", "account")
  <2>1. z \in RequestRecords
    BY <1>1, PlaceNames, NewRequest DEF RequestOps
  <2>2. g.id \in Origins /\ g.acct \in Accounts \cup {None} /\ g.ver \in Nat
    BY DEF StateTypes, Tables, GrantRows, Origins
  <2>3. Becomes(r, [z EXCEPT !.id = g.id, !.acct = g.acct, !.ver = g.ver])
    BY <1>3 DEF PollBrowserAuth
  <2> HIDE DEF z
  <2> QED BY <2>1, <2>2, <2>3 DEF Turn, RequestRecords
<1>4. CASE StartBrowserAuth(r) \/ ApproveGrant(r) \/ PollAccount(r) \/ PollMint(r)
  BY <1>4, PlaceNames, Going DEF StartBrowserAuth, ApproveGrant, PollAccount, PollMint
<1> QED BY <1>2, <1>3, <1>4 DEF BrowserStep

(* The step of a handler leaves the other requests alone.                  *)
LEMMA HandlerTurn ==
  ASSUME TypesInv, NEW r \in Requests, HandlerStep(r)
  PROVE  /\ Turn(r)
         /\ req' \in [Requests -> RequestRecords]
         /\ \A q \in Requests \ {r} : req'[q] = req[q]
<1>1. Turn(r)
  BY LoginTurn, VerifyTurn, ResetTurn, CodeTurn, EnrollTurn, ChangeTurn, CompleteTurn, BrowserTurn
     DEF HandlerStep
<1> QED BY <1>1 DEF Turn, Becomes, TypesInv, StateTypes

-------------------------------------------------------------------------------
(***************************************************************************)
(* A step keeps the types                                                  *)
(***************************************************************************)

(* The tables and the identities keep their types.                         *)
LEMMA TableUpdates ==
  ASSUME StateTypes
  PROVE  /\ \A f \in [Accounts -> Rows] : [db EXCEPT !.accounts = f] \in Tables
         /\ \A S \in SUBSET SessionRows : [db EXCEPT !.sessions = S] \in Tables
         /\ \A S \in SUBSET ChallengeRows : [db EXCEPT !.challenges = S] \in Tables
         /\ \A S \in SUBSET CodeRows : [db EXCEPT !.codes = S] \in Tables
         /\ \A S \in SUBSET ProofRows : [db EXCEPT !.proofs = S] \in Tables
         /\ \A S \in SUBSET GrantRows : [db EXCEPT !.grants = S] \in Tables
         /\ \A S \in SUBSET ChangeRows : [db EXCEPT !.changes = S] \in Tables
BY DEF StateTypes, Tables

LEMMA Subtables ==
  ASSUME StateTypes
  PROVE  /\ db.accounts \in [Accounts -> Rows]
         /\ db.sessions \subseteq SessionRows /\ db.challenges \subseteq ChallengeRows
         /\ db.codes \subseteq CodeRows /\ db.proofs \subseteq ProofRows
         /\ db.grants \subseteq GrantRows /\ db.changes \subseteq ChangeRows
BY DEF StateTypes, Tables

(* What the revocation of an account's sessions makes of the tables.       *)
LEMMA RevokedTyped ==
  ASSUME StateTypes, NEW a
  PROVE  /\ RevokedTables(a) \in Tables
         /\ RevokedTables(a).accounts = db.accounts
         /\ RevokedTables(a).sessions = {s \in db.sessions : s.acct # a}
         /\ RevokedTables(a).challenges = {c \in db.challenges : c.acct # a}
         /\ RevokedTables(a).grants = {g \in db.grants : g.acct # a}
         /\ RevokedTables(a).codes = db.codes /\ RevokedTables(a).proofs = db.proofs
         /\ RevokedTables(a).changes = db.changes
<1> DEFINE S == {s \in db.sessions : s.acct # a}
           C == {c \in db.challenges : c.acct # a}
           G == {g \in db.grants : g.acct # a}
<1>1. S \subseteq SessionRows /\ C \subseteq ChallengeRows /\ G \subseteq GrantRows
  BY Subtables
<1>2. RevokedTables(a) = [db EXCEPT !.sessions = S, !.challenges = C, !.grants = G]
  BY DEF RevokedTables
<1> HIDE DEF S, C, G
<1>3. /\ [db EXCEPT !.sessions = S, !.challenges = C, !.grants = G] \in Tables
      /\ [db EXCEPT !.sessions = S, !.challenges = C, !.grants = G].accounts = db.accounts
      /\ [db EXCEPT !.sessions = S, !.challenges = C, !.grants = G].sessions = S
      /\ [db EXCEPT !.sessions = S, !.challenges = C, !.grants = G].challenges = C
      /\ [db EXCEPT !.sessions = S, !.challenges = C, !.grants = G].grants = G
      /\ [db EXCEPT !.sessions = S, !.challenges = C, !.grants = G].codes = db.codes
      /\ [db EXCEPT !.sessions = S, !.challenges = C, !.grants = G].proofs = db.proofs
      /\ [db EXCEPT !.sessions = S, !.challenges = C, !.grants = G].changes = db.changes
  BY <1>1 DEF StateTypes, Tables
<1> QED BY <1>2, <1>3 DEF S, C, G

LEMMA InsertTyped ==
  ASSUME StateTypes, NEW e \in Emails, InsertAccount(e)
  PROVE  db' \in Tables
<1>1. CASE db' = db
  BY <1>1 DEF StateTypes
<1>2. CASE \E a \in Accounts : db' = [db EXCEPT !.accounts[a] = [email |-> e, uid |-> None, ver |-> 0]]
  <2>1. PICK a \in Accounts : db' = [db EXCEPT !.accounts = [db.accounts EXCEPT ![a] = [email |-> e, uid |-> None, ver |-> 0]]]
    BY <1>2
  <2>2. [db.accounts EXCEPT ![a] = [email |-> e, uid |-> None, ver |-> 0]] \in [Accounts -> Rows]
    BY Subtables DEF Rows
  <2> QED BY <2>1, <2>2, TableUpdates
<1> QED BY <1>1, <1>2 DEF InsertAccount

LEMMA LinkTyped ==
  ASSUME StateTypes, NEW a \in Accounts, NEW u \in Uids, Link(a, u)
  PROVE  db' \in Tables
<1>1. CASE db' = db
  BY <1>1 DEF StateTypes
<1>2. CASE db' = [db EXCEPT !.accounts[a] = Linked(@, u)]
  <2> DEFINE row == [db.accounts[a] EXCEPT !.uid = u, !.ver = db.accounts[a].ver + 1]
  <2>1. db' = [db EXCEPT !.accounts = [db.accounts EXCEPT ![a] = row]]
    BY <1>2 DEF Linked
  <2>2. db.accounts[a] \in Rows /\ db.accounts[a].ver + 1 \in Nat
    BY Subtables DEF Rows
  <2>3. row \in Rows
    BY <2>2 DEF Rows
  <2> HIDE DEF row
  <2>4. [db.accounts EXCEPT ![a] = row] \in [Accounts -> Rows]
    BY <2>3, Subtables
  <2> QED BY <2>1, <2>4, TableUpdates
<1> QED BY <1>1, <1>2 DEF Link

LEMMA MintTyped ==
  ASSUME StateTypes, NEW r \in Requests, NEW kind \in {"challenge", "legacyCode", "proof"}, NEW at \in Nat,
         req[r].acct \in Accounts, Mint(r, kind, at)
  PROVE  db' \in Tables /\ minted' \subseteq Grants \X Requests
<1>1. req[r] \in RequestRecords
  BY DEF StateTypes
<1>2. <<kind, req[r].id>> \in Grants
  BY <1>1 DEF Grants, RequestRecords, Origins
<1>3. SessionOf(r, req[r].acct, <<kind, req[r].id>>, req[r].ver, at, req[r].shown) \in SessionRows
  BY <1>1, <1>2 DEF SessionOf, SessionRows, RequestRecords, Origins
<1>4. db.sessions \cup {SessionOf(r, req[r].acct, <<kind, req[r].id>>, req[r].ver, at, req[r].shown)} \in SUBSET SessionRows
  BY <1>3, Subtables
<1>5. db' \in Tables
  BY <1>4, TableUpdates DEF Mint
<1> QED BY <1>2, <1>5 DEF Mint, StateTypes

(* Updates of one account.                                                 *)
LEMMA RowUpdates ==
  ASSUME NEW t \in Tables, NEW a \in Accounts
  PROVE  /\ \A e \in Emails :
              LET s == [t EXCEPT !.accounts[a].email = e]
              IN  /\ s \in Tables /\ s.accounts = [t.accounts EXCEPT ![a].email = e]
                  /\ s.sessions = t.sessions /\ s.challenges = t.challenges /\ s.codes = t.codes
                  /\ s.proofs = t.proofs /\ s.grants = t.grants /\ s.changes = t.changes
         /\ \A v \in Nat :
              LET s == [t EXCEPT !.accounts[a].ver = v]
              IN  /\ s \in Tables /\ s.accounts = [t.accounts EXCEPT ![a].ver = v]
                  /\ s.sessions = t.sessions /\ s.challenges = t.challenges /\ s.codes = t.codes
                  /\ s.proofs = t.proofs /\ s.grants = t.grants /\ s.changes = t.changes
<1>1. ASSUME NEW f \in [Accounts -> Rows]
      PROVE  LET s == [t EXCEPT !.accounts = f]
             IN  /\ s \in Tables /\ s.accounts = f
                 /\ s.sessions = t.sessions /\ s.challenges = t.challenges /\ s.codes = t.codes
                 /\ s.proofs = t.proofs /\ s.grants = t.grants /\ s.changes = t.changes
  BY DEF Tables
<1>2. t.accounts \in [Accounts -> Rows] /\ t.accounts[a] \in Rows
  BY DEF Tables
<1>3. ASSUME NEW e \in Emails PROVE [t.accounts EXCEPT ![a].email = e] \in [Accounts -> Rows]
  <2>1. [t.accounts[a] EXCEPT !.email = e] \in Rows
    BY <1>2 DEF Rows
  <2> QED BY <1>2, <2>1
<1>4. ASSUME NEW v \in Nat PROVE [t.accounts EXCEPT ![a].ver = v] \in [Accounts -> Rows]
  <2>1. [t.accounts[a] EXCEPT !.ver = v] \in Rows
    BY <1>2 DEF Rows
  <2> QED BY <1>2, <2>1
<1> QED BY <1>1, <1>3, <1>4

OthersTyped ==
  /\ db' \in Tables /\ firebase' \in Providers
  /\ clock' \in 0 .. MaxClock /\ mix' \in Mixes
  /\ minted' \subseteq Grants \X Requests
  /\ revoked' \in [Accounts -> Nat]

LEMMA Unmoved ==
  ASSUME StateTypes
  PROVE  /\ UNCHANGED <<firebase, clock, mix, minted, revoked>> /\ db' \in Tables => OthersTyped
         /\ UNCHANGED <<db, clock, mix, minted, revoked>> /\ firebase' \in Providers => OthersTyped
         /\ OnlyRequests => OthersTyped
BY DEF StateTypes, OthersTyped, OnlyRequests

LEMMA LoginTables == ASSUME TypesInv, NEW r \in Requests, LoginStep(r) PROVE OthersTyped
<1>0. StateTypes
  BY DEF TypesInv
<1> USE <1>0
<1>1. req[r] \in RequestRecords /\ RequestNames(req[r])
  BY DEF TypesInv, StateTypes
<1>2. CASE LoginInsert(r)
  <2>1. req[r].email \in Emails
    BY <1>1, <1>2 DEF LoginInsert, Stands, RequestNames, WithEmail, Addressed
  <2> QED BY <1>2, <2>1, InsertTyped, Unmoved DEF LoginInsert, OnlyTables
<1>3. CASE LoginClear(r)
  BY <1>3, Subtables, TableUpdates, Unmoved DEF LoginClear, OnlyTables
<1>4. CASE LoginChallenge(r)
  <2> DEFINE a == req[r].acct
             c == [id |-> r, acct |-> a, uid |-> req[r].uid, ver |-> db.accounts[a].ver, attempts |-> 0,
                   exp |-> req[r].now + CodeTicks, email |-> req[r].email, sent |-> FALSE, shown |-> req[r].shown]
  <2>1. a \in Accounts /\ req[r].uid \in Uids /\ req[r].email \in Emails /\ req[r].shown \in Nat
    BY <1>1, <1>4
       DEF LoginChallenge, Stands, RequestNames, WithEmail, WithAccount, WithIdentity, Addressed, LoginBound,
           LoginProven, Known
  <2>2. db.accounts[a].ver \in Nat /\ req[r].now + CodeTicks \in Nat /\ 0 \in 0 .. MaxAttempts
    BY <1>1, <2>1, Subtables, TicksAssumption DEF Rows, RequestRecords
  <2>3. c \in ChallengeRows
    BY <2>1, <2>2 DEF ChallengeRows
  <2>4. db' = [db EXCEPT !.challenges = @ \cup {c}]
    BY <1>4 DEF LoginChallenge
  <2> HIDE DEF c
  <2> QED BY <1>4, <2>3, <2>4, Subtables, TableUpdates, Unmoved DEF LoginChallenge, OnlyTables
<1>5. CASE LoginSend(r)
  <2>1. PICK mailed \in BOOLEAN :
          db' = [db EXCEPT !.challenges = {c \in db.challenges : c.id # r}
                   \cup IF mailed THEN {[c EXCEPT !.sent = TRUE] : c \in {c \in db.challenges : c.id = r}} ELSE {}]
    BY <1>5 DEF LoginSend
  <2>2. \A c \in db.challenges : [c EXCEPT !.sent = TRUE] \in ChallengeRows
    BY Subtables DEF ChallengeRows
  <2> DEFINE S == {c \in db.challenges : c.id # r}
                   \cup IF mailed THEN {[c EXCEPT !.sent = TRUE] : c \in {c \in db.challenges : c.id = r}} ELSE {}
  <2>3. S \in SUBSET ChallengeRows
    BY <2>2, Subtables
  <2>4. db' = [db EXCEPT !.challenges = S]
    BY <2>1
  <2> HIDE DEF S
  <2> QED BY <1>5, <2>3, <2>4, TableUpdates, Unmoved DEF LoginSend, OnlyTables
<1>6. CASE \/ \E e \in Emails, p \in Passwords : LoginSnapshot(r, e, p)
           \/ LoginAuthenticate(r) \/ LoginResolve(r) \/ LoginOwner(r) \/ LoginReserved(r)
           \/ LoginReselect(r) \/ LoginConfirm(r) \/ LoginRecheck(r)
  BY <1>6, Unmoved
     DEF LoginSnapshot, LoginAuthenticate, LoginResolve, LoginOwner, LoginReserved, LoginReselect,
         LoginConfirm, LoginRecheck
<1> QED BY <1>2, <1>3, <1>4, <1>5, <1>6 DEF LoginStep

LEMMA VerifyTables == ASSUME TypesInv, NEW r \in Requests, VerifyStep(r) PROVE OthersTyped
<1>0. StateTypes
  BY DEF TypesInv
<1> USE <1>0
<1>1. req[r] \in RequestRecords /\ RequestNames(req[r])
  BY DEF TypesInv, StateTypes
<1>2. req[r].op = "verify" /\ req[r].at \in Verified => req[r].acct \in Accounts /\ req[r].uid \in Uids /\ req[r].email \in Emails
  BY <1>1 DEF RequestNames, WithEmail, WithAccount, WithIdentity, Known
<1>3. ASSUME NEW c \in db.challenges, NEW right \in BOOLEAN, VerifyAttempt(r, c, right) PROVE OthersTyped
  <2>1. c \in ChallengeRows /\ c.attempts + 1 \in 0 .. MaxAttempts
    BY <1>3, Subtables, TicksAssumption DEF VerifyAttempt, MayTry, ChallengeRows
  <2>2. [c EXCEPT !.attempts = c.attempts + 1] \in ChallengeRows
    BY <2>1 DEF ChallengeRows
  <2>3. db' = [db EXCEPT !.challenges = (@ \ {c}) \cup {[c EXCEPT !.attempts = c.attempts + 1]}]
    BY <1>3 DEF VerifyAttempt
  <2> QED BY <1>3, <2>2, <2>3, Subtables, TableUpdates, Unmoved DEF VerifyAttempt, OnlyTables
<1>4. CASE VerifyWrong(r)
  <2> DEFINE S == IF req[r].n < MaxAttempts THEN db.challenges ELSE {c \in db.challenges : c.id # req[r].id \/ c.attempts < MaxAttempts}
  <2>1. db' = [db EXCEPT !.challenges = S]
    BY <1>4 DEF VerifyWrong
  <2>2. S \in SUBSET ChallengeRows
    BY Subtables
  <2> HIDE DEF S
  <2> QED BY <1>4, <2>1, <2>2, TableUpdates, Unmoved DEF VerifyWrong, OnlyTables
<1>5. CASE VerifyConsume(r)
  <2>1. \E c \in db.challenges : db' = [db EXCEPT !.challenges = @ \ {c}]
    BY <1>5 DEF VerifyConsume, Consumed
  <2> QED BY <1>5, <2>1, Subtables, TableUpdates, Unmoved DEF VerifyConsume, OnlyTables
<1>6. CASE VerifyLink(r)
  <2>1. Link(req[r].acct, req[r].uid) \/ db' = db
    BY <1>6 DEF VerifyLink
  <2>2. req[r].acct \in Accounts /\ req[r].uid \in Uids
    BY <1>2, <1>6 DEF VerifyLink, Stands, Verified
  <2>3. db' \in Tables
    BY <2>1, <2>2, LinkTyped DEF StateTypes
  <2> QED BY <1>6, <2>3, Unmoved DEF VerifyLink, OnlyTables
<1>7. CASE VerifyRevoke(r)
  BY <1>7, RevokedTyped, Unmoved DEF VerifyRevoke, OnlyTables
<1>8. CASE VerifyReconcile(r)
  <2> DEFINE a == req[r].acct
             e == req[r].email
             s == RevokedTables(a)
             C == {change \in s.changes : change.acct # a}
             t == [s EXCEPT !.accounts[a].email = e]
             u == [t EXCEPT !.accounts[a].ver = s.accounts[a].ver + 1]
  <2>1. a \in Accounts /\ e \in Emails
    BY <1>2, <1>8 DEF VerifyReconcile, Stands, Verified
  <2>2. s \in Tables /\ s.changes = db.changes
    BY RevokedTyped
  <2>3. db' = [u EXCEPT !.changes = C]
    BY <1>8 DEF VerifyReconcile
  <2> HIDE DEF s
  <2>4. t \in Tables
    BY <2>1, <2>2, RowUpdates
  <2>5. s.accounts[a].ver + 1 \in Nat
    BY <2>1, <2>2 DEF Tables, Rows
  <2> HIDE DEF t
  <2>6. u \in Tables
    BY <2>1, <2>4, <2>5, RowUpdates
  <2>7. C \in SUBSET ChangeRows
    BY <2>2, Subtables
  <2> HIDE DEF u, C
  <2>8. db' \in Tables
    BY <2>3, <2>6, <2>7 DEF Tables
  <2> QED BY <1>8, <2>8, Unmoved DEF VerifyReconcile, OnlyTables
<1>9. CASE VerifyMint(r)
  <2>1. req[r].acct \in Accounts /\ req[r].now \in Nat
    BY <1>1, <1>2, <1>9 DEF VerifyMint, Stands, Verified, RequestRecords
  <2> QED BY <1>9, <2>1, MintTyped DEF VerifyMint, Mint, OthersTyped, StateTypes
<1>10. CASE VerifyCompare(r) \/ VerifyAccount(r) \/ VerifyLinked(r) \/ VerifyChange(r) \/ VerifyReread(r)
  BY <1>10, Unmoved DEF VerifyCompare, VerifyAccount, VerifyLinked, VerifyChange, VerifyReread
<1> QED BY <1>3, <1>4, <1>5, <1>6, <1>7, <1>8, <1>9, <1>10 DEF VerifyStep

LEMMA LinkUpdates ==
  ASSUME StateTypes
  PROVE  /\ firebase.links \subseteq LinkRows
         /\ firebase.ids \in [Uids -> Identities \cup {NoIdentity}]
         /\ firebase.held \in [Uids -> SUBSET Emails]
         /\ firebase.crossed \in [Uids -> SUBSET Emails]
         /\ \A L \in SUBSET LinkRows : [firebase EXCEPT !.links = L] \in Providers
BY DEF StateTypes, Providers

LEMMA AppliedTyped ==
  ASSUME StateTypes, NEW link \in firebase.links, link.new \in Emails, Known(link.uid)
  PROVE  /\ Applied(link) \in Providers
         /\ Applied(link).ids = [firebase.ids EXCEPT ![link.uid].email = link.new]
         /\ Applied(link).links = firebase.links \ {link}
         /\ Applied(link).held = [firebase.held EXCEPT ![link.uid] = @ \cup {link.new}]
         /\ Applied(link).crossed = firebase.crossed
<1> DEFINE u == link.uid
           I == [firebase.ids EXCEPT ![u].email = link.new]
           L == firebase.links \ {link}
           H == [firebase.held EXCEPT ![u] = @ \cup {link.new}]
<1>1. I \in [Uids -> Identities \cup {NoIdentity}]
  <2>1. [firebase.ids[u] EXCEPT !.email = link.new] \in Identities
    BY DEF Known, Identities
  <2> QED BY <2>1, LinkUpdates
<1>2. L \subseteq LinkRows /\ H \in [Uids -> SUBSET Emails]
  BY LinkUpdates
<1>3. Applied(link) = [firebase EXCEPT !.ids = I, !.links = L, !.held = H]
  BY DEF Applied
<1> HIDE DEF I, L, H
<1>4. [firebase EXCEPT !.ids = I, !.links = L, !.held = H] \in Providers
  BY <1>1, <1>2 DEF StateTypes, Providers
<1>5. /\ [firebase EXCEPT !.ids = I, !.links = L, !.held = H].ids = I
      /\ [firebase EXCEPT !.ids = I, !.links = L, !.held = H].links = L
      /\ [firebase EXCEPT !.ids = I, !.links = L, !.held = H].held = H
      /\ [firebase EXCEPT !.ids = I, !.links = L, !.held = H].crossed = firebase.crossed
  BY DEF StateTypes, Providers
<1> QED BY <1>3, <1>4, <1>5 DEF I, L, H

(* What a callback adds to that.                                           *)
LEMMA AppliedForTyped ==
  ASSUME StateTypes, NEW link \in firebase.links, link.new \in Emails, Known(link.uid), NEW r \in Requests, NEW named
  PROVE  LET next == AppliedFor(r, link, named)
         IN  /\ next \in Providers
             /\ next.ids = Applied(link).ids /\ next.links = Applied(link).links /\ next.held = Applied(link).held
             /\ \A u \in Uids : firebase.crossed[u] \subseteq next.crossed[u]
             /\ req[r].uid \in Uids /\ Crossed(r, link, named) => link.new \in next.crossed[req[r].uid]
<1> DEFINE A == Applied(link)
           v == req[r].uid
           E == {e \in {link.new} : Crossed(r, link, named)}
           C == [A.crossed EXCEPT ![v] = @ \cup E]
<1>1. A \in Providers /\ A.crossed = firebase.crossed
  BY AppliedTyped
<1>2. E \subseteq Emails /\ (Crossed(r, link, named) => link.new \in E)
  OBVIOUS
<1>3. AppliedFor(r, link, named) = [A EXCEPT !.crossed = C]
  BY DEF AppliedFor
<1> HIDE DEF A, E
<1>4. /\ C \in [Uids -> SUBSET Emails]
      /\ \A u \in Uids : firebase.crossed[u] \subseteq C[u]
      /\ v \in Uids => E \subseteq C[v]
  BY <1>1, <1>2 DEF Providers
<1> HIDE DEF C
<1>5. LET next == [A EXCEPT !.crossed = C]
      IN  /\ next \in Providers /\ next.crossed = C
          /\ next.ids = A.ids /\ next.links = A.links /\ next.held = A.held
  BY <1>1, <1>4 DEF Providers
<1> QED BY <1>2, <1>3, <1>4, <1>5 DEF A

LEMMA ResetTables == ASSUME TypesInv, NEW r \in Requests, ResetStep(r) PROVE OthersTyped
<1>0. StateTypes
  BY DEF TypesInv
<1> USE <1>0
<1>1. req[r] \in RequestRecords /\ RequestNames(req[r])
  BY DEF TypesInv, StateTypes
<1>2. ASSUME NEW u \in Uids, RequestReset(r, u) PROVE OthersTyped
  <2> DEFINE link == [id |-> r, kind |-> "reset", uid |-> u, email |-> firebase.ids[u].email, new |-> None]
  <2>1. firebase.ids[u].email \in Emails \cup {None}
    BY LinkUpdates DEF Identities, NoIdentity
  <2>2. link \in LinkRows
    BY <2>1 DEF LinkRows, Origins
  <2>3. firebase' = [firebase EXCEPT !.links = @ \cup {link}]
    BY <1>2 DEF RequestReset
  <2> HIDE DEF link
  <2> QED BY <1>2, <2>2, <2>3, LinkUpdates, Unmoved DEF RequestReset
<1>3. CASE ResetBump(r)
  <2> DEFINE a == req[r].acct
  <2>1. a \in Accounts
    BY <1>1, <1>3 DEF ResetBump, Stands, RequestNames, WithAccount, ResetBound
  <2>2. db.accounts[a].ver + 1 \in Nat /\ revoked[a] + 1 \in Nat
    BY <2>1, Subtables DEF StateTypes, Rows
  <2>3. db' = [db EXCEPT !.accounts[a].ver = db.accounts[a].ver + 1]
    BY <1>3 DEF ResetBump, RaisedVersion
  <2>4. db' \in Tables
    BY <2>1, <2>2, <2>3, RowUpdates DEF StateTypes
  <2>5. revoked' \in [Accounts -> Nat]
    BY <1>3, <2>2 DEF ResetBump, StateTypes
  <2> QED BY <1>3, <2>4, <2>5 DEF ResetBump, OthersTyped, StateTypes
<1>4. CASE ResetSessions(r)
  BY <1>4, Subtables, TableUpdates, Unmoved DEF ResetSessions, OnlyTables
<1>5. CASE ResetChallenges(r)
  BY <1>5, Subtables, TableUpdates, Unmoved DEF ResetChallenges, OnlyTables
<1>6. CASE ResetApply(r)
  <2>1. PICK link \in firebase.links : firebase' = [firebase EXCEPT !.ids[link.uid].pw = req[r].pw, !.links = @ \ {link}]
    BY <1>6 DEF ResetApply
  <2> DEFINE u == link.uid
             I == [firebase.ids EXCEPT ![u].pw = req[r].pw]
             L == firebase.links \ {link}
  <2>2. Known(u) /\ req[r].pw \in Passwords
    BY <1>1, <1>6 DEF TypesInv, LinksOnce, ResetApply, Stands, RequestNames, WithPassword
  <2>3. I \in [Uids -> Identities \cup {NoIdentity}]
    <3>1. [firebase.ids[u] EXCEPT !.pw = req[r].pw] \in Identities
      BY <2>2 DEF Known, Identities
    <3> QED BY <3>1, <2>2, LinkUpdates
  <2>4. L \subseteq LinkRows
    BY LinkUpdates
  <2>5. firebase' = [firebase EXCEPT !.ids = I, !.links = L]
    BY <2>1
  <2> HIDE DEF I, L
  <2>6. firebase' \in Providers
    BY <2>3, <2>4, <2>5 DEF StateTypes, Providers
  <2> QED BY <1>6, <2>6, Unmoved DEF ResetApply
<1>7. CASE (\E link \in firebase.links, p \in Passwords : ResetCheck(r, link, p)) \/ ResetFind(r)
  BY <1>7, Unmoved DEF ResetCheck, ResetFind
<1> QED BY <1>2, <1>3, <1>4, <1>5, <1>6, <1>7 DEF ResetStep

LEMMA CodeTables == ASSUME TypesInv, NEW r \in Requests, CodeStep(r) PROVE OthersTyped
<1>0. StateTypes
  BY DEF TypesInv
<1> USE <1>0
<1>1. req[r] \in RequestRecords /\ RequestNames(req[r]) /\ clock \in Nat
  BY TicksAssumption DEF TypesInv, StateTypes
<1>2. ASSUME NEW e \in Emails, NEW purpose \in {"legacyCode", "enrollmentCode"}, UpsertCode(r, purpose, e)
      PROVE  OthersTyped
  <2> DEFINE c == [purpose |-> purpose, email |-> e, id |-> r, attempts |-> 0, exp |-> clock + CodeTicks]
  <2>1. clock + CodeTicks \in Nat /\ 0 \in 0 .. MaxAttempts
    BY <1>1, TicksAssumption
  <2>2. c \in CodeRows
    BY <2>1 DEF CodeRows, Origins
  <2>3. db' = [db EXCEPT !.codes = (@ \ CodeFor(purpose, e)) \cup {c}]
    BY <1>2 DEF UpsertCode
  <2> HIDE DEF c
  <2> QED BY <1>2, <2>2, <2>3, Subtables, TableUpdates, Unmoved DEF UpsertCode, OnlyTables
<1>3. ASSUME NEW e \in Emails, NEW right \in BOOLEAN, NEW purpose, NEW op, AttemptCode(r, op, purpose, e, right)
      PROVE  OthersTyped
  <2>1. PICK c \in CodeFor(purpose, e) :
          MayTry(c) /\ db' = [db EXCEPT !.codes = (@ \ {c}) \cup {[c EXCEPT !.attempts = c.attempts + 1]}]
    BY <1>3 DEF AttemptCode
  <2>2. c \in CodeRows /\ c.attempts + 1 \in 0 .. MaxAttempts
    BY <2>1, Subtables, TicksAssumption DEF CodeFor, MayTry, CodeRows
  <2>3. [c EXCEPT !.attempts = c.attempts + 1] \in CodeRows
    BY <2>2 DEF CodeRows
  <2> QED BY <1>3, <2>1, <2>3, Subtables, TableUpdates, Unmoved DEF AttemptCode, OnlyTables
<1>4. ASSUME NEW op, NEW purpose, WrongCode(r, op, purpose) PROVE OthersTyped
  <2> DEFINE S == IF req[r].n < MaxAttempts THEN db.codes
                  ELSE {c \in db.codes : c \notin CodeFor(purpose, req[r].email) \/ c.attempts < MaxAttempts}
  <2>1. db' = [db EXCEPT !.codes = S]
    BY <1>4 DEF WrongCode
  <2>2. S \in SUBSET CodeRows
    BY Subtables
  <2> HIDE DEF S
  <2> QED BY <1>4, <2>1, <2>2, TableUpdates, Unmoved DEF WrongCode, OnlyTables
<1>5. ASSUME NEW op, NEW purpose, NEW next, ConsumeCode(r, op, purpose, next) PROVE OthersTyped
  BY <1>5, Subtables, TableUpdates, Unmoved DEF ConsumeCode, OnlyTables
<1>6. CASE SendFails(r)
  BY <1>6, Subtables, TableUpdates, Unmoved DEF SendFails, OnlyTables
<1>7. CASE VerifyCodeInsert(r)
  <2>1. req[r].email \in Emails
    BY <1>1, <1>7 DEF VerifyCodeInsert, Stands, RequestNames, WithEmail, Addressed
  <2> QED BY <1>7, <2>1, InsertTyped, Unmoved DEF VerifyCodeInsert, OnlyTables
<1>8. CASE VerifyCodeMint(r)
  <2>1. req[r].acct \in Accounts /\ req[r].now \in Nat
    BY <1>1, <1>8 DEF VerifyCodeMint, Stands, RequestNames, WithAccount, RequestRecords
  <2> QED BY <1>8, <2>1, MintTyped DEF VerifyCodeMint, Mint, OthersTyped, StateTypes
<1>9. CASE InsertProof(r)
  <2> DEFINE p == [id |-> r, email |-> req[r].email, exp |-> req[r].now + CodeTicks, until |-> 0]
  <2>1. req[r].email \in Emails /\ req[r].now + CodeTicks \in Nat
    BY <1>1, <1>9, TicksAssumption DEF InsertProof, Stands, RequestNames, WithEmail, Addressed, RequestRecords
  <2>2. p \in ProofRows
    BY <2>1 DEF ProofRows, Origins
  <2>3. db' = [db EXCEPT !.proofs = @ \cup {p}]
    BY <1>9 DEF InsertProof
  <2> HIDE DEF p
  <2> QED BY <1>9, <2>2, <2>3, Subtables, TableUpdates, Unmoved DEF InsertProof, OnlyTables
<1>10. CASE VerifyCodeReserved(r) \/ VerifyCodeAccount(r)
  BY <1>10, Unmoved DEF VerifyCodeReserved, VerifyCodeAccount
<1> QED BY <1>2, <1>3, <1>4, <1>5, <1>6, <1>7, <1>8, <1>9, <1>10 DEF CodeStep

LEMMA EnrollTables == ASSUME TypesInv, NEW r \in Requests, EnrollStep(r) PROVE OthersTyped
<1>0. StateTypes
  BY DEF TypesInv
<1> USE <1>0
<1>1. req[r] \in RequestRecords /\ RequestNames(req[r]) /\ clock \in Nat
  BY TicksAssumption DEF TypesInv, StateTypes
<1>2. req[r].op = "enroll" => req[r].email \in Emails /\ req[r].pw \in Passwords
  BY <1>1 DEF RequestNames, WithEmail, WithPassword, Addressed
<1>3. ASSUME NEW proof \in db.proofs, NEW p \in Passwords, EnrollLease(r, proof, p) PROVE OthersTyped
  <2>1. clock + LeaseTicks \in Nat
    BY <1>1, TicksAssumption
  <2>2. [proof EXCEPT !.until = clock + LeaseTicks] \in ProofRows
    BY <2>1, Subtables DEF ProofRows
  <2> QED BY <1>3, <2>2, Subtables, TableUpdates, Unmoved DEF EnrollLease, OnlyTables
<1>4. CASE EnrollRelease(r)
  <2> DEFINE S == (db.proofs \ LeasedBy(r)) \cup {[proof EXCEPT !.until = 0] : proof \in LeasedBy(r)}
  <2>1. db' = [db EXCEPT !.proofs = S]
    BY <1>4 DEF EnrollRelease
  <2>2. \A proof \in LeasedBy(r) : [proof EXCEPT !.until = 0] \in ProofRows
    BY Subtables DEF LeasedBy, ProofRows
  <2>3. S \in SUBSET ProofRows
    BY <2>2, Subtables
  <2> HIDE DEF S
  <2> QED BY <1>4, <2>1, <2>3, TableUpdates, Unmoved DEF EnrollRelease, OnlyTables
<1>5. CASE EnrollSignUp(r)
  <2>1. CASE UNCHANGED firebase
    BY <1>5, <2>1, Unmoved DEF EnrollSignUp, StateTypes
  <2>2. CASE ~UNCHANGED firebase
    <3>1. PICK u \in Uids : firebase' = [firebase EXCEPT !.ids[u] = [email |-> req[r].email, pw |-> req[r].pw],
                                                         !.held[u] = @ \cup {req[r].email}]
      BY <1>5, <2>2 DEF EnrollSignUp
    <3> DEFINE I == [firebase.ids EXCEPT ![u] = [email |-> req[r].email, pw |-> req[r].pw]]
               H == [firebase.held EXCEPT ![u] = @ \cup {req[r].email}]
    <3>2. req[r].email \in Emails /\ req[r].pw \in Passwords
      BY <1>2, <1>5 DEF EnrollSignUp, Stands
    <3>3. I \in [Uids -> Identities \cup {NoIdentity}] /\ H \in [Uids -> SUBSET Emails]
      BY <3>2, LinkUpdates DEF Identities
    <3>4. firebase' = [firebase EXCEPT !.ids = I, !.held = H]
      BY <3>1
    <3> HIDE DEF I, H
    <3>5. firebase' \in Providers
      BY <3>3, <3>4 DEF StateTypes, Providers
    <3> QED BY <1>5, <3>5, Unmoved DEF EnrollSignUp
  <2> QED BY <2>1, <2>2
<1>6. CASE LinkInsert(r)
  <2>1. CASE db' = db
    BY <1>6, <2>1, Unmoved DEF LinkInsert, OnlyTables, StateTypes
  <2>2. CASE db' # db
    <3> DEFINE row == [email |-> req[r].email, uid |-> req[r].uid, ver |-> 1]
    <3>1. PICK a \in Accounts : db' = [db EXCEPT !.accounts = [db.accounts EXCEPT ![a] = row]]
      BY <1>6, <2>2 DEF LinkInsert
    <3>2. row \in Rows
      BY <1>1, <1>6 DEF LinkInsert, Stands, Rows, RequestRecords
    <3> HIDE DEF row
    <3>3. [db.accounts EXCEPT ![a] = row] \in [Accounts -> Rows]
      BY <3>2, Subtables
    <3> QED BY <1>6, <3>1, <3>3, TableUpdates, Unmoved DEF LinkInsert, OnlyTables
  <2> QED BY <2>1, <2>2
<1>7. CASE LinkUpdate(r)
  <2>1. req[r].acct \in Accounts /\ req[r].uid \in Uids
    BY <1>1, <1>7
       DEF LinkUpdate, Stands, RequestNames, WithAccount, WithIdentity, EnrollBound, EnrollProven, Known
  <2> QED BY <1>7, <2>1, LinkTyped, Unmoved DEF LinkUpdate, OnlyTables
<1>8. CASE EnrollSessions(r)
  BY <1>8, Subtables, TableUpdates, Unmoved DEF EnrollSessions, OnlyTables
<1>9. CASE EnrollChallenges(r)
  BY <1>9, Subtables, TableUpdates, Unmoved DEF EnrollChallenges, OnlyTables
<1>10. CASE EnrollConsume(r)
  BY <1>10, Subtables, TableUpdates, Unmoved DEF EnrollConsume, OnlyTables
<1>11. CASE EnrollMint(r)
  <2>1. req[r].acct \in Accounts
    BY <1>1, <1>11 DEF EnrollMint, Stands, RequestNames, WithAccount, EnrollBound
  <2> QED BY <1>1, <1>11, <2>1, MintTyped DEF EnrollMint, Mint, OthersTyped, StateTypes
<1>12. CASE EnrollSignIn(r) \/ LinkRead(r) \/ EnrollLinked(r)
  BY <1>12, Unmoved DEF EnrollSignIn, LinkRead, EnrollLinked
<1> QED BY <1>3, <1>4, <1>5, <1>6, <1>7, <1>8, <1>9, <1>10, <1>11, <1>12 DEF EnrollStep

LEMMA ChangeTables == ASSUME TypesInv, NEW r \in Requests, ChangeStep(r) PROVE OthersTyped
<1>0. StateTypes
  BY DEF TypesInv
<1> USE <1>0
<1>1. req[r] \in RequestRecords /\ RequestNames(req[r])
  BY DEF TypesInv, StateTypes
<1>2. req[r].op = "changeEmail" =>
        req[r].email \in Emails /\ req[r].acct \in Accounts /\ req[r].uid \in Uids /\ req[r].old \in Emails \cup {None}
  BY <1>1 DEF RequestNames, WithEmail, WithAccount, WithIdentity, Addressed, Known
<1>3. CASE ChangeDropExpired(r)
  BY <1>3, Subtables, TableUpdates, Unmoved DEF ChangeDropExpired, OnlyTables
<1>4. CASE ChangeDeleteOwn(r)
  BY <1>4, Subtables, TableUpdates, Unmoved DEF ChangeDeleteOwn, OnlyTables
<1>5. CASE ChangeRefused(r)
  BY <1>5, Subtables, TableUpdates, Unmoved DEF ChangeRefused, OnlyTables
<1>6. CASE ChangeInsert(r)
  <2> DEFINE change == [acct |-> req[r].acct, old |-> req[r].old, new |-> req[r].email, uid |-> req[r].uid,
                        ver |-> req[r].ver, exp |-> req[r].now + ChangeTicks, status |-> "pending", until |-> 0]
  <2>1. req[r].now + ChangeTicks \in Nat
    BY <1>1, TicksAssumption DEF RequestRecords
  <2>2. change \in ChangeRows
    BY <1>1, <1>2, <1>6, <2>1 DEF ChangeInsert, Stands, ChangeRows, RequestRecords
  <2>3. db' = [db EXCEPT !.changes = @ \cup {change}]
    BY <1>6 DEF ChangeInsert
  <2> HIDE DEF change
  <2> QED BY <1>6, <2>2, <2>3, Subtables, TableUpdates, Unmoved DEF ChangeInsert, OnlyTables
<1>7. CASE ChangeSend(r)
  <2> DEFINE link == [id |-> r, kind |-> "change", uid |-> req[r].uid, email |-> req[r].old, new |-> req[r].email]
  <2>1. link \in LinkRows
    BY <1>2, <1>7 DEF ChangeSend, Stands, LinkRows, Origins
  <2>2. firebase' = [firebase EXCEPT !.links = @ \cup {link}]
    BY <1>7 DEF ChangeSend
  <2> HIDE DEF link
  <2> QED BY <1>7, <2>1, <2>2, LinkUpdates, Unmoved DEF ChangeSend
<1>8. CASE \/ \E s \in db.sessions, e \in Emails, p \in Passwords : ChangeAuthenticate(r, s, e, p)
           \/ ChangeReread(r) \/ ChangeSignIn(r) \/ ChangeOwner(r) \/ ChangePending(r)
  BY <1>8, Unmoved DEF ChangeAuthenticate, ChangeReread, ChangeSignIn, ChangeOwner, ChangePending
<1> QED BY <1>3, <1>4, <1>5, <1>6, <1>7, <1>8 DEF ChangeStep

LEMMA CompleteTables == ASSUME TypesInv, NEW r \in Requests, CompleteStep(r) PROVE OthersTyped
<1>0. StateTypes
  BY DEF TypesInv
<1> USE <1>0
<1>1. req[r] \in RequestRecords /\ RequestNames(req[r])
  BY DEF TypesInv, StateTypes
<1>2. req[r].op = "completeChange" /\ req[r].at \in Completing =>
        req[r].email \in Emails /\ req[r].acct \in Accounts /\ req[r].uid \in Uids
  BY <1>1 DEF RequestNames, WithEmail, WithAccount, WithIdentity, Addressed, Known
<1>3. CASE CompleteInvalidate(r)
  <2> DEFINE a == req[r].acct
             s == RevokedTables(a)
             u == [s EXCEPT !.accounts[a].ver = s.accounts[a].ver + 1]
  <2>1. PICK change \in TheChange(r) :
          db' = [u EXCEPT !.changes = (s.changes \ {change}) \cup
                   {[change EXCEPT !.ver = req[r].ver + 1, !.status = "applying", !.until = req[r].now + LeaseTicks]}]
    BY <1>3 DEF CompleteInvalidate
  <2> DEFINE C == (s.changes \ {change}) \cup
                   {[change EXCEPT !.ver = req[r].ver + 1, !.status = "applying", !.until = req[r].now + LeaseTicks]}
  <2>2. a \in Accounts
    BY <1>2, <1>3 DEF CompleteInvalidate, Stands, Completing
  <2>3. s \in Tables /\ s.changes = db.changes
    BY RevokedTyped
  <2>4. C \in SUBSET ChangeRows
    <3>1. change \in ChangeRows
      BY Subtables DEF TheChange, ChangeOf
    <3>2. req[r].ver + 1 \in Nat /\ req[r].now + LeaseTicks \in Nat
      BY <1>1, TicksAssumption DEF RequestRecords
    <3>3. [change EXCEPT !.ver = req[r].ver + 1, !.status = "applying", !.until = req[r].now + LeaseTicks] \in ChangeRows
      BY <3>1, <3>2 DEF ChangeRows
    <3> QED BY <2>3, <3>3, Subtables
  <2> HIDE DEF s
  <2>5. s.accounts[a].ver + 1 \in Nat
    BY <2>2, <2>3 DEF Tables, Rows
  <2>6. u \in Tables
    BY <2>2, <2>3, <2>5, RowUpdates
  <2>7. db' = [u EXCEPT !.changes = C]
    BY <2>1
  <2> HIDE DEF u, C
  <2>8. db' \in Tables
    BY <2>4, <2>6, <2>7 DEF Tables
  <2>9. revoked' \in [Accounts -> Nat]
    BY <1>3, <2>2 DEF CompleteInvalidate, StateTypes
  <2> QED BY <1>3, <2>8, <2>9 DEF CompleteInvalidate, OthersTyped, StateTypes
<1>4. CASE CompleteApply(r)
  <2>1. PICK link \in firebase.links, named \in BOOLEAN : link.id = req[r].id /\ firebase' = AppliedFor(r, link, named)
    BY <1>4 DEF CompleteApply
  <2>2. link.new \in Emails /\ Known(link.uid)
    BY <1>2, <1>4, <2>1 DEF TypesInv, LinksOnce, RequestLinks, CompleteApply, Stands, Completing
  <2> QED BY <1>4, <2>1, <2>2, AppliedForTyped, Unmoved DEF CompleteApply
<1>5. CASE CompleteRefused(r)
  <2> DEFINE O == {change \in TheChange(r) : OwnLease(r, change)}
             C == {change \in db.changes : ~(change \in TheChange(r) /\ OwnLease(r, change))} \cup
                  {[change EXCEPT !.status = "pending", !.until = 0] : change \in O}
  <2>1. db' = [db EXCEPT !.changes = C]
    BY <1>5 DEF CompleteRefused
  <2>2. \A change \in O : [change EXCEPT !.status = "pending", !.until = 0] \in ChangeRows
    BY Subtables DEF TheChange, ChangeOf, ChangeRows
  <2>3. C \in SUBSET ChangeRows
    <3> HIDE DEF O
    <3> QED BY <2>2, Subtables
  <2> HIDE DEF C
  <2> QED BY <1>5, <2>1, <2>3, TableUpdates, Unmoved DEF CompleteRefused, OnlyTables
<1>6. CASE CompleteFinalize(r)
  <2> DEFINE a == req[r].acct
             e == req[r].email
             s == RevokedTables(a)
             t == [s EXCEPT !.accounts[a].email = e]
  <2>1. PICK change \in TheChange(r) : db' = [t EXCEPT !.changes = s.changes \ {change}]
    BY <1>6 DEF CompleteFinalize
  <2>2. a \in Accounts /\ e \in Emails
    BY <1>2, <1>6 DEF CompleteFinalize, Stands, Completing
  <2>3. s \in Tables /\ s.changes \ {change} \in SUBSET ChangeRows
    BY RevokedTyped, Subtables
  <2> HIDE DEF s
  <2>4. t \in Tables
    BY <2>2, <2>3, RowUpdates
  <2> HIDE DEF t
  <2>5. db' \in Tables
    BY <2>1, <2>3, <2>4 DEF Tables
  <2> QED BY <1>6, <2>5, Unmoved DEF CompleteFinalize, OnlyTables
<1>7. CASE (\E link \in firebase.links : CompleteInspect(r, link)) \/ CompleteFind(r) \/ CompleteOwner(r)
  BY <1>7, Unmoved DEF CompleteInspect, CompleteFind, CompleteOwner
<1> QED BY <1>3, <1>4, <1>5, <1>6, <1>7 DEF CompleteStep

LEMMA BrowserTables == ASSUME TypesInv, NEW r \in Requests, BrowserStep(r) PROVE OthersTyped
<1>0. StateTypes
  BY DEF TypesInv
<1> USE <1>0
<1>1. req[r] \in RequestRecords /\ RequestNames(req[r]) /\ clock \in Nat
  BY TicksAssumption DEF TypesInv, StateTypes
<1>2. CASE StartBrowserAuth(r)
  <2> DEFINE g == [id |-> r, status |-> "pending", acct |-> None, ver |-> 0, by |-> Past,
                   exp |-> clock + CodeTicks, shown |-> None, used |-> Past]
  <2>1. clock + CodeTicks \in Nat
    BY <1>1, TicksAssumption
  <2>2. g \in GrantRows
    BY <2>1 DEF GrantRows, Origins
  <2>3. db' = [db EXCEPT !.grants = @ \cup {g}]
    BY <1>2 DEF StartBrowserAuth
  <2> HIDE DEF g
  <2> QED BY <1>2, <2>2, <2>3, Subtables, TableUpdates, Unmoved DEF StartBrowserAuth, OnlyTables
<1>3. CASE ApproveGrant(r)
  <2>1. PICK g \in GrantOf(req[r].id), s \in db.sessions :
          db' = [db EXCEPT !.sessions = db.sessions \ {s},
                           !.grants = (@ \ {g}) \cup {[g EXCEPT !.status = "approved", !.acct = s.acct, !.ver = s.ver,
                                                                !.by = r, !.shown = s.shown, !.used = s.by]}]
    BY <1>3 DEF ApproveGrant, ApprovedBy
  <2> DEFINE h == [g EXCEPT !.status = "approved", !.acct = s.acct, !.ver = s.ver, !.by = r, !.shown = s.shown, !.used = s.by]
             S == db.sessions \ {s}
             G == (db.grants \ {g}) \cup {h}
  <2>2. g \in GrantRows /\ s \in SessionRows
    BY Subtables DEF GrantOf
  <2>3. h \in GrantRows
    BY <2>2 DEF GrantRows, SessionRows, Origins
  <2>4. S \in SUBSET SessionRows /\ G \in SUBSET GrantRows
    <3> HIDE DEF h
    <3> QED BY <2>3, Subtables
  <2>5. db' = [db EXCEPT !.sessions = S, !.grants = G]
    BY <2>1
  <2> HIDE DEF S, G
  <2>6. db' \in Tables
    BY <2>4, <2>5 DEF StateTypes, Tables
  <2> QED BY <1>3, <2>6, Unmoved DEF ApproveGrant, OnlyTables
<1>4. CASE PollAccount(r)
  BY <1>4, Subtables, TableUpdates, Unmoved DEF PollAccount, OnlyTables, StateTypes
<1>5. CASE PollMint(r)
  <2>1. PICK g \in GrantOf(req[r].id) :
          /\ Redeemable(r, g)
          /\ db' = [db EXCEPT !.sessions = @ \cup {SessionOf(r, g.acct, <<"browser", g.id>>, db.accounts[g.acct].ver,
                                                             req[r].now, g.shown)},
                              !.grants = @ \ {g}]
          /\ minted' = minted \cup {<<<<"browser", g.id>>, r>>}
    BY <1>5 DEF PollMint
  <2> DEFINE s == SessionOf(r, g.acct, <<"browser", g.id>>, db.accounts[g.acct].ver, req[r].now, g.shown)
             S == db.sessions \cup {s}
             G == db.grants \ {g}
  <2>2. g \in GrantRows /\ g.acct \in Accounts
    BY <2>1, Subtables DEF TypesInv, GrantOf, Redeemable
  <2>3. <<"browser", g.id>> \in Grants
    BY <2>2 DEF Grants, GrantRows
  <2>4. s \in SessionRows
    BY <1>1, <2>2, <2>3, Subtables DEF SessionOf, SessionRows, GrantRows, RequestRecords, Rows, Origins
  <2>5. S \in SUBSET SessionRows /\ G \in SUBSET GrantRows
    <3> HIDE DEF s
    <3> QED BY <2>4, Subtables
  <2>6. db' = [db EXCEPT !.sessions = S, !.grants = G]
    BY <2>1
  <2> HIDE DEF S, G
  <2>7. db' \in Tables
    BY <2>5, <2>6 DEF StateTypes, Tables
  <2>8. minted' \subseteq Grants \X Requests
    BY <2>1, <2>3 DEF StateTypes
  <2> QED BY <1>5, <2>7, <2>8 DEF PollMint, OthersTyped, StateTypes
<1>6. CASE \/ \E s \in db.sessions, g \in db.grants : ApproveSession(r, s, g)
           \/ \E g \in db.grants : PollBrowserAuth(r, g)
  BY <1>6, Unmoved DEF ApproveSession, PollBrowserAuth
<1> QED BY <1>2, <1>3, <1>4, <1>5, <1>6 DEF BrowserStep

LEMMA OtherTables == ASSUME TypesInv, OtherStep PROVE OthersTyped /\ req' = req
<1>0. StateTypes
  BY DEF TypesInv
<1> USE <1>0
<1>1. CASE \/ \E s \in db.sessions : UseStaleSession(s)
           \/ \E s, t \in db.sessions : SignOut(s, t)
           \/ \E g \in db.grants : CancelBrowserAuth(g)
  BY <1>1, Subtables, TableUpdates, Unmoved DEF UseStaleSession, SignOut, CancelBrowserAuth, OnlyTables
<1>2. CASE Tick
  BY <1>2, TicksAssumption DEF Tick, OthersTyped, StateTypes
<1>3. ASSUME NEW link \in firebase.links, Hosted(link) PROVE OthersTyped /\ req' = req
  <2>1. link.new \in Emails /\ Known(link.uid)
    BY <1>3 DEF TypesInv, LinksOnce, Hosted
  <2> QED BY <1>3, <2>1, AppliedTyped, Unmoved DEF Hosted
<1>4. ASSUME NEW u \in Uids, NEW e \in Emails, Recover(u, e) PROVE OthersTyped /\ req' = req
  <2> DEFINE I == [firebase.ids EXCEPT ![u].email = e]
  <2>1. Known(u)
    BY <1>4 DEF TypesInv, Recover
  <2>2. [firebase.ids[u] EXCEPT !.email = e] \in Identities
    BY <2>1 DEF Known, Identities
  <2>3. I \in [Uids -> Identities \cup {NoIdentity}]
    BY <2>2, LinkUpdates
  <2>4. firebase' = [firebase EXCEPT !.ids = I]
    BY <1>4 DEF Recover
  <2> HIDE DEF I
  <2>5. firebase' \in Providers
    BY <2>3, <2>4 DEF StateTypes, Providers
  <2> QED BY <1>4, <2>5, Unmoved DEF Recover
<1> QED BY <1>1, <1>2, <1>3, <1>4 DEF OtherStep, StoreNext

(* A step keeps the types.                                                 *)
LEMMA TypesStep == ASSUME TypesInv, AccountNext PROVE StateTypes'
<1>1. CASE OtherStep
  BY <1>1, OtherTables DEF TypesInv, StateTypes, OthersTyped
<1>2. ASSUME NEW r \in Requests, HandlerStep(r) PROVE StateTypes'
  <2>1. OthersTyped
    BY <1>2, LoginTables, VerifyTables, ResetTables, CodeTables, EnrollTables, ChangeTables, CompleteTables,
       BrowserTables
       DEF HandlerStep
  <2> QED BY <1>2, <2>1, HandlerTurn DEF StateTypes, OthersTyped
<1> QED BY <1>1, <1>2, StepCases DEF TypesInv

-------------------------------------------------------------------------------
(***************************************************************************)
(* Identities, and what a request must have read to be where it is         *)
(***************************************************************************)

(* Identities and verified addresses are never lost.                       *)
IdentitiesGrow ==
  /\ \A u \in Uids : firebase.ids[u] \in Identities => firebase'.ids[u] \in Identities
  /\ \A u \in Uids : firebase.held[u] \subseteq firebase'.held[u]
  /\ \A u \in Uids : firebase.crossed[u] \subseteq firebase'.crossed[u]
  /\ \A u \in Uids : firebase'.held[u] = firebase.held[u] \/ firebase'.ids[u] \in Identities
  /\ \A u \in Uids : firebase'.ids[u].email = firebase.ids[u].email \/ firebase'.ids[u].email \in firebase'.held[u]

LEMMA AppliedGrows ==
  ASSUME StateTypes, NEW link \in firebase.links, link.new \in Emails, Known(link.uid),
         firebase'.ids = Applied(link).ids, firebase'.held = Applied(link).held,
         \A u \in Uids : firebase.crossed[u] \subseteq firebase'.crossed[u]
  PROVE  IdentitiesGrow
<1>1. link.uid \in Uids /\ firebase.ids[link.uid] \in Identities
  BY DEF Known
<1>2. \A id \in Identities : LET next == [id EXCEPT !.email = link.new] IN next \in Identities /\ next.email = link.new
  BY DEF Identities
<1>3. /\ firebase'.ids = [firebase.ids EXCEPT ![link.uid].email = link.new]
      /\ firebase'.held = [firebase.held EXCEPT ![link.uid] = @ \cup {link.new}]
  BY AppliedTyped
<1>4. \A u \in Uids : firebase'.ids[u] = IF u = link.uid THEN [firebase.ids[u] EXCEPT !.email = link.new] ELSE firebase.ids[u]
  BY <1>1, <1>3, LinkUpdates
<1>5. \A u \in Uids : firebase'.held[u] = IF u = link.uid THEN firebase.held[u] \cup {link.new} ELSE firebase.held[u]
  BY <1>1, <1>3, LinkUpdates
<1>6. \A u \in Uids : firebase'.ids[u].email = firebase.ids[u].email \/ firebase'.ids[u].email \in firebase'.held[u]
  <2> TAKE u \in Uids
  <2>1. CASE u = link.uid
    <3>1. firebase'.ids[u] = [firebase.ids[u] EXCEPT !.email = link.new]
      BY <1>4, <2>1
    <3>2. firebase'.ids[u].email = link.new
      BY <1>1, <1>2, <2>1, <3>1
    <3>3. link.new \in firebase'.held[u]
      BY <1>5, <2>1
    <3> QED BY <3>2, <3>3
  <2>2. CASE u # link.uid
    BY <1>4, <2>2
  <2> QED BY <2>1, <2>2
<1>7. /\ \A u \in Uids : firebase.ids[u] \in Identities => firebase'.ids[u] \in Identities
      /\ \A u \in Uids : firebase'.held[u] = firebase.held[u] \/ firebase'.ids[u] \in Identities
  <2>1. [firebase.ids[link.uid] EXCEPT !.email = link.new] \in Identities
    BY <1>1, <1>2
  <2> QED BY <1>4, <1>5, <2>1
<1> QED BY <1>5, <1>6, <1>7 DEF IdentitiesGrow

LEMMA HandlerGrows == ASSUME TypesInv, NEW r \in Requests, HandlerStep(r) PROVE IdentitiesGrow
<1>0. StateTypes
  BY DEF TypesInv
<1> USE <1>0
<1>1. req[r] \in RequestRecords /\ RequestNames(req[r])
  BY DEF TypesInv, StateTypes
<1>2. UNCHANGED firebase => IdentitiesGrow
  BY DEF IdentitiesGrow
<1>3. ASSUME NEW L, firebase' = [firebase EXCEPT !.links = L] PROVE IdentitiesGrow
  BY <1>3 DEF IdentitiesGrow, StateTypes, Providers
<1>4. CASE (\E u \in Uids : RequestReset(r, u)) \/ ChangeSend(r)
  BY <1>4, <1>3 DEF RequestReset, ChangeSend
<1>5. CASE ResetApply(r)
  <2>1. PICK link \in firebase.links : firebase' = [firebase EXCEPT !.ids[link.uid].pw = req[r].pw, !.links = @ \ {link}]
    BY <1>5 DEF ResetApply
  <2>2. Known(link.uid) /\ req[r].pw \in Passwords
    BY <1>1, <1>5 DEF TypesInv, LinksOnce, ResetApply, Stands, RequestNames, WithPassword
  <2>3. LET id == [firebase.ids[link.uid] EXCEPT !.pw = req[r].pw]
        IN  id \in Identities /\ id.email = firebase.ids[link.uid].email
    BY <2>2 DEF Known, Identities
  <2>4. \A u \in Uids : firebase'.ids[u] = IF u = link.uid THEN [firebase.ids[u] EXCEPT !.pw = req[r].pw] ELSE firebase.ids[u]
    BY <2>1 DEF StateTypes, Providers
  <2>5. firebase'.held = firebase.held /\ firebase'.crossed = firebase.crossed
    BY <2>1 DEF StateTypes, Providers
  <2> QED BY <2>3, <2>4, <2>5 DEF IdentitiesGrow
<1>6. CASE EnrollSignUp(r)
  <2>1. CASE ~UNCHANGED firebase
    <3>1. PICK v \in Uids : firebase' = [firebase EXCEPT !.ids[v] = [email |-> req[r].email, pw |-> req[r].pw],
                                                         !.held[v] = @ \cup {req[r].email}]
      BY <1>6, <2>1 DEF EnrollSignUp
    <3>2. LET id == [email |-> req[r].email, pw |-> req[r].pw] IN id \in Identities /\ id.email = req[r].email
      BY <1>1, <1>6 DEF EnrollSignUp, Stands, RequestNames, WithEmail, WithPassword, Addressed, Identities
    <3>3. \A u \in Uids : firebase'.ids[u] = IF u = v THEN [email |-> req[r].email, pw |-> req[r].pw] ELSE firebase.ids[u]
      BY <3>1 DEF StateTypes, Providers
    <3>4. \A u \in Uids : firebase'.held[u] = IF u = v THEN firebase.held[u] \cup {req[r].email} ELSE firebase.held[u]
      BY <3>1 DEF StateTypes, Providers
    <3>5. firebase'.crossed = firebase.crossed
      BY <3>1 DEF StateTypes, Providers
    <3> QED BY <3>2, <3>3, <3>4, <3>5 DEF IdentitiesGrow
  <2> QED BY <1>2, <2>1
<1>7. CASE CompleteApply(r)
  <2>1. PICK link \in firebase.links, named \in BOOLEAN : link.id = req[r].id /\ firebase' = AppliedFor(r, link, named)
    BY <1>7 DEF CompleteApply
  <2>2. link.new \in Emails /\ Known(link.uid)
    BY <1>1, <1>7, <2>1
       DEF TypesInv, LinksOnce, RequestLinks, RequestNames, WithEmail, Addressed, CompleteApply, Stands
  <2> QED BY <2>1, <2>2, AppliedForTyped, AppliedGrows
<1>8. CASE LoginStep(r)
  BY <1>8, <1>2
     DEF LoginStep, LoginSnapshot, LoginAuthenticate, LoginResolve, LoginOwner, LoginReserved, LoginInsert,
         LoginReselect, LoginConfirm, LoginRecheck, LoginClear, LoginChallenge, LoginSend, OnlyRequests, OnlyTables
<1>9. CASE VerifyStep(r)
  BY <1>9, <1>2
     DEF VerifyStep, VerifyAttempt, VerifyWrong, VerifyCompare, VerifyConsume, VerifyAccount, VerifyLink,
         VerifyRevoke,
         VerifyLinked, VerifyChange, VerifyReconcile, VerifyReread, VerifyMint, Mint, OnlyRequests, OnlyTables
<1>10. CASE ResetStep(r)
  BY <1>10, <1>2, <1>4, <1>5
     DEF ResetStep, ResetCheck, ResetFind, ResetBump, ResetSessions, ResetChallenges, OnlyRequests, OnlyTables
<1>11. CASE CodeStep(r)
  BY <1>11, <1>2
     DEF CodeStep, UpsertCode, SendFails, AttemptCode, WrongCode, ConsumeCode, VerifyCodeInsert,
         VerifyCodeReserved,
         VerifyCodeAccount, VerifyCodeMint, Mint, InsertProof, OnlyRequests, OnlyTables
<1>12. CASE EnrollStep(r)
  BY <1>12, <1>2, <1>6
     DEF EnrollStep, EnrollLease, EnrollRelease, EnrollSignIn, LinkInsert, LinkRead, LinkUpdate, EnrollLinked,
         EnrollSessions, EnrollChallenges, EnrollConsume, EnrollMint, Mint, OnlyRequests, OnlyTables
<1>13. CASE ChangeStep(r)
  BY <1>13, <1>2, <1>4
     DEF ChangeStep, ChangeAuthenticate, ChangeReread, ChangeSignIn, ChangeDropExpired, ChangeOwner,
         ChangePending,
         ChangeDeleteOwn, ChangeInsert, ChangeRefused, OnlyRequests, OnlyTables
<1>14. CASE CompleteStep(r)
  BY <1>14, <1>2, <1>7
     DEF CompleteStep, CompleteInspect, CompleteFind, CompleteOwner, CompleteInvalidate, CompleteRefused,
         CompleteFinalize,
         OnlyRequests, OnlyTables
<1>15. CASE BrowserStep(r)
  BY <1>15, <1>2
     DEF BrowserStep, StartBrowserAuth, ApproveSession, ApproveGrant, PollBrowserAuth, PollAccount, PollMint,
         OnlyRequests, OnlyTables
<1> QED BY <1>8, <1>9, <1>10, <1>11, <1>12, <1>13, <1>14, <1>15 DEF HandlerStep

LEMMA OtherGrows == ASSUME TypesInv, OtherStep PROVE IdentitiesGrow
<1>0. StateTypes
  BY DEF TypesInv
<1> USE <1>0
<1>1. ASSUME NEW link \in firebase.links, Hosted(link) PROVE IdentitiesGrow
  <2>1. link.new \in Emails /\ Known(link.uid)
    BY <1>1 DEF TypesInv, LinksOnce, Hosted
  <2> QED BY <1>1, <2>1, AppliedTyped, AppliedGrows DEF Hosted
<1>2. ASSUME NEW v \in Uids, NEW e \in Emails, Recover(v, e) PROVE IdentitiesGrow
  <2>1. LET id == [firebase.ids[v] EXCEPT !.email = e] IN id \in Identities /\ id.email = e
    BY <1>2 DEF TypesInv, Recover, Known, Identities
  <2>2. \A u \in Uids : firebase'.ids[u] = IF u = v THEN [firebase.ids[u] EXCEPT !.email = e] ELSE firebase.ids[u]
    BY <1>2 DEF Recover, StateTypes, Providers
  <2>3. firebase'.held = firebase.held /\ firebase'.crossed = firebase.crossed
    BY <1>2 DEF Recover, StateTypes, Providers
  <2> QED BY <1>2, <2>1, <2>2, <2>3 DEF IdentitiesGrow, Recover
<1>3. UNCHANGED firebase => IdentitiesGrow
  BY DEF IdentitiesGrow
<1> QED BY <1>1, <1>2, <1>3
        DEF OtherStep, StoreNext, UseStaleSession, SignOut, Tick, CancelBrowserAuth, OnlyTables

(* What is known of a request is known of what it becomes.                 *)
LEMMA EndedIs ==
  /\ Ended.op = "none" /\ Ended.at = "ended" /\ Ended.id = Past
  /\ Unstarted.op = "none" /\ Unstarted.at = "unstarted" /\ Unstarted.id = Past
BY DEF Ended, Unstarted, Past

LEMMA LoginNames ==
  ASSUME TypesInv, NEW r \in Requests, LoginStep(r), IdentitiesGrow
  PROVE  RequestNames(req[r])'
<1>0. StateTypes
  BY DEF TypesInv
<1>1. req[r] \in RequestRecords /\ RequestNames(req[r])
  BY DEF TypesInv, StateTypes
<1> USE <1>0, <1>1 DEF RequestNames, WithEmail, WithAccount, WithIdentity, WithPassword, Known
<1>2. CASE \E e \in Emails, p \in Passwords : LoginSnapshot(r, e, p)
  BY <1>2 DEF LoginSnapshot, New, Unstarted, StateTypes, Becomes, LoginProven, LoginBound
<1>3. CASE LoginAuthenticate(r)
  <2>1. PICK u \in Uids : SignsIn(u, req[r].email, req[r].pw) /\ Becomes(r, [req[r] EXCEPT !.at = "resolve", !.uid = u])
    BY <1>3 DEF LoginAuthenticate
  <2>2. req[r].email \in Emails
    BY <1>3 DEF LoginAuthenticate, Stands, Addressed
  <2>3. firebase.ids[u] \in Identities
    BY <2>1, <2>2, LinkUpdates, NoneAssumption DEF SignsIn, NoIdentity
  <2> QED BY <1>3, <2>1, <2>2, <2>3
          DEF LoginAuthenticate, Stands, StateTypes, Becomes, RequestRecords, LoginProven, LoginBound,
              IdentitiesGrow
<1>4. CASE LoginResolve(r) 
  BY <1>4
     DEF LoginResolve, Stands, StateTypes, Becomes, RequestRecords, LoginProven, LoginBound, IdentitiesGrow,
         Addressed
<1>5. CASE LoginReselect(r)
  BY <1>5, OwnersNamed
     DEF LoginReselect, Stands, StateTypes, Becomes, RequestRecords, LoginProven, LoginBound, IdentitiesGrow,
         Addressed
<1>6. CASE LoginConfirm(r)
  BY <1>6
     DEF LoginConfirm, Stands, StateTypes, Becomes, RequestRecords, LoginProven, LoginBound, IdentitiesGrow,
         Addressed
<1>7. CASE LoginOwner(r) \/ LoginReserved(r)
  BY <1>7
     DEF LoginOwner, LoginReserved, Stands, StateTypes, Goes, Becomes, RequestRecords, LoginProven,
         LoginBound, IdentitiesGrow, Addressed
<1>8. CASE LoginInsert(r) \/ LoginClear(r) \/ LoginChallenge(r)
  BY <1>8
     DEF LoginInsert, LoginClear, LoginChallenge, Stands, StateTypes, Goes, Becomes, RequestRecords,
         LoginProven, LoginBound, IdentitiesGrow, Addressed
<1>9. CASE LoginRecheck(r)
  BY <1>9
     DEF LoginRecheck, Stands, StateTypes, Goes, Becomes, RequestRecords, LoginProven, LoginBound,
         IdentitiesGrow, Addressed
<1>10. CASE LoginSend(r)
  BY <1>10, EndedIs DEF LoginSend, Ends, Addressed, Becomes, StateTypes, IdentitiesGrow
<1> QED BY <1>2, <1>3, <1>4, <1>5, <1>6, <1>7, <1>8, <1>9, <1>10 DEF LoginStep

LEMMA VerifyNames ==
  ASSUME TypesInv, NEW r \in Requests, VerifyStep(r), IdentitiesGrow
  PROVE  RequestNames(req[r])'
<1>0. StateTypes
  BY DEF TypesInv
<1>1. req[r] \in RequestRecords /\ RequestNames(req[r])
  BY DEF TypesInv, StateTypes
<1> USE <1>0, <1>1
    DEF RequestNames, WithEmail, WithAccount, WithIdentity, WithPassword, Known, Addressed, Verified, Stands,
        StateTypes,
        Goes, Becomes, RequestRecords, IdentitiesGrow
<1>2. ASSUME NEW c \in db.challenges, NEW right \in BOOLEAN, VerifyAttempt(r, c, right)
      PROVE  RequestNames(req[r])'
  BY <1>2 DEF VerifyAttempt, New, Unstarted
<1>3. CASE VerifyConsume(r)
  <2>1. PICK c \in db.challenges :
          Becomes(r, [req[r] EXCEPT !.at = "account", !.acct = c.acct, !.uid = c.uid, !.ver = c.ver,
                        !.email = c.email, !.n = 0, !.shown = c.shown])
    BY <1>3 DEF VerifyConsume
  <2>2. c \in ChallengeRows /\ Known(c.uid)
    BY Subtables DEF TypesInv
  <2> QED BY <1>3, <2>1, <2>2 DEF VerifyConsume, ChallengeRows
<1>4. CASE VerifyAccount(r)
  BY <1>4 DEF VerifyAccount
<1>5. CASE VerifyLinked(r)
  BY <1>5 DEF VerifyLinked
<1>6. CASE VerifyReread(r)
  BY <1>6 DEF VerifyReread
<1>7. CASE VerifyLink(r) \/ VerifyRevoke(r)
  BY <1>7 DEF VerifyLink, VerifyRevoke
<1>8. CASE VerifyChange(r) \/ VerifyReconcile(r)
  BY <1>8 DEF VerifyChange, VerifyReconcile
<1>9. CASE VerifyCompare(r)
  BY <1>9 DEF VerifyCompare
<1>10. CASE VerifyWrong(r) \/ VerifyMint(r)
  BY <1>10, EndedIs DEF VerifyWrong, VerifyMint, Mint, Ends
<1> QED BY <1>2, <1>3, <1>4, <1>5, <1>6, <1>7, <1>8, <1>9, <1>10 DEF VerifyStep

LEMMA ResetNames ==
  ASSUME TypesInv, NEW r \in Requests, ResetStep(r), IdentitiesGrow
  PROVE  RequestNames(req[r])'
<1>0. StateTypes
  BY DEF TypesInv
<1>1. req[r] \in RequestRecords /\ RequestNames(req[r])
  BY DEF TypesInv, StateTypes
<1> USE <1>0, <1>1
    DEF RequestNames, WithEmail, WithAccount, WithIdentity, WithPassword, Known, Addressed, ResetBound,
        Stands, StateTypes,
        Goes, Becomes, RequestRecords, IdentitiesGrow
<1>2. ASSUME NEW link \in firebase.links, NEW p \in Passwords, ResetCheck(r, link, p)
      PROVE  RequestNames(req[r])'
  BY <1>2 DEF ResetCheck, New, Unstarted
<1>3. CASE ResetFind(r)
  BY <1>3, OwnersNamed DEF ResetFind
<1>4. CASE ResetBump(r) \/ ResetSessions(r) \/ ResetChallenges(r)
  BY <1>4 DEF ResetBump, ResetSessions, ResetChallenges
<1>5. CASE (\E u \in Uids : RequestReset(r, u)) \/ ResetApply(r)
  BY <1>5, EndedIs DEF RequestReset, ResetApply, Ends
<1> QED BY <1>2, <1>3, <1>4, <1>5 DEF ResetStep

LEMMA CodeNames == ASSUME TypesInv, NEW r \in Requests, CodeStep(r), IdentitiesGrow PROVE RequestNames(req[r])'
<1>0. StateTypes
  BY DEF TypesInv
<1>1. req[r] \in RequestRecords /\ RequestNames(req[r])
  BY DEF TypesInv, StateTypes
<1> USE <1>0, <1>1
    DEF RequestNames, WithEmail, WithAccount, WithIdentity, WithPassword, Known, Addressed, Stands, StateTypes,
        Goes, Becomes, RequestRecords, IdentitiesGrow
<1>2. ASSUME NEW e \in Emails, NEW purpose \in {"legacyCode", "enrollmentCode"}, UpsertCode(r, purpose, e)
      PROVE  RequestNames(req[r])'
  BY <1>2 DEF UpsertCode, New, Unstarted
<1>3. ASSUME NEW e \in Emails, NEW right \in BOOLEAN, NEW purpose, NEW op \in {"verifyCode", "verifyEnrollment"},
             AttemptCode(r, op, purpose, e, right)
      PROVE  RequestNames(req[r])'
  BY <1>3 DEF AttemptCode, New, Unstarted
<1>4. ASSUME NEW op \in {"verifyCode", "verifyEnrollment"}, NEW purpose, NEW next \in {"insert", "prove"},
             ConsumeCode(r, op, purpose, next)
      PROVE  RequestNames(req[r])'
  BY <1>4 DEF ConsumeCode
<1>5. CASE VerifyCodeInsert(r) \/ VerifyCodeReserved(r)
  BY <1>5 DEF VerifyCodeInsert, VerifyCodeReserved
<1>6. CASE VerifyCodeAccount(r)
  BY <1>6, OwnersNamed DEF VerifyCodeAccount
<1>7. ASSUME NEW op, NEW purpose, WrongCode(r, op, purpose) PROVE RequestNames(req[r])'
  BY <1>7, EndedIs DEF WrongCode, Ends
<1>8. CASE SendFails(r) \/ VerifyCodeMint(r) \/ InsertProof(r)
  BY <1>8, EndedIs DEF SendFails, VerifyCodeMint, InsertProof, Mint, Ends
<1> QED BY <1>2, <1>3, <1>4, <1>5, <1>6, <1>7, <1>8 DEF CodeStep

LEMMA EnrollNames ==
  ASSUME TypesInv, NEW r \in Requests, EnrollStep(r), IdentitiesGrow
  PROVE  RequestNames(req[r])'
<1>0. StateTypes
  BY DEF TypesInv
<1>1. req[r] \in RequestRecords /\ RequestNames(req[r])
  BY DEF TypesInv, StateTypes
<1> USE <1>0, <1>1
    DEF RequestNames, WithEmail, WithAccount, WithIdentity, WithPassword, Known, Addressed, Stands, StateTypes,
        Goes, Becomes, RequestRecords, IdentitiesGrow, EnrollProven, EnrollBound
<1>2. ASSUME NEW proof \in db.proofs, NEW p \in Passwords, EnrollLease(r, proof, p) PROVE RequestNames(req[r])'
  <2>1. proof.email \in Emails
    BY Subtables DEF ProofRows
  <2> QED BY <1>2, <2>1 DEF EnrollLease, New, Unstarted
<1>3. CASE EnrollSignUp(r)
  <2>1. CASE Goes(r, "signin")
    BY <1>3, <2>1 DEF EnrollSignUp
  <2>2. CASE ~Goes(r, "signin")
    <3>1. PICK u \in Uids : /\ firebase' = [firebase EXCEPT !.ids[u] = [email |-> req[r].email, pw |-> req[r].pw],
                                                            !.held[u] = @ \cup {req[r].email}]
                            /\ Becomes(r, [req[r] EXCEPT !.at = "linkInsert", !.uid = u])
      BY <1>3, <2>2 DEF EnrollSignUp
    <3>2. firebase'.ids[u] \in Identities
      BY <1>3, <3>1 DEF EnrollSignUp, Identities, Providers
    <3> QED BY <1>3, <3>1, <3>2 DEF EnrollSignUp
  <2> QED BY <2>1, <2>2
<1>4. CASE EnrollSignIn(r)
  <2>1. PICK u \in Uids : SignsIn(u, req[r].email, req[r].pw) /\ Becomes(r, [req[r] EXCEPT !.at = "linkInsert", !.uid = u])
    BY <1>4 DEF EnrollSignIn
  <2>2. firebase.ids[u] \in Identities
    BY <1>4, <2>1, LinkUpdates DEF EnrollSignIn, SignsIn, Identities
  <2> QED BY <1>4, <2>1, <2>2 DEF EnrollSignIn
<1>5. CASE LinkInsert(r)
  BY <1>5 DEF LinkInsert
<1>6. CASE LinkRead(r)
  BY <1>6, OwnersNamed DEF LinkRead
<1>7. CASE LinkUpdate(r) \/ EnrollSessions(r)
  BY <1>7 DEF LinkUpdate, EnrollSessions
<1>8. CASE EnrollLinked(r)
  BY <1>8 DEF EnrollLinked
<1>9. CASE EnrollChallenges(r) \/ EnrollConsume(r)
  BY <1>9 DEF EnrollChallenges, EnrollConsume
<1>10. CASE EnrollRelease(r) \/ EnrollMint(r)
  BY <1>10, EndedIs DEF EnrollRelease, EnrollMint, Mint, Ends
<1> QED BY <1>2, <1>3, <1>4, <1>5, <1>6, <1>7, <1>8, <1>9, <1>10 DEF EnrollStep

LEMMA ChangeNames ==
  ASSUME TypesInv, NEW r \in Requests, ChangeStep(r), IdentitiesGrow
  PROVE  RequestNames(req[r])'
<1>0. StateTypes
  BY DEF TypesInv
<1>1. req[r] \in RequestRecords /\ RequestNames(req[r])
  BY DEF TypesInv, StateTypes
<1> USE <1>0, <1>1
    DEF RequestNames, WithEmail, WithAccount, WithIdentity, WithPassword, Known, Addressed, Stands, StateTypes,
        Goes, Becomes, RequestRecords, IdentitiesGrow
<1>2. ASSUME NEW s \in db.sessions, NEW e \in Emails, NEW p \in Passwords, ChangeAuthenticate(r, s, e, p)
      PROVE  RequestNames(req[r])'
  <2>1. s.acct \in Accounts
    BY Subtables DEF SessionRows
  <2>2. db.accounts[s.acct].email \in Emails \cup {None}
    BY <2>1, Subtables DEF Rows
  <2>3. Known(db.accounts[s.acct].uid)
    BY <1>2, <2>1 DEF TypesInv, ChangeAuthenticate
  <2> QED BY <1>2, <2>1, <2>2, <2>3 DEF ChangeAuthenticate, New, Unstarted
<1>3. CASE ChangeReread(r) \/ ChangeSignIn(r) \/ ChangeDropExpired(r)
  BY <1>3 DEF ChangeReread, ChangeSignIn, ChangeDropExpired
<1>4. CASE ChangeOwner(r) \/ ChangePending(r)
  BY <1>4 DEF ChangeOwner, ChangePending
<1>5. CASE ChangeDeleteOwn(r) \/ ChangeInsert(r)
  BY <1>5 DEF ChangeDeleteOwn, ChangeInsert
<1>6. CASE ChangeSend(r) \/ ChangeRefused(r)
  BY <1>6, EndedIs DEF ChangeSend, ChangeRefused, Ends
<1> QED BY <1>2, <1>3, <1>4, <1>5, <1>6 DEF ChangeStep

LEMMA CompleteNames ==
  ASSUME TypesInv, NEW r \in Requests, CompleteStep(r), IdentitiesGrow
  PROVE  RequestNames(req[r])'
<1>0. StateTypes
  BY DEF TypesInv
<1>1. req[r] \in RequestRecords /\ RequestNames(req[r])
  BY DEF TypesInv, StateTypes
<1> USE <1>0, <1>1
    DEF RequestNames, WithEmail, WithAccount, WithIdentity, WithPassword, Known, Addressed, Stands, StateTypes,
        Goes, Becomes, RequestRecords, IdentitiesGrow, Completing
<1>2. ASSUME NEW link \in firebase.links, CompleteInspect(r, link) PROVE RequestNames(req[r])'
  <2>1. link.new \in Emails /\ link.email \in Emails \cup {None}
    BY <1>2, LinkUpdates DEF TypesInv, LinksOnce, CompleteInspect, LinkRows
  <2> QED BY <1>2, <2>1 DEF CompleteInspect, New, Unstarted
<1>3. CASE CompleteFind(r)
  <2>1. PICK change \in db.changes :
          Becomes(r, [req[r] EXCEPT !.at = "owner", !.acct = change.acct, !.uid = change.uid, !.ver = change.ver])
    BY <1>3 DEF CompleteFind, Reserved
  <2>2. change.acct \in Accounts /\ Known(change.uid)
    BY Subtables DEF TypesInv, ChangeRows
  <2> QED BY <1>3, <2>1, <2>2 DEF CompleteFind
<1>4. CASE CompleteOwner(r)
  BY <1>4 DEF CompleteOwner
<1>5. CASE CompleteInvalidate(r)
  BY <1>5 DEF CompleteInvalidate
<1>6. CASE CompleteApply(r)
  <2>1. Goes(r, "finalize") \/ Ends(r)
    BY <1>6 DEF CompleteApply
  <2>2. CASE Goes(r, "finalize")
    BY <1>6, <2>2 DEF CompleteApply
  <2> QED BY <2>1, <2>2, EndedIs DEF Ends
<1>7. CASE CompleteRefused(r) \/ CompleteFinalize(r)
  BY <1>7, EndedIs DEF CompleteRefused, CompleteFinalize, Ends
<1> QED BY <1>2, <1>3, <1>4, <1>5, <1>6, <1>7 DEF CompleteStep

LEMMA BrowserNames ==
  ASSUME TypesInv, NEW r \in Requests, BrowserStep(r), IdentitiesGrow
  PROVE  RequestNames(req[r])'
<1>0. StateTypes
  BY DEF TypesInv
<1>1. req[r] \in RequestRecords /\ RequestNames(req[r])
  BY DEF TypesInv, StateTypes
<1> USE <1>0, <1>1
    DEF RequestNames, WithEmail, WithAccount, WithIdentity, WithPassword, Known, Addressed, Stands, StateTypes,
        Goes, Becomes, RequestRecords, IdentitiesGrow
<1>2. ASSUME NEW s \in db.sessions, NEW g \in db.grants, ApproveSession(r, s, g) PROVE RequestNames(req[r])'
  <2>1. s.acct \in Accounts
    BY Subtables DEF SessionRows
  <2> QED BY <1>2, <2>1 DEF ApproveSession, New, Unstarted
<1>3. ASSUME NEW g \in db.grants, PollBrowserAuth(r, g) PROVE RequestNames(req[r])'
  <2>1. g.acct \in Accounts
    BY <1>3 DEF TypesInv, PollBrowserAuth
  <2> QED BY <1>3, <2>1 DEF PollBrowserAuth, New, Unstarted
<1>4. CASE PollAccount(r)
  <2>1. Goes(r, "mint") \/ Ends(r)
    BY <1>4 DEF PollAccount
  <2>2. CASE Goes(r, "mint")
    BY <1>4, <2>2 DEF PollAccount
  <2> QED BY <2>1, <2>2, EndedIs DEF Ends
<1>5. CASE StartBrowserAuth(r) \/ ApproveGrant(r) \/ PollMint(r)
  BY <1>5, EndedIs DEF StartBrowserAuth, ApproveGrant, PollMint, Ends
<1> QED BY <1>2, <1>3, <1>4, <1>5 DEF BrowserStep

-------------------------------------------------------------------------------
(***************************************************************************)
(* What a step does to the accounts and to the other tables                *)
(***************************************************************************)

(* The ways in which a step changes the accounts.                          *)
RowsBecome(a, row, n) ==
  /\ \A b \in Accounts : db'.accounts[b] = IF b = a THEN row ELSE db.accounts[b]
  /\ \A b \in Accounts : revoked'[b] = IF b = a THEN n ELSE revoked[b]
RowsKept == db'.accounts = db.accounts /\ revoked' = revoked
Inserts(a, e, u, v) ==
  /\ db.accounts[a] = NoAccount /\ OwnerOf(e) = None
  /\ RowsBecome(a, [email |-> e, uid |-> u, ver |-> v], revoked[a])
InsertsPlain(a, e) == Inserts(a, e, None, 0)
InsertsLinked(a, e, u) == Known(u) /\ AccountOf(u) = None /\ Inserts(a, e, u, 1)
Links(a, u) ==
  /\ Known(u) /\ db.accounts[a].uid = None /\ AccountOf(u) = None
  /\ RowsBecome(a, [email |-> db.accounts[a].email, uid |-> u, ver |-> db.accounts[a].ver + 1], revoked[a])
Revokes(a) ==
  RowsBecome(a, [email |-> db.accounts[a].email, uid |-> db.accounts[a].uid, ver |-> db.accounts[a].ver + 1], revoked[a] + 1)
Readdresses(a, e, v) ==
  /\ db.accounts[a].uid # None /\ OwnerOf(e) \in {None, a}
  /\ v \in {db.accounts[a].ver, db.accounts[a].ver + 1}
  /\ RowsBecome(a, [email |-> e, uid |-> db.accounts[a].uid, ver |-> v], revoked[a])

LEMMA RowFields ==
  ASSUME StateTypes, NEW a \in Accounts
  PROVE  /\ db.accounts[a].email \in Emails \cup {None} /\ db.accounts[a].uid \in Uids \cup {None}
         /\ db.accounts[a].ver \in Nat /\ revoked[a] \in Nat
BY DEF StateTypes, Tables, Rows

LEMMA LinkedIs ==
  ASSUME NEW row \in Rows, NEW u, NEW x, x = Linked(row, u)
  PROVE  x = [email |-> row.email, uid |-> u, ver |-> row.ver + 1]
BY DEF Linked, Rows

LEMMA InsertRows ==
  ASSUME StateTypes, NEW e \in Emails, InsertAccount(e), revoked' = revoked
  PROVE  RowsKept \/ \E a \in Accounts : InsertsPlain(a, e)
<1>1. CASE OwnerOf(e) = None /\ Reserved(e) = {}
  <2>1. PICK a \in Accounts : /\ db.accounts[a] = NoAccount
                              /\ db' = [db EXCEPT !.accounts[a] = [email |-> e, uid |-> None, ver |-> 0]]
    BY <1>1 DEF InsertAccount
  <2>2. \A b \in Accounts : db'.accounts[b] = IF b = a THEN [email |-> e, uid |-> None, ver |-> 0] ELSE db.accounts[b]
    BY <2>1 DEF StateTypes, Tables
  <2> QED BY <1>1, <2>1, <2>2 DEF InsertsPlain, Inserts, RowsBecome
<1>2. CASE ~(OwnerOf(e) = None /\ Reserved(e) = {})
  BY <1>2 DEF InsertAccount, RowsKept
<1> QED BY <1>1, <1>2

LEMMA LinkingRows ==
  ASSUME StateTypes, NEW a \in Accounts, NEW u, Known(u), Link(a, u), revoked' = revoked
  PROVE  RowsKept \/ Links(a, u)
<1>1. CASE db.accounts[a].uid = None /\ Unlinked(u)
  <2> DEFINE row == [email |-> db.accounts[a].email, uid |-> u, ver |-> db.accounts[a].ver + 1]
  <2>1. db' = [db EXCEPT !.accounts[a] = Linked(db.accounts[a], u)]
    BY <1>1 DEF Link
  <2>2. Linked(db.accounts[a], u) = row
    BY Subtables, LinkedIs
  <2>3. \A b \in Accounts : db'.accounts[b] = IF b = a THEN row ELSE db.accounts[b]
    BY <2>1, <2>2 DEF StateTypes, Tables
  <2> QED BY <1>1, <2>3 DEF Links, Unlinked, RowsBecome
<1>2. CASE ~(db.accounts[a].uid = None /\ Unlinked(u))
  BY <1>2 DEF Link, RowsKept
<1> QED BY <1>1, <1>2

LEMMA LinkInsertRows ==
  ASSUME TypesInv, NEW r \in Requests, LinkInsert(r)
  PROVE  RowsKept \/ \E a \in Accounts : req[r].email \in Emails /\ InsertsLinked(a, req[r].email, req[r].uid)
<1>0. StateTypes /\ RequestNames(req[r])
  BY DEF TypesInv
<1>1. req[r].email \in Emails /\ Known(req[r].uid)
  BY <1>0 DEF LinkInsert, Stands, RequestNames, WithEmail, WithIdentity, EnrollProven, Addressed
<1>2. CASE OwnerOf(req[r].email) = None
  <2> DEFINE row == [email |-> req[r].email, uid |-> req[r].uid, ver |-> 1]
  <2>1. AccountOf(req[r].uid) = None
    BY <1>2 DEF LinkInsert, Unlinked
  <2>2. PICK a \in Accounts : db.accounts[a] = NoAccount /\ db' = [db EXCEPT !.accounts[a] = row]
    BY <1>2 DEF LinkInsert
  <2>3. \A b \in Accounts : db'.accounts[b] = IF b = a THEN row ELSE db.accounts[b]
    BY <1>0, <2>2 DEF StateTypes, Tables
  <2> QED BY <1>1, <1>2, <2>1, <2>2, <2>3 DEF InsertsLinked, Inserts, RowsBecome, LinkInsert, OnlyTables
<1>3. CASE OwnerOf(req[r].email) # None
  BY <1>3 DEF LinkInsert, OnlyTables, RowsKept
<1> QED BY <1>2, <1>3

LEMMA ReconcileRows ==
  ASSUME TypesInv, NEW r \in Requests, VerifyReconcile(r)
  PROVE  /\ req[r].acct \in Accounts /\ req[r].email \in Emails
         /\ Readdresses(req[r].acct, req[r].email, db.accounts[req[r].acct].ver + 1)
<1> DEFINE a == req[r].acct
           e == req[r].email
           s == RevokedTables(a)
           t == [s EXCEPT !.accounts[a].email = e]
           u == [t EXCEPT !.accounts[a].ver = s.accounts[a].ver + 1]
<1>0. StateTypes /\ RequestNames(req[r])
  BY DEF TypesInv
<1>1. a \in Accounts /\ e \in Emails /\ Known(req[r].uid)
  BY <1>0 DEF VerifyReconcile, Stands, RequestNames, WithEmail, WithAccount, WithIdentity, Verified
<1>2. db' = [u EXCEPT !.changes = {change \in s.changes : change.acct # a}]
  BY DEF VerifyReconcile
<1>3. s \in Tables /\ s.accounts = db.accounts
  BY <1>0, RevokedTyped
<1> HIDE DEF s
<1>4. t \in Tables /\ t.accounts = [db.accounts EXCEPT ![a].email = e]
  BY <1>1, <1>3, RowUpdates
<1>5. db.accounts[a].ver + 1 \in Nat
  BY <1>0, <1>1, RowFields
<1> HIDE DEF t
<1>6. u \in Tables /\ u.accounts = [t.accounts EXCEPT ![a].ver = db.accounts[a].ver + 1]
  BY <1>1, <1>3, <1>4, <1>5, RowUpdates
<1> HIDE DEF u
<1>7. db'.accounts = [t.accounts EXCEPT ![a].ver = db.accounts[a].ver + 1]
  BY <1>2, <1>6 DEF Tables
<1>8. \A b \in Accounts : db'.accounts[b] =
        IF b = a THEN [email |-> e, uid |-> db.accounts[a].uid, ver |-> db.accounts[a].ver + 1] ELSE db.accounts[b]
  BY <1>0, <1>1, <1>4, <1>7, Subtables DEF Rows
<1>9. db.accounts[a].uid # None /\ OwnerOf(e) \in {None, a} /\ revoked' = revoked
  BY <1>1, NoneAssumption DEF VerifyReconcile, FreeFor, Known, OnlyTables
<1> QED BY <1>1, <1>8, <1>9 DEF Readdresses, RowsBecome

LEMMA BumpRows ==
  ASSUME TypesInv, NEW r \in Requests, ResetBump(r)
  PROVE  req[r].acct \in Accounts /\ Revokes(req[r].acct)
<1> DEFINE a == req[r].acct
<1>0. StateTypes /\ RequestNames(req[r])
  BY DEF TypesInv
<1>1. a \in Accounts
  BY <1>0 DEF ResetBump, Stands, RequestNames, WithAccount, ResetBound
<1>2. db' = [db EXCEPT !.accounts[a].ver = db.accounts[a].ver + 1] /\ revoked' = [revoked EXCEPT ![a] = revoked[a] + 1]
  BY DEF ResetBump, RaisedVersion
<1>3. db.accounts[a].ver \in Nat /\ db.accounts[a].ver + 1 \in Nat
  BY <1>0, <1>1, RowFields
<1>4. db'.accounts = [db.accounts EXCEPT ![a].ver = db.accounts[a].ver + 1]
  BY <1>0, <1>1, <1>2, <1>3, RowUpdates DEF StateTypes
<1>5. \A b \in Accounts : db'.accounts[b] =
        IF b = a THEN [email |-> db.accounts[a].email, uid |-> db.accounts[a].uid, ver |-> db.accounts[a].ver + 1]
                 ELSE db.accounts[b]
  BY <1>0, <1>1, <1>4, Subtables DEF Rows
<1>6. \A b \in Accounts : revoked'[b] = IF b = a THEN revoked[a] + 1 ELSE revoked[b]
  BY <1>0, <1>2 DEF StateTypes
<1> QED BY <1>1, <1>5, <1>6 DEF Revokes, RowsBecome

LEMMA InvalidateRows ==
  ASSUME TypesInv, NEW r \in Requests, CompleteInvalidate(r)
  PROVE  req[r].acct \in Accounts /\ Revokes(req[r].acct)
<1> DEFINE a == req[r].acct
           s == RevokedTables(a)
           u == [s EXCEPT !.accounts[a].ver = s.accounts[a].ver + 1]
<1>0. StateTypes /\ RequestNames(req[r])
  BY DEF TypesInv
<1>1. a \in Accounts
  BY <1>0 DEF CompleteInvalidate, Stands, RequestNames, WithAccount, Completing
<1>2. \E C : db' = [u EXCEPT !.changes = C]
  BY DEF CompleteInvalidate
<1>3. s \in Tables /\ s.accounts = db.accounts
  BY <1>0, RevokedTyped
<1>4. db.accounts[a].ver + 1 \in Nat
  BY <1>0, <1>1, RowFields
<1> HIDE DEF s
<1>5. u \in Tables /\ u.accounts = [db.accounts EXCEPT ![a].ver = db.accounts[a].ver + 1]
  BY <1>1, <1>3, <1>4, RowUpdates
<1> HIDE DEF u
<1>6. db'.accounts = [db.accounts EXCEPT ![a].ver = db.accounts[a].ver + 1]
  BY <1>2, <1>5 DEF Tables
<1>7. \A b \in Accounts : db'.accounts[b] =
        IF b = a THEN [email |-> db.accounts[a].email, uid |-> db.accounts[a].uid, ver |-> db.accounts[a].ver + 1]
                 ELSE db.accounts[b]
  BY <1>0, <1>1, <1>6, Subtables DEF Rows
<1>8. \A b \in Accounts : revoked'[b] = IF b = a THEN revoked[a] + 1 ELSE revoked[b]
  BY <1>0 DEF CompleteInvalidate, StateTypes
<1> QED BY <1>1, <1>7, <1>8 DEF Revokes, RowsBecome

LEMMA FinalizeRows ==
  ASSUME TypesInv, NEW r \in Requests, CompleteFinalize(r)
  PROVE  /\ req[r].acct \in Accounts /\ req[r].email \in Emails
         /\ Readdresses(req[r].acct, req[r].email, db.accounts[req[r].acct].ver)
<1> DEFINE a == req[r].acct
           e == req[r].email
           s == RevokedTables(a)
           t == [s EXCEPT !.accounts[a].email = e]
<1>0. StateTypes /\ RequestNames(req[r])
  BY DEF TypesInv
<1>1. a \in Accounts /\ e \in Emails /\ Known(req[r].uid)
  BY <1>0
     DEF CompleteFinalize, Stands, RequestNames, WithEmail, WithAccount, WithIdentity, Completing, Addressed
<1>2. \E C : db' = [t EXCEPT !.changes = C]
  BY DEF CompleteFinalize
<1>3. s \in Tables /\ s.accounts = db.accounts
  BY <1>0, RevokedTyped
<1> HIDE DEF s
<1>4. t \in Tables /\ t.accounts = [db.accounts EXCEPT ![a].email = e]
  BY <1>1, <1>3, RowUpdates
<1> HIDE DEF t
<1>5. db'.accounts = [db.accounts EXCEPT ![a].email = e]
  BY <1>2, <1>4 DEF Tables
<1>6. \A b \in Accounts : db'.accounts[b] =
        IF b = a THEN [email |-> e, uid |-> db.accounts[a].uid, ver |-> db.accounts[a].ver] ELSE db.accounts[b]
  BY <1>0, <1>1, <1>5, Subtables DEF Rows
<1>7. db.accounts[a].uid # None /\ OwnerOf(e) \in {None, a} /\ revoked' = revoked
  BY <1>1, NoneAssumption DEF CompleteFinalize, FreeFor, SameAccount, Known, OnlyTables
<1> QED BY <1>1, <1>6, <1>7 DEF Readdresses, RowsBecome

RowsChange ==
  \/ RowsKept
  \/ \E a \in Accounts, e \in Emails : InsertsPlain(a, e)
  \/ \E a \in Accounts, e \in Emails, u \in Uids : InsertsLinked(a, e, u)
  \/ \E a \in Accounts, u \in Uids : Links(a, u)
  \/ \E a \in Accounts : Revokes(a)
  \/ \E a \in Accounts, e \in Emails, v \in Nat : Readdresses(a, e, v)

(* The operations that change an account.                                  *)
MovesRow(r) ==
  \/ LoginInsert(r) \/ VerifyCodeInsert(r) \/ VerifyLink(r) \/ LinkUpdate(r) \/ LinkInsert(r)
  \/ VerifyReconcile(r) \/ CompleteFinalize(r) \/ ResetBump(r) \/ CompleteInvalidate(r)

LEMMA RowsMove == ASSUME TypesInv, AccountNext PROVE RowsKept \/ \E r \in Requests : MovesRow(r)
<1>0. StateTypes
  BY DEF TypesInv
<1>1. UNCHANGED <<db, revoked>> => RowsKept
  BY DEF RowsKept
<1>2. db'.accounts = db.accounts /\ revoked' = revoked => RowsKept
  BY DEF RowsKept
<1>3. CASE OtherStep
  BY <1>0, <1>2, <1>3
     DEF OtherStep, StoreNext, UseStaleSession, SignOut, Tick, Hosted, Recover, CancelBrowserAuth,
         OnlyTables, StateTypes, Tables
<1>4. ASSUME NEW r \in Requests, HandlerStep(r) PROVE RowsKept \/ MovesRow(r)
  <2> USE <1>0 DEF MovesRow, StateTypes, Tables, OnlyRequests, OnlyTables
  <2>11. CASE LoginStep(r)
    BY <2>11, <1>1, <1>2
       DEF LoginStep, LoginSnapshot, LoginAuthenticate, LoginResolve, LoginOwner, LoginReserved,
           LoginReselect, LoginConfirm, LoginRecheck, LoginClear, LoginChallenge, LoginSend
  <2>12. CASE VerifyStep(r)
    <3>1. CASE VerifyRevoke(r)
      BY <3>1, <1>2, RevokedTyped DEF VerifyRevoke
    <3> QED BY <2>12, <3>1, <1>1, <1>2
         DEF VerifyStep, VerifyAttempt, VerifyWrong, VerifyCompare, VerifyConsume, VerifyAccount,
             VerifyLinked, VerifyChange, VerifyReread, VerifyMint, Mint
  <2>13. CASE ResetStep(r)
    BY <2>13, <1>1, <1>2
       DEF ResetStep, RequestReset, ResetCheck, ResetFind, ResetSessions, ResetChallenges, ResetApply
  <2>14. CASE CodeStep(r)
    BY <2>14, <1>1, <1>2
       DEF CodeStep, UpsertCode, SendFails, AttemptCode, WrongCode, ConsumeCode, VerifyCodeReserved,
           VerifyCodeAccount, VerifyCodeMint, Mint, InsertProof
  <2>15. CASE EnrollStep(r)
    BY <2>15, <1>1, <1>2
       DEF EnrollStep, EnrollLease, EnrollRelease, EnrollSignUp, EnrollSignIn, LinkRead, EnrollLinked,
           EnrollSessions, EnrollChallenges, EnrollConsume, EnrollMint, Mint
  <2>16. CASE ChangeStep(r)
    BY <2>16, <1>1, <1>2
       DEF ChangeStep, ChangeAuthenticate, ChangeReread, ChangeSignIn, ChangeDropExpired, ChangeOwner,
           ChangePending,
           ChangeDeleteOwn, ChangeInsert, ChangeSend, ChangeRefused
  <2>17. CASE CompleteStep(r)
    BY <2>17, <1>1, <1>2
       DEF CompleteStep, CompleteInspect, CompleteFind, CompleteOwner, CompleteApply, CompleteRefused
  <2>18. CASE BrowserStep(r)
    BY <2>18, <1>1, <1>2
       DEF BrowserStep, StartBrowserAuth, ApproveSession, ApproveGrant, PollBrowserAuth, PollAccount, PollMint
  <2> QED BY <1>4, <2>11, <2>12, <2>13, <2>14, <2>15, <2>16, <2>17, <2>18 DEF HandlerStep
<1> QED BY <1>0, <1>3, <1>4, StepCases

LEMMA RowsStep == ASSUME TypesInv, AccountNext PROVE RowsChange
<1>0. StateTypes
  BY DEF TypesInv
<1>1. CASE RowsKept
  BY <1>1 DEF RowsChange
<1>2. ASSUME NEW r \in Requests, MovesRow(r) PROVE RowsChange
  <2>1. req[r] \in RequestRecords /\ RequestNames(req[r])
    BY <1>0 DEF TypesInv, StateTypes
  <2> DEFINE x == req[r]
  <2> USE <1>0, <1>1, <2>1
  <2>2. CASE LoginInsert(r)
    <3>1. x.email \in Emails
      BY <2>2 DEF LoginInsert, Stands, RequestNames, WithEmail, Addressed
    <3> QED BY <2>2, <3>1, InsertRows DEF LoginInsert, OnlyTables, RowsChange
  <2>3. CASE VerifyCodeInsert(r)
    <3>1. x.email \in Emails
      BY <2>3 DEF VerifyCodeInsert, Stands, RequestNames, WithEmail, Addressed
    <3> QED BY <2>3, <3>1, InsertRows DEF VerifyCodeInsert, OnlyTables, RowsChange
  <2>4. CASE VerifyLink(r)
    <3>1. x.acct \in Accounts /\ Known(x.uid) /\ x.uid \in Uids
      BY <2>4 DEF VerifyLink, Stands, RequestNames, WithAccount, WithIdentity, Verified, Known
    <3>2. revoked' = revoked /\ (UNCHANGED db \/ Link(x.acct, x.uid))
      BY <2>4 DEF VerifyLink, OnlyTables
    <3>3. CASE UNCHANGED db
      BY <3>2, <3>3 DEF RowsKept, RowsChange
    <3> QED BY <3>1, <3>2, <3>3, LinkingRows DEF RowsChange
  <2>5. CASE LinkUpdate(r)
    <3>1. x.acct \in Accounts /\ Known(x.uid) /\ x.uid \in Uids
      BY <2>5 DEF LinkUpdate, Stands, RequestNames, WithAccount, WithIdentity, EnrollBound, EnrollProven, Known
    <3> QED BY <2>5, <3>1, LinkingRows DEF LinkUpdate, OnlyTables, RowsChange
  <2>6. CASE LinkInsert(r)
    BY <2>6, LinkInsertRows DEF InsertsLinked, Known, RowsChange
  <2>7. CASE VerifyReconcile(r)
    <3>1. db.accounts[x.acct].ver + 1 \in Nat
      BY <2>7, ReconcileRows, RowFields
    <3> QED BY <2>7, <3>1, ReconcileRows DEF RowsChange
  <2>8. CASE CompleteFinalize(r)
    BY <2>8, FinalizeRows, RowFields DEF RowsChange
  <2>9. CASE ResetBump(r)
    BY <2>9, BumpRows DEF RowsChange
  <2>10. CASE CompleteInvalidate(r)
    BY <2>10, InvalidateRows DEF RowsChange
  <2> QED BY <1>2, <2>2, <2>3, <2>4, <2>5, <2>6, <2>7, <2>8, <2>9, <2>10 DEF MovesRow
<1> QED BY <1>1, <1>2, RowsMove

(* The ways in which a step changes the other tables.  A row that is       *)
(* counted, leased or marked stays the row it was.                         *)
SameChallenge(c, d) ==
  /\ c.id = d.id /\ c.acct = d.acct /\ c.uid = d.uid /\ c.ver = d.ver /\ c.email = d.email /\ c.shown = d.shown
SameCode(c, d)   == c.id = d.id /\ c.purpose = d.purpose /\ c.email = d.email
SameProof(p, q)  == p.id = q.id /\ p.email = q.email
SameChange(c, d) == c.acct = d.acct /\ c.old = d.old /\ c.new = d.new /\ c.uid = d.uid
ChallengesKept ==
  \A c, d \in db'.challenges : \E e, f \in db.challenges : SameChallenge(c, e) /\ SameChallenge(d, f) /\ (e = f => c = d)
CodesKept ==
  \A c, d \in db'.codes : \E e, f \in db.codes : SameCode(c, e) /\ SameCode(d, f) /\ (e = f => c = d)
ProofsKept ==
  \A c, d \in db'.proofs : \E e, f \in db.proofs : SameProof(c, e) /\ SameProof(d, f) /\ (e = f => c = d)
ChangesKept ==
  \A c, d \in db'.changes : \E e, f \in db.changes : SameChange(c, e) /\ SameChange(d, f) /\ (e = f => c = d)
SessionsKept   == db'.sessions \subseteq db.sessions /\ minted' = minted
GrantsKept     == db'.grants \subseteq db.grants
LinksKept      == firebase'.links \subseteq firebase.links
AllKept ==
  ChallengesKept /\ CodesKept /\ ProofsKept /\ ChangesKept /\ SessionsKept /\ GrantsKept /\ LinksKept

(* A step that writes no table, or only deletes, keeps what is there.      *)
LEMMA NothingChanged == ASSUME UNCHANGED <<db, firebase, minted>> PROVE AllKept
BY DEF AllKept, ChallengesKept, CodesKept, ProofsKept, ChangesKept, SessionsKept, GrantsKept, LinksKept,
       SameChallenge, SameCode, SameProof, SameChange

LEMMA LessKept ==
  /\ db'.challenges \subseteq db.challenges => ChallengesKept
  /\ db'.codes \subseteq db.codes => CodesKept
  /\ db'.proofs \subseteq db.proofs => ProofsKept
  /\ db'.changes \subseteq db.changes => ChangesKept
BY DEF ChallengesKept, CodesKept, ProofsKept, ChangesKept, SameChallenge, SameCode, SameProof, SameChange

(* What each operation keeps, and its statement that writes a new row.     *)
LEMMA LoginKeeps ==
  ASSUME TypesInv, NEW r \in Requests, LoginStep(r)
  PROVE  /\ CodesKept /\ ProofsKept /\ ChangesKept /\ SessionsKept /\ GrantsKept /\ LinksKept
         /\ ChallengesKept \/ LoginChallenge(r)
<1>0. StateTypes
  BY DEF TypesInv
<1>1. OnlyRequests => AllKept
  BY NothingChanged DEF OnlyRequests
<1> USE <1>0
    DEF AllKept, ChallengesKept, CodesKept, ProofsKept, ChangesKept, SessionsKept, GrantsKept, LinksKept,
        SameChallenge, SameCode, SameProof, SameChange, OnlyTables, StateTypes, Tables
<1>2. CASE LoginInsert(r)
  BY <1>2, <1>1 DEF LoginInsert, InsertAccount
<1>3. CASE LoginClear(r)
  BY <1>3 DEF LoginClear
<1>4. CASE LoginChallenge(r)
  BY <1>4 DEF LoginChallenge
<1>5. CASE LoginSend(r)
  <2> DEFINE m(d) == [d EXCEPT !.sent = TRUE]
  <2>1. PICK mailed \in BOOLEAN :
          db' = [db EXCEPT !.challenges = {c \in db.challenges : c.id # r}
                   \cup IF mailed THEN {m(c) : c \in {c \in db.challenges : c.id = r}} ELSE {}]
    BY <1>5 DEF LoginSend
  <2>2. \A d \in db.challenges : SameChallenge(m(d), d)
    BY DEF ChallengeRows
  <2> HIDE DEF m
  <2>3. \A c \in db'.challenges :
          (c \in db.challenges /\ c.id # r) \/ \E d \in db.challenges : d.id = r /\ c = m(d)
    BY <2>1
  <2>4. ChallengesKept
    BY ONLY <2>2, <2>3 DEF ChallengesKept, SameChallenge
  <2> QED BY <1>5, <2>1, <2>4 DEF LoginSend
<1>6. CASE \/ \E e \in Emails, p \in Passwords : LoginSnapshot(r, e, p)
           \/ LoginAuthenticate(r) \/ LoginResolve(r) \/ LoginOwner(r) \/ LoginReserved(r)
           \/ LoginReselect(r) \/ LoginConfirm(r) \/ LoginRecheck(r)
  BY <1>6, <1>1
     DEF LoginSnapshot, LoginAuthenticate, LoginResolve, LoginOwner, LoginReserved, LoginReselect,
         LoginConfirm, LoginRecheck
<1> QED BY <1>2, <1>3, <1>4, <1>5, <1>6 DEF LoginStep

LEMMA VerifyKeeps ==
  ASSUME TypesInv, NEW r \in Requests, VerifyStep(r)
  PROVE  /\ CodesKept /\ ProofsKept /\ ChangesKept /\ ChallengesKept /\ GrantsKept /\ LinksKept
         /\ SessionsKept \/ VerifyMint(r)
<1>0. StateTypes
  BY DEF TypesInv
<1>1. OnlyRequests => AllKept
  BY NothingChanged DEF OnlyRequests
<1> USE <1>0
    DEF AllKept, ChallengesKept, CodesKept, ProofsKept, ChangesKept, SessionsKept, GrantsKept, LinksKept,
        SameChallenge, SameCode, SameProof, SameChange, OnlyTables, StateTypes, Tables
<1>2. ASSUME NEW c \in db.challenges, NEW right \in BOOLEAN, VerifyAttempt(r, c, right) PROVE AllKept
  <2>1. db' = [db EXCEPT !.challenges = (@ \ {c}) \cup {[c EXCEPT !.attempts = c.attempts + 1]}]
    BY <1>2 DEF VerifyAttempt
  <2> QED BY <1>2, <2>1 DEF VerifyAttempt, ChallengeRows
<1>3. CASE VerifyWrong(r) \/ VerifyConsume(r)
  <2>1. db'.challenges \subseteq db.challenges
    BY <1>3 DEF VerifyWrong, VerifyConsume, Consumed
  <2>2. ChallengesKept
    BY <2>1, LessKept
  <2> QED BY <1>3, <2>2 DEF VerifyWrong, VerifyConsume
<1>4. CASE VerifyLink(r)
  BY <1>4 DEF VerifyLink, Link
<1>5. CASE VerifyRevoke(r)
  BY <1>5, RevokedTyped DEF VerifyRevoke
<1>6. CASE VerifyReconcile(r)
  <2> DEFINE a == req[r].acct
             e == req[r].email
             s == RevokedTables(a)
             t == [s EXCEPT !.accounts[a].email = e]
             u == [t EXCEPT !.accounts[a].ver = s.accounts[a].ver + 1]
  <2>1. a \in Accounts /\ e \in Emails /\ db.accounts[a].ver + 1 \in Nat
    BY <1>6, ReconcileRows, RowFields
  <2>2. db' = [u EXCEPT !.changes = {change \in s.changes : change.acct # a}]
    BY <1>6 DEF VerifyReconcile
  <2>3. /\ s \in Tables /\ s.accounts = db.accounts /\ s.sessions \subseteq db.sessions
        /\ s.challenges \subseteq db.challenges /\ s.grants \subseteq db.grants
        /\ s.codes = db.codes /\ s.proofs = db.proofs /\ s.changes = db.changes
    BY RevokedTyped
  <2> HIDE DEF s
  <2>4. /\ t \in Tables /\ t.sessions = s.sessions /\ t.challenges = s.challenges /\ t.grants = s.grants
        /\ t.codes = s.codes /\ t.proofs = s.proofs /\ t.changes = s.changes
    BY <2>1, <2>3, RowUpdates
  <2> HIDE DEF t
  <2>5. /\ u \in Tables /\ u.sessions = s.sessions /\ u.challenges = s.challenges /\ u.grants = s.grants
        /\ u.codes = s.codes /\ u.proofs = s.proofs /\ u.changes = s.changes
    BY <2>1, <2>3, <2>4, RowUpdates
  <2> HIDE DEF u
  <2>6. /\ db'.challenges \subseteq db.challenges /\ db'.changes \subseteq db.changes
        /\ db'.codes = db.codes /\ db'.proofs = db.proofs
        /\ db'.sessions \subseteq db.sessions /\ db'.grants \subseteq db.grants
    BY <2>2, <2>3, <2>5
  <2> QED BY <1>6, <2>6, LessKept DEF VerifyReconcile
<1>7. CASE VerifyMint(r)
  BY <1>7 DEF VerifyMint, Mint
<1>8. CASE VerifyCompare(r) \/ VerifyAccount(r) \/ VerifyLinked(r) \/ VerifyChange(r) \/ VerifyReread(r)
  BY <1>8, <1>1 DEF VerifyCompare, VerifyAccount, VerifyLinked, VerifyChange, VerifyReread
<1> QED BY <1>2, <1>3, <1>4, <1>5, <1>6, <1>7, <1>8 DEF VerifyStep

LEMMA ResetKeeps ==
  ASSUME TypesInv, NEW r \in Requests, ResetStep(r)
  PROVE  /\ CodesKept /\ ProofsKept /\ ChangesKept /\ ChallengesKept /\ GrantsKept /\ SessionsKept
         /\ LinksKept \/ \E u \in Uids : RequestReset(r, u)
<1>0. StateTypes
  BY DEF TypesInv
<1>1. OnlyRequests => AllKept
  BY NothingChanged DEF OnlyRequests
<1> USE <1>0
    DEF AllKept, ChallengesKept, CodesKept, ProofsKept, ChangesKept, SessionsKept, GrantsKept, LinksKept,
        SameChallenge, SameCode, SameProof, SameChange, OnlyTables, StateTypes, Tables, Providers
<1>2. CASE \E u \in Uids : RequestReset(r, u)
  BY <1>2 DEF RequestReset
<1>3. CASE ResetBump(r)
  BY <1>3 DEF ResetBump
<1>4. CASE ResetSessions(r) \/ ResetChallenges(r)
  BY <1>4 DEF ResetSessions, ResetChallenges
<1>5. CASE ResetApply(r)
  BY <1>5 DEF ResetApply
<1>6. CASE (\E link \in firebase.links, p \in Passwords : ResetCheck(r, link, p)) \/ ResetFind(r)
  BY <1>6, <1>1 DEF ResetCheck, ResetFind
<1> QED BY <1>2, <1>3, <1>4, <1>5, <1>6 DEF ResetStep

LEMMA CodeKeeps ==
  ASSUME TypesInv, NEW r \in Requests, CodeStep(r)
  PROVE  /\ ChangesKept /\ ChallengesKept /\ GrantsKept /\ LinksKept
         /\ CodesKept \/ \E e \in Emails, purpose \in {"legacyCode", "enrollmentCode"} : UpsertCode(r, purpose, e)
         /\ ProofsKept \/ InsertProof(r)
         /\ SessionsKept \/ VerifyCodeMint(r)
<1>0. StateTypes
  BY DEF TypesInv
<1>1. OnlyRequests => AllKept
  BY NothingChanged DEF OnlyRequests
<1> USE <1>0
    DEF AllKept, ChallengesKept, CodesKept, ProofsKept, ChangesKept, SessionsKept, GrantsKept, LinksKept,
        SameChallenge, SameCode, SameProof, SameChange, OnlyTables, StateTypes, Tables
<1>2. CASE \E e \in Emails, purpose \in {"legacyCode", "enrollmentCode"} : UpsertCode(r, purpose, e)
  BY <1>2 DEF UpsertCode
<1>3. ASSUME NEW e \in Emails, NEW right \in BOOLEAN, NEW purpose, NEW op, AttemptCode(r, op, purpose, e, right)
      PROVE  AllKept
  <2>1. PICK c \in CodeFor(purpose, e) : db' = [db EXCEPT !.codes = (@ \ {c}) \cup {[c EXCEPT !.attempts = c.attempts + 1]}]
    BY <1>3 DEF AttemptCode
  <2>2. c \in CodeRows /\ c \in db.codes
    BY DEF CodeFor
  <2> QED BY <1>3, <2>1, <2>2 DEF AttemptCode, CodeRows
<1>4. ASSUME NEW op, NEW purpose, WrongCode(r, op, purpose) PROVE AllKept
  BY <1>4 DEF WrongCode
<1>5. ASSUME NEW op, NEW purpose, NEW next, ConsumeCode(r, op, purpose, next) PROVE AllKept
  BY <1>5 DEF ConsumeCode
<1>6. CASE SendFails(r)
  BY <1>6 DEF SendFails
<1>7. CASE VerifyCodeInsert(r)
  BY <1>7, <1>1 DEF VerifyCodeInsert, InsertAccount
<1>8. CASE VerifyCodeMint(r)
  BY <1>8 DEF VerifyCodeMint, Mint
<1>9. CASE InsertProof(r)
  BY <1>9 DEF InsertProof
<1>10. CASE VerifyCodeReserved(r) \/ VerifyCodeAccount(r)
  BY <1>10, <1>1 DEF VerifyCodeReserved, VerifyCodeAccount
<1> QED BY <1>2, <1>3, <1>4, <1>5, <1>6, <1>7, <1>8, <1>9, <1>10 DEF CodeStep

LEMMA EnrollKeeps ==
  ASSUME TypesInv, NEW r \in Requests, EnrollStep(r)
  PROVE  /\ CodesKept /\ ProofsKept /\ ChangesKept /\ ChallengesKept /\ GrantsKept /\ LinksKept
         /\ SessionsKept \/ EnrollMint(r)
<1>0. StateTypes
  BY DEF TypesInv
<1>1. OnlyRequests => AllKept
  BY NothingChanged DEF OnlyRequests
<1> USE <1>0
    DEF AllKept, ChallengesKept, CodesKept, ProofsKept, ChangesKept, SessionsKept, GrantsKept, LinksKept,
        SameChallenge, SameCode, SameProof, SameChange, OnlyTables, StateTypes, Tables
<1>2. ASSUME NEW proof \in db.proofs, NEW p \in Passwords, EnrollLease(r, proof, p) PROVE AllKept
  BY <1>2 DEF EnrollLease, ProofRows
<1>3. CASE EnrollRelease(r)
  <2> DEFINE m(q) == [q EXCEPT !.until = 0]
  <2>1. db' = [db EXCEPT !.proofs = (@ \ LeasedBy(r)) \cup {m(q) : q \in LeasedBy(r)}]
    BY <1>3 DEF EnrollRelease
  <2>2. \A q \in db.proofs : SameProof(m(q), q)
    BY DEF ProofRows
  <2> HIDE DEF m
  <2>3. \A p \in db'.proofs : (p \in db.proofs /\ p \notin LeasedBy(r)) \/ \E q \in LeasedBy(r) : p = m(q)
    BY <2>1
  <2>4. LeasedBy(r) \subseteq db.proofs
    BY DEF LeasedBy
  <2>5. ProofsKept
    BY ONLY <2>2, <2>3, <2>4 DEF ProofsKept, SameProof
  <2> QED BY <1>3, <2>1, <2>5 DEF EnrollRelease
<1>4. CASE EnrollSignUp(r)
  <2>1. firebase'.links = firebase.links
    BY <1>4 DEF EnrollSignUp, Providers
  <2> QED BY <1>4, <2>1 DEF EnrollSignUp
<1>5. CASE LinkInsert(r) \/ LinkUpdate(r)
  BY <1>5 DEF LinkInsert, LinkUpdate, Link
<1>6. CASE EnrollSessions(r) \/ EnrollChallenges(r) \/ EnrollConsume(r)
  BY <1>6 DEF EnrollSessions, EnrollChallenges, EnrollConsume
<1>7. CASE EnrollMint(r)
  BY <1>7 DEF EnrollMint, Mint
<1>8. CASE EnrollSignIn(r) \/ LinkRead(r) \/ EnrollLinked(r)
  BY <1>8, <1>1 DEF EnrollSignIn, LinkRead, EnrollLinked
<1> QED BY <1>2, <1>3, <1>4, <1>5, <1>6, <1>7, <1>8 DEF EnrollStep

LEMMA ChangeKeeps ==
  ASSUME TypesInv, NEW r \in Requests, ChangeStep(r)
  PROVE  /\ CodesKept /\ ProofsKept /\ ChallengesKept /\ GrantsKept /\ SessionsKept
         /\ LinksKept \/ ChangeSend(r)
         /\ ChangesKept \/ ChangeInsert(r)
<1>0. StateTypes
  BY DEF TypesInv
<1>1. OnlyRequests => AllKept
  BY NothingChanged DEF OnlyRequests
<1> USE <1>0
    DEF AllKept, ChallengesKept, CodesKept, ProofsKept, ChangesKept, SessionsKept, GrantsKept, LinksKept,
        SameChallenge, SameCode, SameProof, SameChange, OnlyTables, StateTypes, Tables
<1>2. CASE ChangeDropExpired(r) \/ ChangeDeleteOwn(r) \/ ChangeRefused(r)
  BY <1>2 DEF ChangeDropExpired, ChangeDeleteOwn, ChangeRefused
<1>3. CASE ChangeInsert(r) \/ ChangeSend(r)
  BY <1>3 DEF ChangeInsert, ChangeSend
<1>4. CASE \/ \E s \in db.sessions, e \in Emails, p \in Passwords : ChangeAuthenticate(r, s, e, p)
           \/ ChangeReread(r) \/ ChangeSignIn(r) \/ ChangeOwner(r) \/ ChangePending(r)
  BY <1>4, <1>1 DEF ChangeAuthenticate, ChangeReread, ChangeSignIn, ChangeOwner, ChangePending
<1> QED BY <1>2, <1>3, <1>4 DEF ChangeStep

LEMMA CompleteKeeps ==
  ASSUME TypesInv, NEW r \in Requests, CompleteStep(r)
  PROVE  AllKept
<1>0. StateTypes
  BY DEF TypesInv
<1>1. OnlyRequests => AllKept
  BY NothingChanged DEF OnlyRequests
<1> USE <1>0
    DEF AllKept, ChallengesKept, CodesKept, ProofsKept, ChangesKept, SessionsKept, GrantsKept, LinksKept,
        SameChallenge, SameCode, SameProof, SameChange, OnlyTables, StateTypes, Tables
<1> DEFINE a == req[r].acct
           e == req[r].email
           s == RevokedTables(a)
<1>2. /\ s \in Tables /\ s.accounts = db.accounts /\ s.sessions \subseteq db.sessions
      /\ s.challenges \subseteq db.challenges /\ s.grants \subseteq db.grants
      /\ s.codes = db.codes /\ s.proofs = db.proofs /\ s.changes = db.changes
  BY RevokedTyped
<1>3. CASE CompleteInvalidate(r)
  <2> DEFINE u == [s EXCEPT !.accounts[a].ver = s.accounts[a].ver + 1]
  <2>1. a \in Accounts /\ db.accounts[a].ver + 1 \in Nat
    BY <1>3, InvalidateRows, RowFields
  <2> DEFINE m(c) == [c EXCEPT !.ver = req[r].ver + 1, !.status = "applying", !.until = req[r].now + LeaseTicks]
  <2>2. PICK change \in TheChange(r) : db' = [u EXCEPT !.changes = (s.changes \ {change}) \cup {m(change)}]
    BY <1>3 DEF CompleteInvalidate
  <2>3. change \in db.changes /\ SameChange(m(change), change)
    BY DEF TheChange, ChangeOf, ChangeRows
  <2> HIDE DEF s, m
  <2>4. /\ u \in Tables /\ u.sessions = s.sessions /\ u.challenges = s.challenges /\ u.grants = s.grants
        /\ u.codes = s.codes /\ u.proofs = s.proofs /\ u.changes = s.changes
    BY <1>2, <2>1, RowUpdates
  <2> HIDE DEF u
  <2>5. /\ db'.changes = (db.changes \ {change}) \cup {m(change)}
        /\ db'.challenges \subseteq db.challenges /\ db'.codes = db.codes /\ db'.proofs = db.proofs
        /\ db'.sessions \subseteq db.sessions /\ db'.grants \subseteq db.grants
    BY <1>2, <2>2, <2>4
  <2>6. ChangesKept
    BY ONLY <2>3, <2>5 DEF ChangesKept, SameChange
  <2> QED BY <1>3, <2>5, <2>6, LessKept DEF CompleteInvalidate
<1>4. CASE CompleteFinalize(r)
  <2> DEFINE t == [s EXCEPT !.accounts[a].email = e]
  <2>1. a \in Accounts /\ e \in Emails
    BY <1>4, FinalizeRows
  <2>2. \E change : db' = [t EXCEPT !.changes = s.changes \ {change}]
    BY <1>4 DEF CompleteFinalize
  <2> HIDE DEF s
  <2>3. /\ t \in Tables /\ t.sessions = s.sessions /\ t.challenges = s.challenges /\ t.grants = s.grants
        /\ t.codes = s.codes /\ t.proofs = s.proofs /\ t.changes = s.changes
    BY <1>2, <2>1, RowUpdates
  <2> HIDE DEF t
  <2>4. /\ db'.challenges \subseteq db.challenges /\ db'.changes \subseteq db.changes
        /\ db'.codes = db.codes /\ db'.proofs = db.proofs
        /\ db'.sessions \subseteq db.sessions /\ db'.grants \subseteq db.grants
    BY <1>2, <2>2, <2>3
  <2> QED BY <1>4, <2>4, LessKept DEF CompleteFinalize
<1>5. CASE CompleteApply(r)
  <2>1. firebase'.links \subseteq firebase.links
    BY <1>5 DEF CompleteApply, AppliedFor, Applied, Providers
  <2> QED BY <1>5, <2>1 DEF CompleteApply
<1>6. CASE CompleteRefused(r)
  <2> DEFINE m(c) == [c EXCEPT !.status = "pending", !.until = 0]
             own  == {c \in TheChange(r) : OwnLease(r, c)}
  <2>1. db' = [db EXCEPT !.changes = {c \in @ : ~(c \in TheChange(r) /\ OwnLease(r, c))} \cup {m(c) : c \in own}]
    BY <1>6 DEF CompleteRefused
  <2>2. \A c \in db.changes : SameChange(m(c), c)
    BY DEF ChangeRows
  <2> HIDE DEF m
  <2>3. \A c \in db'.changes : (c \in db.changes /\ c \notin own) \/ \E d \in own : c = m(d)
    BY <2>1
  <2>4. own \subseteq db.changes
    BY DEF TheChange, ChangeOf
  <2> HIDE DEF own
  <2>5. ChangesKept
    BY ONLY <2>2, <2>3, <2>4 DEF ChangesKept, SameChange
  <2> QED BY <1>6, <2>1, <2>5 DEF CompleteRefused
<1>7. CASE (\E link \in firebase.links : CompleteInspect(r, link)) \/ CompleteFind(r) \/ CompleteOwner(r)
  BY <1>7, <1>1 DEF CompleteInspect, CompleteFind, CompleteOwner
<1> QED BY <1>3, <1>4, <1>5, <1>6, <1>7 DEF CompleteStep

LEMMA BrowserKeeps ==
  ASSUME TypesInv, NEW r \in Requests, BrowserStep(r)
  PROVE  /\ CodesKept /\ ProofsKept /\ ChangesKept /\ ChallengesKept /\ LinksKept
         /\ SessionsKept \/ PollMint(r)
         /\ GrantsKept \/ StartBrowserAuth(r) \/ ApproveGrant(r)
<1>0. StateTypes
  BY DEF TypesInv
<1>1. OnlyRequests => AllKept
  BY NothingChanged DEF OnlyRequests
<1> USE <1>0
    DEF AllKept, ChallengesKept, CodesKept, ProofsKept, ChangesKept, SessionsKept, GrantsKept, LinksKept,
        SameChallenge, SameCode, SameProof, SameChange, OnlyTables, StateTypes, Tables
<1>2. CASE StartBrowserAuth(r) \/ PollAccount(r)
  BY <1>2 DEF StartBrowserAuth, PollAccount
<1>3. CASE ApproveGrant(r)
  <2>1. PICK s, G : db' = [db EXCEPT !.sessions = db.sessions \ {s}, !.grants = G]
    BY <1>3 DEF ApproveGrant, ApprovedBy
  <2>2. firebase' = firebase /\ minted' = minted
    BY <1>3 DEF ApproveGrant
  <2> QED BY ONLY <1>0, <1>3, <2>1, <2>2
<1>4. CASE PollMint(r)
  <2>1. \E S, G : db' = [db EXCEPT !.sessions = S, !.grants = db.grants \ G]
    BY <1>4 DEF PollMint
  <2> QED BY <1>4, <2>1 DEF PollMint
<1>5. CASE \/ \E s \in db.sessions, g \in db.grants : ApproveSession(r, s, g)
           \/ \E g \in db.grants : PollBrowserAuth(r, g)
  BY <1>5, <1>1 DEF ApproveSession, PollBrowserAuth
<1> QED BY <1>2, <1>3, <1>4, <1>5 DEF BrowserStep

LEMMA OtherKeeps == ASSUME TypesInv, OtherStep PROVE AllKept
<1>0. StateTypes
  BY DEF TypesInv
<1> USE <1>0
    DEF AllKept, ChallengesKept, CodesKept, ProofsKept, ChangesKept, SessionsKept, GrantsKept, LinksKept,
        SameChallenge, SameCode, SameProof, SameChange, OnlyTables, StateTypes, Tables
<1>1. CASE StoreNext \/ \E g \in db.grants : CancelBrowserAuth(g)
  BY <1>1 DEF StoreNext, UseStaleSession, SignOut, Tick, CancelBrowserAuth
<1>2. CASE \E link \in firebase.links : Hosted(link)
  <2>1. firebase'.links \subseteq firebase.links /\ db' = db /\ minted' = minted
    BY <1>2 DEF Hosted, Applied, Providers
  <2> QED BY ONLY <1>0, <2>1
<1>3. CASE \E u \in Uids, e \in Emails : Recover(u, e)
  <2>1. firebase'.links \subseteq firebase.links /\ db' = db /\ minted' = minted
    BY <1>3 DEF Recover, Providers
  <2> QED BY ONLY <1>0, <2>1
<1> QED BY <1>1, <1>2, <1>3 DEF OtherStep

-------------------------------------------------------------------------------
(***************************************************************************)
(* The types of everything                                                 *)
(***************************************************************************)

(* The identifier of a row or a link.                                      *)
Found(i) == \E c \in db.challenges \cup db.codes \cup db.proofs \cup db.grants \cup firebase.links : i = c.id
LEMMA FoundIds ==
  /\ \A c \in db.challenges : Found(c.id)
  /\ \A c \in db.codes : Found(c.id)
  /\ \A p \in db.proofs : Found(p.id)
  /\ \A g \in db.grants : Found(g.id)
  /\ \A l \in firebase.links : Found(l.id)
BY DEF Found

(* A handler keeps to its requests: it begins one, or goes on with one     *)
(* that has not ended, and is done once it has sent something.             *)
Works(r, ops) ==
  /\ req[r] = Unstarted \/ req[r].op \in ops
  /\ req'[r] = Ended \/ req'[r].op \in ops
  /\ req[r].at = "send" => req'[r] = Ended
  /\ req'[r].id \in {Past, req[r].id} \/ Found(req'[r].id)

LEMMA LoginWorks == ASSUME TypesInv, NEW r \in Requests, LoginStep(r) PROVE Works(r, {"login"})
<1>0. StateTypes /\ req[r] \in RequestRecords
  BY DEF TypesInv, StateTypes
<1> USE <1>0, FoundIds, EndedIs
        DEF StateTypes, Works, Past, Stands, Begins, Becomes, Goes, Ends, New, Unstarted, RequestRecords
<1>1. CASE \E e \in Emails, p \in Passwords : LoginSnapshot(r, e, p)
  BY <1>1 DEF LoginSnapshot
<1>2. CASE LoginAuthenticate(r)
  BY <1>2 DEF LoginAuthenticate
<1>3. CASE LoginResolve(r)
  BY <1>3 DEF LoginResolve
<1>4. CASE LoginOwner(r)
  BY <1>4 DEF LoginOwner
<1>5. CASE LoginReserved(r)
  BY <1>5 DEF LoginReserved
<1>6. CASE LoginInsert(r)
  BY <1>6 DEF LoginInsert
<1>7. CASE LoginReselect(r)
  BY <1>7 DEF LoginReselect
<1>8. CASE LoginConfirm(r)
  BY <1>8 DEF LoginConfirm
<1>9. CASE LoginRecheck(r)
  BY <1>9 DEF LoginRecheck
<1>10. CASE LoginClear(r)
  BY <1>10 DEF LoginClear
<1>11. CASE LoginChallenge(r)
  BY <1>11 DEF LoginChallenge
<1>12. CASE LoginSend(r)
  BY <1>12 DEF LoginSend
<1> QED BY <1>1, <1>2, <1>3, <1>4, <1>5, <1>6, <1>7, <1>8, <1>9, <1>10, <1>11, <1>12 DEF LoginStep

LEMMA VerifyWorks == ASSUME TypesInv, NEW r \in Requests, VerifyStep(r) PROVE Works(r, {"verify"})
<1>0. StateTypes /\ req[r] \in RequestRecords
  BY DEF TypesInv, StateTypes
<1> USE <1>0, FoundIds, EndedIs
        DEF StateTypes, Works, Past, Stands, Begins, Becomes, Goes, Ends, New, Unstarted, RequestRecords
<1>1. CASE \E c \in db.challenges, right \in BOOLEAN : VerifyAttempt(r, c, right)
  BY <1>1 DEF VerifyAttempt
<1>2. CASE VerifyWrong(r)
  BY <1>2 DEF VerifyWrong
<1>3. CASE VerifyCompare(r)
  BY <1>3 DEF VerifyCompare
<1>4. CASE VerifyConsume(r)
  BY <1>4 DEF VerifyConsume
<1>5. CASE VerifyAccount(r)
  BY <1>5 DEF VerifyAccount
<1>6. CASE VerifyLink(r)
  BY <1>6 DEF VerifyLink
<1>7. CASE VerifyRevoke(r)
  BY <1>7 DEF VerifyRevoke
<1>8. CASE VerifyLinked(r)
  BY <1>8 DEF VerifyLinked
<1>9. CASE VerifyChange(r)
  BY <1>9 DEF VerifyChange
<1>10. CASE VerifyReconcile(r)
  BY <1>10 DEF VerifyReconcile
<1>11. CASE VerifyReread(r)
  BY <1>11 DEF VerifyReread
<1>12. CASE VerifyMint(r)
  BY <1>12 DEF VerifyMint, Mint
<1> QED BY <1>1, <1>2, <1>3, <1>4, <1>5, <1>6, <1>7, <1>8, <1>9, <1>10, <1>11, <1>12 DEF VerifyStep

LEMMA ResetWorks == ASSUME TypesInv, NEW r \in Requests, ResetStep(r) PROVE Works(r, {"reset"})
<1>0. StateTypes /\ req[r] \in RequestRecords
  BY DEF TypesInv, StateTypes
<1> USE <1>0, FoundIds, EndedIs
        DEF StateTypes, Works, Past, Stands, Begins, Becomes, Goes, Ends, New, Unstarted, RequestRecords
<1>1. ASSUME NEW u \in Uids, RequestReset(r, u) PROVE Works(r, {"reset"})
  BY <1>1 DEF RequestReset
<1>7. ASSUME NEW link \in firebase.links, NEW p \in Passwords, ResetCheck(r, link, p) PROVE Works(r, {"reset"})
  BY <1>7 DEF ResetCheck
<1>2. CASE ResetFind(r)
  BY <1>2 DEF ResetFind
<1>3. CASE ResetBump(r)
  BY <1>3 DEF ResetBump
<1>4. CASE ResetSessions(r)
  BY <1>4 DEF ResetSessions
<1>5. CASE ResetChallenges(r)
  BY <1>5 DEF ResetChallenges
<1>6. CASE ResetApply(r)
  BY <1>6 DEF ResetApply
<1> QED BY <1>1, <1>2, <1>3, <1>4, <1>5, <1>6, <1>7 DEF ResetStep

CodeOps == {"legacyCode", "enrollmentCode", "verifyCode", "verifyEnrollment"}
LEMMA CodeWorks == ASSUME TypesInv, NEW r \in Requests, CodeStep(r) PROVE Works(r, CodeOps)
<1>0. StateTypes /\ req[r] \in RequestRecords
  BY DEF TypesInv, StateTypes
<1> USE <1>0, FoundIds, EndedIs
        DEF StateTypes, Works, Past, Stands, Begins, Becomes, Goes, Ends, New, Unstarted, RequestRecords,
            CodeOps
<1>1. ASSUME NEW e \in Emails, NEW purpose \in {"legacyCode", "enrollmentCode"}, UpsertCode(r, purpose, e)
      PROVE  Works(r, CodeOps)
  BY <1>1 DEF UpsertCode
<1>20. CASE SendFails(r)
  BY <1>20 DEF SendFails
<1>2. ASSUME NEW e \in Emails, NEW right \in BOOLEAN, AttemptCode(r, "verifyCode", "legacyCode", e, right)
      PROVE  Works(r, CodeOps)
  <2>1. PICK c \in db.codes :
          Becomes(r, [New("verifyCode", IF right THEN "consume" ELSE "wrong") EXCEPT
                        !.email = e, !.id = c.id, !.n = c.attempts + 1])
    BY <1>2 DEF AttemptCode, CodeFor
  <2>2. req[r] = Unstarted
    BY <1>2 DEF AttemptCode
  <2> QED BY <2>1, <2>2
<1>21. ASSUME NEW e \in Emails, NEW right \in BOOLEAN, AttemptCode(r, "verifyEnrollment", "enrollmentCode", e, right)
      PROVE  Works(r, CodeOps)
  <2>1. PICK c \in db.codes :
          Becomes(r, [New("verifyEnrollment", IF right THEN "consume" ELSE "wrong") EXCEPT
                        !.email = e, !.id = c.id, !.n = c.attempts + 1])
    BY <1>21 DEF AttemptCode, CodeFor
  <2>2. req[r] = Unstarted
    BY <1>21 DEF AttemptCode
  <2> QED BY <2>1, <2>2
<1>3. CASE WrongCode(r, "verifyCode", "legacyCode")
  BY <1>3 DEF WrongCode
<1>31. CASE WrongCode(r, "verifyEnrollment", "enrollmentCode")
  BY <1>31 DEF WrongCode
<1>32. CASE ConsumeCode(r, "verifyCode", "legacyCode", "insert")
  BY <1>32 DEF ConsumeCode
<1>33. CASE ConsumeCode(r, "verifyEnrollment", "enrollmentCode", "prove")
  BY <1>33 DEF ConsumeCode
<1>4. CASE VerifyCodeInsert(r)
  BY <1>4 DEF VerifyCodeInsert
<1>5. CASE VerifyCodeReserved(r)
  BY <1>5 DEF VerifyCodeReserved
<1>6. CASE VerifyCodeAccount(r)
  BY <1>6 DEF VerifyCodeAccount
<1>7. CASE VerifyCodeMint(r)
  BY <1>7 DEF VerifyCodeMint, Mint
<1>8. CASE InsertProof(r)
  BY <1>8 DEF InsertProof
<1> QED BY <1>1, <1>2, <1>3, <1>31, <1>32, <1>33, <1>4, <1>5, <1>6, <1>7, <1>8, <1>20, <1>21 DEF CodeStep

LEMMA EnrollWorks == ASSUME TypesInv, NEW r \in Requests, EnrollStep(r) PROVE Works(r, {"enroll"})
<1>0. StateTypes /\ req[r] \in RequestRecords
  BY DEF TypesInv, StateTypes
<1> USE <1>0, FoundIds, EndedIs
        DEF StateTypes, Works, Past, Stands, Begins, Becomes, Goes, Ends, New, Unstarted, RequestRecords
<1>1. ASSUME NEW proof \in db.proofs, NEW p \in Passwords, EnrollLease(r, proof, p) PROVE Works(r, {"enroll"})
  BY <1>1 DEF EnrollLease
<1>20. CASE EnrollRelease(r)
  BY <1>20 DEF EnrollRelease
<1>2. CASE EnrollSignUp(r)
  <2>1. Goes(r, "signin") \/ \E u \in Uids : Becomes(r, [req[r] EXCEPT !.at = "linkInsert", !.uid = u])
    BY <1>2 DEF EnrollSignUp
  <2>2. req[r].op = "enroll" /\ req[r].at = "signup"
    BY <1>2 DEF EnrollSignUp
  <2>3. CASE Goes(r, "signin")
    BY <2>2, <2>3
  <2>4. ASSUME NEW u \in Uids, Becomes(r, [req[r] EXCEPT !.at = "linkInsert", !.uid = u])
        PROVE  Works(r, {"enroll"})
    BY <2>2, <2>4
  <2> QED BY <2>1, <2>3, <2>4
<1>3. CASE EnrollSignIn(r)
  BY <1>3 DEF EnrollSignIn
<1>4. CASE LinkInsert(r)
  BY <1>4 DEF LinkInsert
<1>5. CASE LinkRead(r)
  BY <1>5 DEF LinkRead
<1>6. CASE LinkUpdate(r)
  BY <1>6 DEF LinkUpdate
<1>7. CASE EnrollLinked(r)
  BY <1>7 DEF EnrollLinked
<1>8. CASE EnrollSessions(r)
  BY <1>8 DEF EnrollSessions
<1>9. CASE EnrollChallenges(r)
  BY <1>9 DEF EnrollChallenges
<1>10. CASE EnrollConsume(r)
  BY <1>10 DEF EnrollConsume
<1>11. CASE EnrollMint(r)
  BY <1>11 DEF EnrollMint, Mint
<1> QED BY <1>1, <1>2, <1>3, <1>4, <1>5, <1>6, <1>7, <1>8, <1>9, <1>10, <1>11, <1>20 DEF EnrollStep

LEMMA ChangeWorks == ASSUME TypesInv, NEW r \in Requests, ChangeStep(r) PROVE Works(r, {"changeEmail"})
<1>0. StateTypes /\ req[r] \in RequestRecords
  BY DEF TypesInv, StateTypes
<1> USE <1>0, FoundIds, EndedIs
        DEF StateTypes, Works, Past, Stands, Begins, Becomes, Goes, Ends, New, Unstarted, RequestRecords
<1>1. CASE \E s \in db.sessions, e \in Emails, p \in Passwords : ChangeAuthenticate(r, s, e, p)
  BY <1>1 DEF ChangeAuthenticate
<1>2. CASE ChangeReread(r)
  BY <1>2 DEF ChangeReread
<1>3. CASE ChangeSignIn(r)
  BY <1>3 DEF ChangeSignIn
<1>4. CASE ChangeDropExpired(r)
  BY <1>4 DEF ChangeDropExpired
<1>5. CASE ChangeOwner(r)
  BY <1>5 DEF ChangeOwner
<1>6. CASE ChangePending(r)
  BY <1>6 DEF ChangePending
<1>7. CASE ChangeDeleteOwn(r)
  BY <1>7 DEF ChangeDeleteOwn
<1>8. CASE ChangeInsert(r)
  BY <1>8 DEF ChangeInsert
<1>9. CASE ChangeSend(r)
  BY <1>9 DEF ChangeSend
<1>10. CASE ChangeRefused(r)
  BY <1>10 DEF ChangeRefused
<1> QED BY <1>1, <1>2, <1>3, <1>4, <1>5, <1>6, <1>7, <1>8, <1>9, <1>10 DEF ChangeStep

(* What the callback of a change works for never changes.                  *)
LEMMA CompleteWorks ==
  ASSUME TypesInv, NEW r \in Requests, CompleteStep(r)
  PROVE  /\ Works(r, {"completeChange"})
         /\ \/ req'[r] = Ended
            \/ \E link \in firebase.links : CompleteInspect(r, link)
            \/ /\ req[r].op = "completeChange" /\ req'[r].op = "completeChange"
               /\ req'[r].id = req[r].id /\ req'[r].email = req[r].email /\ req'[r].old = req[r].old
<1>0. StateTypes /\ req[r] \in RequestRecords
  BY DEF TypesInv, StateTypes
<1> USE <1>0, FoundIds, EndedIs
        DEF StateTypes, Works, Past, Stands, Begins, Becomes, Goes, Ends, New, Unstarted, RequestRecords
<1>1. ASSUME NEW link \in firebase.links, CompleteInspect(r, link) PROVE Works(r, {"completeChange"})
  BY <1>1 DEF CompleteInspect
<1>2. CASE CompleteFind(r)
  BY <1>2 DEF CompleteFind
<1>3. CASE CompleteOwner(r)
  BY <1>3 DEF CompleteOwner
<1>4. CASE CompleteInvalidate(r)
  BY <1>4 DEF CompleteInvalidate
<1>5. CASE CompleteApply(r)
  BY <1>5 DEF CompleteApply
<1>6. CASE CompleteRefused(r)
  BY <1>6 DEF CompleteRefused
<1>7. CASE CompleteFinalize(r)
  BY <1>7 DEF CompleteFinalize
<1> QED BY <1>1, <1>2, <1>3, <1>4, <1>5, <1>6, <1>7 DEF CompleteStep

BrowserOps == {"browserApprove", "browserPoll"}
LEMMA BrowserWorks == ASSUME TypesInv, NEW r \in Requests, BrowserStep(r) PROVE Works(r, BrowserOps)
<1>0. StateTypes /\ req[r] \in RequestRecords
  BY DEF TypesInv, StateTypes
<1> USE <1>0, FoundIds, EndedIs
        DEF StateTypes, Works, Past, Stands, Begins, Becomes, Goes, Ends, New, Unstarted, RequestRecords,
            BrowserOps
<1>1. CASE StartBrowserAuth(r)
  BY <1>1 DEF StartBrowserAuth
<1>2. ASSUME NEW s \in db.sessions, NEW g \in db.grants, ApproveSession(r, s, g) PROVE Works(r, BrowserOps)
  BY <1>2 DEF ApproveSession
<1>3. CASE ApproveGrant(r)
  BY <1>3 DEF ApproveGrant
<1>4. ASSUME NEW g \in db.grants, PollBrowserAuth(r, g) PROVE Works(r, BrowserOps)
  BY <1>4 DEF PollBrowserAuth
<1>5. CASE PollAccount(r)
  BY <1>5 DEF PollAccount
<1>6. CASE PollMint(r)
  BY <1>6 DEF PollMint
<1> QED BY <1>1, <1>2, <1>3, <1>4, <1>5, <1>6 DEF BrowserStep

LEMMA HandlerWorks ==
  ASSUME TypesInv, NEW r \in Requests, HandlerStep(r)
  PROVE  req[r] # Ended /\ (req[r].at = "send" => req'[r] = Ended)
<1>1. \E ops : "none" \notin ops /\ Works(r, ops)
  BY LoginWorks, VerifyWorks, ResetWorks, CodeWorks, EnrollWorks, ChangeWorks, CompleteWorks, BrowserWorks
     DEF HandlerStep, CodeOps, BrowserOps
<1> QED BY <1>1 DEF Works, Ended, Unstarted

LEMMA FinishedStays == ASSUME TypesInv, AccountNext, NEW i, Finished(i), i \in Origins PROVE Finished(i)'
<1>1. CASE OtherStep
  BY <1>1, OtherTables DEF Finished
<1>2. ASSUME NEW r \in Requests, HandlerStep(r) PROVE Finished(i)'
  BY <1>2, HandlerTurn, HandlerWorks DEF Finished, Origins
<1> QED BY <1>1, <1>2, StepCases DEF TypesInv

(* A row that is new was written by one operation.                         *)
LEMMA TablesStep ==
  ASSUME TypesInv, AccountNext
  PROVE  /\ ChallengesKept \/ \E r \in Requests : LoginChallenge(r)
         /\ ChangesKept \/ \E r \in Requests : ChangeInsert(r)
         /\ GrantsKept \/ \E r \in Requests : StartBrowserAuth(r) \/ ApproveGrant(r)
         /\ LinksKept \/ \E r \in Requests : ChangeSend(r) \/ \E u \in Uids : RequestReset(r, u)
<1>1. CASE OtherStep
  BY <1>1, OtherKeeps DEF AllKept
<1>2. ASSUME NEW r \in Requests, HandlerStep(r)
      PROVE  /\ ChallengesKept \/ LoginChallenge(r)
             /\ ChangesKept \/ ChangeInsert(r)
             /\ GrantsKept \/ StartBrowserAuth(r) \/ ApproveGrant(r)
             /\ LinksKept \/ ChangeSend(r) \/ \E u \in Uids : RequestReset(r, u)
  BY <1>2, LoginKeeps, VerifyKeeps, ResetKeeps, CodeKeeps, EnrollKeeps, ChangeKeeps, CompleteKeeps, BrowserKeeps
     DEF HandlerStep, AllKept
<1> QED BY <1>1, <1>2, StepCases DEF TypesInv

LEMMA GrowStep == ASSUME TypesInv, AccountNext PROVE IdentitiesGrow
BY HandlerGrows, OtherGrows, StepCases DEF TypesInv

LEMMA NamesStep == ASSUME TypesInv, AccountNext, NEW q \in Requests PROVE RequestNames(req[q])'
<1>1. IdentitiesGrow
  BY GrowStep
<1>2. RequestNames(req[q])
  BY DEF TypesInv
<1>3. ASSUME req'[q] = req[q] PROVE RequestNames(req[q])'
  BY <1>1, <1>2, <1>3
     DEF RequestNames, WithEmail, WithAccount, WithIdentity, WithPassword, Known, IdentitiesGrow
<1>4. CASE OtherStep
  BY <1>3, <1>4, OtherTables
<1>5. ASSUME NEW r \in Requests, HandlerStep(r) PROVE RequestNames(req[q])'
  <2>1. CASE q = r
    BY <1>1, <1>5, <2>1, LoginNames, VerifyNames, ResetNames, CodeNames, EnrollNames, ChangeNames,
       CompleteNames, BrowserNames
       DEF HandlerStep
  <2>2. CASE q # r
    BY <1>3, <1>5, <2>2, HandlerTurn
  <2> QED BY <2>1, <2>2
<1> QED BY <1>4, <1>5, StepCases DEF TypesInv

LEMMA RowsNamed ==
  ASSUME TypesInv, AccountNext, NEW a \in Accounts, db'.accounts[a].uid # None
  PROVE  Known(db.accounts[a].uid)'
<1>1. IdentitiesGrow /\ RowsChange /\ (db.accounts[a].uid # None => Known(db.accounts[a].uid))
  BY GrowStep, RowsStep DEF TypesInv
<1>2. Known(db'.accounts[a].uid)
  <2>1. CASE RowsKept
    BY <1>1, <2>1 DEF RowsKept
  <2>2. ASSUME NEW b \in Accounts, NEW row, NEW n, RowsBecome(b, row, n), row.uid = None \/ Known(row.uid)
        PROVE  Known(db'.accounts[a].uid)
    BY <1>1, <2>2 DEF RowsBecome
  <2>3. ASSUME NEW b \in Accounts, Revokes(b) \/ \E e \in Emails, v \in Nat : Readdresses(b, e, v)
        PROVE  Known(db'.accounts[a].uid)
    BY <2>2, <2>3 DEF Revokes, Readdresses, TypesInv
  <2> QED BY <1>1, <2>1, <2>2, <2>3 DEF RowsChange, InsertsPlain, InsertsLinked, Inserts, Links
<1> QED BY <1>1, <1>2 DEF Known, IdentitiesGrow

LEMMA ChallengesNamed == ASSUME TypesInv, AccountNext, NEW c \in db'.challenges PROVE Known(c.uid)'
<1>0. StateTypes /\ IdentitiesGrow
  BY GrowStep DEF TypesInv
<1>1. Known(c.uid)
  <2>1. CASE ChallengesKept
    BY <2>1 DEF ChallengesKept, SameChallenge, TypesInv
  <2>2. ASSUME NEW r \in Requests, LoginChallenge(r) PROVE Known(c.uid)
    <3>1. Known(req[r].uid)
      BY <2>2 DEF TypesInv, LoginChallenge, Stands, RequestNames, WithIdentity, LoginProven
    <3>2. c \in db.challenges \/ c.uid = req[r].uid
      BY <1>0, <2>2 DEF LoginChallenge, StateTypes, Tables
    <3> QED BY <3>1, <3>2 DEF TypesInv
  <2> QED BY <2>1, <2>2, TablesStep
<1> QED BY <1>0, <1>1 DEF Known, IdentitiesGrow

LEMMA ChangesNamed == ASSUME TypesInv, AccountNext, NEW c \in db'.changes PROVE Known(c.uid)' /\ c.old # c.new
<1>0. StateTypes /\ IdentitiesGrow
  BY GrowStep DEF TypesInv
<1>1. Known(c.uid) /\ c.old # c.new
  <2>1. CASE ChangesKept
    BY <2>1 DEF ChangesKept, SameChange, TypesInv
  <2>2. ASSUME NEW r \in Requests, ChangeInsert(r) PROVE Known(c.uid) /\ c.old # c.new
    <3>1. Known(req[r].uid) /\ req[r].old # req[r].email
      BY <2>2 DEF TypesInv, ChangeInsert, Stands, RequestNames, WithIdentity
    <3>2. c \in db.changes \/ (c.uid = req[r].uid /\ c.old = req[r].old /\ c.new = req[r].email)
      BY <1>0, <2>2 DEF ChangeInsert, StateTypes, Tables
    <3> QED BY <3>1, <3>2 DEF TypesInv
  <2> QED BY <2>1, <2>2, TablesStep
<1> QED BY <1>0, <1>1 DEF Known, IdentitiesGrow

LEMMA GrantsNamed ==
  ASSUME TypesInv, AccountNext, NEW g \in db'.grants
  PROVE  g.status = "approved" <=> g.acct \in Accounts
<1>0. StateTypes
  BY DEF TypesInv
<1>1. CASE g \in db.grants
  BY <1>1 DEF TypesInv
<1>2. ASSUME NEW r \in Requests, StartBrowserAuth(r), g \notin db.grants
      PROVE  g.status = "approved" <=> g.acct \in Accounts
  <2>1. g.status = "pending" /\ g.acct = None
    BY <1>0, <1>2 DEF StartBrowserAuth, StateTypes, Tables
  <2> QED BY <2>1, NoneAssumption
<1>3. ASSUME NEW r \in Requests, ApproveGrant(r), g \notin db.grants
      PROVE  g.status = "approved" <=> g.acct \in Accounts
  <2>1. PICK h \in db.grants, s \in db.sessions :
          g = [h EXCEPT !.status = "approved", !.acct = s.acct, !.ver = s.ver, !.by = r, !.shown = s.shown, !.used = s.by]
    <3> DEFINE z(h, s) == [h EXCEPT !.status = "approved", !.acct = s.acct, !.ver = s.ver, !.by = r, !.shown = s.shown, !.used = s.by]
    <3>1. PICK h \in db.grants, s \in db.sessions :
            db' = [db EXCEPT !.sessions = ApprovedBy(s), !.grants = (@ \ {h}) \cup {z(h, s)}]
      BY <1>3 DEF ApproveGrant, GrantOf
    <3> HIDE DEF z
    <3>2. db'.grants = (db.grants \ {h}) \cup {z(h, s)}
      BY <1>0, <3>1 DEF StateTypes, Tables
    <3> QED BY <1>3, <3>2 DEF z
  <2>2. h \in GrantRows /\ s.acct \in Accounts
    BY <1>0, Subtables DEF SessionRows
  <2> QED BY <2>1, <2>2 DEF GrantRows
<1> QED BY <1>1, <1>2, <1>3, TablesStep DEF GrantsKept

(* A link is named for the request that sent it, which is over.            *)
LEMMA NewLinks ==
  ASSUME TypesInv, AccountNext, NEW l \in firebase'.links, l \notin firebase.links
  PROVE  \E r \in Requests :
           /\ HandlerStep(r) /\ l.id = r /\ req[r] # Ended /\ req'[r] = Ended
           /\ Known(l.uid) /\ (l.kind = "change" => l.new \in Emails)
           /\ \A m \in firebase'.links : m \in firebase.links \/ m = l
<1>0. StateTypes
  BY DEF TypesInv
<1>1. CASE \E r \in Requests : ChangeSend(r)
  <2>1. PICK r \in Requests : ChangeSend(r)
    BY <1>1
  <2>2. Known(req[r].uid) /\ req[r].email \in Emails /\ req[r] # Ended
    BY <2>1 DEF TypesInv, ChangeSend, Stands, RequestNames, WithIdentity, WithEmail, Addressed, Ended, Unstarted
  <2>3. \A m \in firebase'.links : m \in firebase.links \/ m =
          [id |-> r, kind |-> "change", uid |-> req[r].uid, email |-> req[r].old, new |-> req[r].email]
    BY <1>0, <2>1 DEF ChangeSend, StateTypes, Providers
  <2>4. req'[r] = Ended
    BY <1>0, <2>1 DEF ChangeSend, Ends, Becomes, StateTypes
  <2> QED BY <2>1, <2>2, <2>3, <2>4 DEF HandlerStep, ChangeStep
<1>2. CASE \E r \in Requests, u \in Uids : RequestReset(r, u)
  <2>1. PICK r \in Requests, u \in Uids : RequestReset(r, u)
    BY <1>2
  <2>2. Known(u) /\ req[r] # Ended
    BY <1>0, <2>1, LinkUpdates DEF RequestReset, Begins, Known, Ended, Unstarted
  <2>3. \A m \in firebase'.links : m \in firebase.links \/ m =
          [id |-> r, kind |-> "reset", uid |-> u, email |-> firebase.ids[u].email, new |-> None]
    BY <1>0, <2>1 DEF RequestReset, StateTypes, Providers
  <2>4. req'[r] = Ended
    BY <1>0, <2>1 DEF RequestReset, Ends, Becomes, StateTypes
  <2> QED BY <2>1, <2>2, <2>3, <2>4 DEF HandlerStep, ResetStep
<1> QED BY <1>1, <1>2, TablesStep DEF LinksKept

LEMMA LinksStep == ASSUME TypesInv, AccountNext PROVE LinksOnce'
<1>0. StateTypes /\ LinksOnce /\ IdentitiesGrow
  BY GrowStep DEF TypesInv
<1>1. Requests \subseteq Nat \ {0}
  BY RequestsAssumption
<1>2. \A l \in firebase.links : l.id \in Origins /\ Finished(l.id) /\ Finished(l.id)'
  BY <1>0, LinkUpdates, FinishedStays DEF LinkRows, LinksOnce
<1>3. ASSUME NEW l \in firebase'.links
      PROVE  Finished(l.id)' /\ Known(l.uid)' /\ (l.kind = "change" => l.new \in Emails)
  <2>1. Finished(l.id)'
    BY <1>2, NewLinks DEF Finished
  <2>2. Known(l.uid) /\ (l.kind = "change" => l.new \in Emails)
    BY <1>0, NewLinks DEF LinksOnce
  <2> QED BY <1>0, <2>1, <2>2 DEF Known, IdentitiesGrow
<1>4. ASSUME NEW l \in firebase'.links, NEW m \in firebase'.links, l.id = m.id PROVE l = m
  <2>1. CASE l \in firebase.links /\ m \in firebase.links
    BY <1>0, <1>4, <2>1 DEF LinksOnce
  <2>2. CASE l \notin firebase.links
    BY <1>1, <1>2, <1>4, <2>2, NewLinks DEF Finished, Past
  <2>3. CASE m \notin firebase.links
    BY <1>1, <1>2, <1>4, <2>3, NewLinks DEF Finished, Past
  <2> QED BY <2>1, <2>2, <2>3
<1> QED BY <1>3, <1>4 DEF LinksOnce

LEMMA CallbackStep == ASSUME TypesInv, AccountNext, NEW q \in Requests PROVE RequestLinks(req[q])'
<1>0. StateTypes /\ LinksOnce /\ RequestLinks(req[q]) /\ req[q] \in RequestRecords
  BY DEF TypesInv, StateTypes
<1>1. \A l \in firebase'.links : l \in firebase.links \/ (l.id # Past /\ req[l.id] # Ended)
  BY NewLinks, RequestsAssumption DEF Past
<1>2. ASSUME NEW x \in RequestRecords, x.op = "completeChange", Finished(x.id),
             \A l \in firebase.links : l.id = x.id => l.kind = "change" /\ l.new = x.email /\ l.email = x.old
      PROVE  RequestLinks(x)'
  <2>1. x.id \in Origins
    BY <1>2 DEF RequestRecords
  <2>2. Finished(x.id)'
    BY <1>2, <2>1, FinishedStays
  <2>3. \A l \in firebase'.links : l.id = x.id => l \in firebase.links
    BY <1>1, <1>2 DEF Finished
  <2> QED BY <1>2, <2>2, <2>3 DEF RequestLinks
<1>3. ASSUME req'[q] = req[q] PROVE RequestLinks(req[q])'
  BY <1>0, <1>2, <1>3 DEF RequestLinks
<1>4. CASE OtherStep
  BY <1>3, <1>4, OtherTables
<1>5. ASSUME NEW r \in Requests, HandlerStep(r) PROVE RequestLinks(req[q])'
  <2>1. req'[q] \in RequestRecords
    BY <1>5, HandlerTurn
  <2>2. CASE q # r
    BY <1>3, <1>5, <2>2, HandlerTurn
  <2>3. CASE q = r /\ req'[q].op # "completeChange"
    BY <2>3 DEF RequestLinks
  <2>4. CASE q = r /\ req'[q].op = "completeChange"
    <3>1. CompleteStep(r)
      BY <1>5, <2>4, LoginWorks, VerifyWorks, ResetWorks, CodeWorks, EnrollWorks, ChangeWorks, BrowserWorks
         DEF HandlerStep, Works, CodeOps, BrowserOps, Ended, Unstarted
    <3>2. ASSUME NEW link \in firebase.links, CompleteInspect(r, link) PROVE RequestLinks(req[q])'
      <4>1. req'[q].id = link.id /\ req'[q].email = link.new /\ req'[q].old = link.email
        BY <1>0, <2>4, <3>2 DEF CompleteInspect, Becomes, New, Unstarted, StateTypes
      <4>2. Finished(link.id) /\ link.kind = "change" /\ \A l \in firebase.links : l.id = link.id => l = link
        BY <1>0, <3>2 DEF LinksOnce, CompleteInspect
      <4> QED BY <1>2, <2>1, <2>4, <4>1, <4>2
    <3>3. CASE /\ req[r].op = "completeChange"
               /\ req'[r].id = req[r].id /\ req'[r].email = req[r].email /\ req'[r].old = req[r].old
      BY <1>0, <1>2, <2>1, <2>4, <3>3 DEF RequestLinks
    <3> QED BY <2>4, <3>1, <3>2, <3>3, CompleteWorks DEF Ended, Unstarted
  <2> QED BY <2>2, <2>3, <2>4
<1> QED BY <1>4, <1>5, StepCases DEF TypesInv

(* Together: a step keeps TypesInv.                                        *)
LEMMA TypesKept == ASSUME TypesInv, AccountNext PROVE TypesInv'
<1>1. \A u \in Uids : firebase'.held[u] # {} => Known(u)'
  BY GrowStep DEF TypesInv, Known, IdentitiesGrow
<1> QED BY <1>1, TypesStep, NamesStep, RowsNamed, ChallengesNamed, ChangesNamed, GrantsNamed, LinksStep,
           CallbackStep
        DEF TypesInv

(* What is there in the beginning.                                         *)
LEMMA AnyOf ==
  /\ Any(Accounts) \in Accounts /\ Any(Emails) \in Emails /\ Any(Uids) \in Uids /\ Any(Passwords) \in Passwords
  /\ Second(Emails) \in Emails \ {Any(Emails)}
<1>1. ASSUME NEW S, S # {} PROVE Any(S) \in S
  BY <1>1 DEF Any
<1>2. Accounts # {} /\ Uids # {} /\ Passwords # {} /\ Emails # {} /\ \A e : Emails \ {e} # {}
  BY NamesAssumption
<1> QED BY <1>1, <1>2 DEF Second

LEMMA NeighbourOf ==
  ASSUME NEW m \in Mixes, m.past \in Couples
  PROVE  /\ Second(Accounts) \in Accounts \ {Any(Accounts)} /\ Second(Uids) \in Uids \ {Any(Uids)}
         /\ Third(Emails) \in Emails \ {Any(Emails), Second(Emails)}
<1>1. ASSUME NEW S, S # {} PROVE Any(S) \in S
  BY <1>1 DEF Any
<1>2. ASSUME NEW S, Distinct(S) PROVE Second(S) \in S \ {Any(S)}
  BY <1>1, <1>2 DEF Second, Distinct
<1>3. Distinct(Accounts) /\ Distinct(Uids) /\ Distinct(Emails \ {Any(Emails)})
  BY AnyOf, MixesAssumption
<1>4. Third(Emails) \in (Emails \ {Any(Emails)}) \ {Any(Emails \ {Any(Emails)})}
  BY <1>2, <1>3 DEF Third
<1> QED BY <1>2, <1>3, <1>4 DEF Second

Passwordless == {"legacy", "unlinked", "mailed", "proven"}
Linkeds      == {"registered", "resetting", "changing", "moved"} \cup Couples
LEMMA PastRows ==
  /\ \A past \in {"empty", "orphan"} : PastRow(past) = NoAccount
  /\ \A past \in Passwordless : PastRow(past) = [email |-> Any(Emails), uid |-> None, ver |-> 0]
  /\ \A past \in Linkeds : PastRow(past) = [email |-> Any(Emails), uid |-> Any(Uids), ver |-> 1]
<1>1. ASSUME NEW past \in {"empty", "orphan"} PROVE PastRow(past) = NoAccount
  BY DEF PastRow, Couples
<1>2. ASSUME NEW past \in Passwordless PROVE PastRow(past) = [email |-> Any(Emails), uid |-> None, ver |-> 0]
  BY DEF PastRow, Passwordless, Couples
<1>3. ASSUME NEW past \in Linkeds PROVE PastRow(past) = [email |-> Any(Emails), uid |-> Any(Uids), ver |-> 1]
  BY DEF PastRow, Linkeds, Couples
<1> QED BY <1>1, <1>2, <1>3

LEMMA PastTypes ==
  ASSUME NEW past \in Pasts
  PROVE  /\ PastRow(past) \in Rows
         /\ PastRow(past).uid # None => PastRow(past).uid = Any(Uids) /\ past \in Linkeds
         /\ PastRow(past).uid # None => PastRow(past).email = Any(Emails) /\ PastRow(past).ver = 1
<1>1. past \in {"empty", "orphan"} \/ past \in Passwordless \/ past \in Linkeds
  BY DEF Pasts, Passwordless, Linkeds
<1> QED BY <1>1, PastRows, AnyOf, NoneAssumption DEF Rows, NoAccount

(* The accounts in the beginning: one at the most, or two neighbours.      *)
LEMMA InitRows ==
  ASSUME StoreInit, NEW a \in Accounts
  PROVE  \/ db.accounts[a] = NoAccount
         \/ a = Any(Accounts) /\ db.accounts[a] = PastRow(mix.past)
         \/ a = Second(Accounts) /\ mix.past \in Couples /\ db.accounts[a] = NeighbourRow
BY DEF StoreInit

(* The identities in the beginning: each has verified its address.         *)
LEMMA InitIdentities ==
  ASSUME StoreInit, NEW u \in Uids
  PROVE  /\ firebase.ids[u] = PastIdentity(PastAddress(u, mix.past)) /\ firebase.held[u] = PastHeld(u, mix.past)
         /\ firebase.crossed[u] = {}
         /\ PastAddress(u, mix.past) \in Emails \cup {None}
         /\ PastHeld(u, mix.past) \subseteq Emails
         /\ PastAddress(u, mix.past) = None => firebase.ids[u] = NoIdentity /\ firebase.held[u] = {}
         /\ PastAddress(u, mix.past) # None =>
              /\ firebase.ids[u] \in Identities /\ firebase.ids[u].email = PastAddress(u, mix.past)
              /\ PastAddress(u, mix.past) \in PastHeld(u, mix.past)
         /\ u = Any(Uids) /\ mix.past \notin {"empty", "legacy"} => Known(u) /\ Any(Emails) \in firebase.held[u]
         /\ u = Second(Uids) /\ mix.past \in Couples => Known(u) /\ Third(Emails) \in firebase.held[u]
<1> DEFINE p == PastAddress(u, mix.past)
<1>1. /\ firebase.ids[u] = PastIdentity(p) /\ firebase.held[u] = PastHeld(u, mix.past) /\ firebase.crossed[u] = {}
      /\ mix \in Mixes
  BY DEF StoreInit
<1>2. /\ mix.past \in Couples => Third(Emails) \in Emails /\ Second(Uids) # Any(Uids)
      /\ Any(Emails) \in Emails /\ Second(Emails) \in Emails
  BY <1>1, NeighbourOf, AnyOf
<1>3. p \in Emails \cup {None}
  BY <1>2 DEF PastAddress, Couples
<1>4. /\ u = Any(Uids) /\ mix.past \notin {"empty", "legacy"} => p \in Emails
      /\ u = Second(Uids) /\ mix.past \in Couples => p \in Emails
  BY <1>2 DEF PastAddress, Couples
<1>5. /\ p = None => PastHeld(u, mix.past) = {}
      /\ p # None => p \in PastHeld(u, mix.past)
      /\ PastHeld(u, mix.past) \subseteq Emails
      /\ p # None /\ u = Any(Uids) => Any(Emails) \in PastHeld(u, mix.past)
  BY <1>2, <1>3 DEF PastHeld
<1>6. u = Second(Uids) /\ mix.past \in Couples => Third(Emails) \in PastHeld(u, mix.past)
  <2>1. CASE mix.past = "crossed" /\ u = Second(Uids)
    BY <1>2, <1>4, <2>1, NoneAssumption DEF PastHeld, Couples
  <2>2. CASE mix.past = "reserved" /\ u = Second(Uids)
    BY <1>2, <1>4, <2>2, NoneAssumption DEF PastHeld, PastAddress, Couples
  <2> QED BY <2>1, <2>2 DEF Couples
<1>7. /\ p = None => PastIdentity(p) = NoIdentity
      /\ p # None => PastIdentity(p) = [email |-> p, pw |-> Any(Passwords)]
  BY DEF PastIdentity
<1> HIDE DEF p
<1>8. p # None => firebase.ids[u] \in Identities /\ firebase.ids[u].email = p
  BY <1>1, <1>3, <1>7, AnyOf DEF Identities
<1> QED BY <1>1, <1>3, <1>4, <1>5, <1>6, <1>7, <1>8, NoneAssumption DEF p, Known

LEMMA PastIs ==
  /\ \A past : PastCode(past) \in CodeRows /\ PastProof(past) \in ProofRows
  /\ PastChange \in ChangeRows /\ PastChange.old # PastChange.new /\ PastChange.uid = Any(Uids)
  /\ \A m \in Mixes : m.past \in {"resetting", "changing"} \cup Couples =>
       /\ PastLink(m.past) \in LinkRows /\ PastLink(m.past).id = Past
       /\ PastLink(m.past).uid = IF m.past = "crossed" THEN Second(Uids) ELSE Any(Uids)
       /\ PastLink(m.past).kind = "change" => PastLink(m.past).new \in Emails
<1>1. \A past : PastMailbox(past) \in Emails
  BY AnyOf DEF PastMailbox
<1>2. \A past : PastCode(past) \in CodeRows /\ PastProof(past) \in ProofRows
  BY <1>1, TicksAssumption DEF PastCode, PastProof, CodeRows, ProofRows, Origins, Past
<1>3. PastChange \in ChangeRows /\ PastChange.old # PastChange.new /\ PastChange.uid = Any(Uids)
  BY AnyOf, TicksAssumption DEF PastChange, ChangeRows
<1>4. ASSUME NEW m \in Mixes, m.past \in {"resetting", "changing"} \cup Couples
      PROVE  /\ PastLink(m.past) \in LinkRows /\ PastLink(m.past).id = Past
             /\ PastLink(m.past).uid = IF m.past = "crossed" THEN Second(Uids) ELSE Any(Uids)
             /\ PastLink(m.past).kind = "change" => PastLink(m.past).new \in Emails
  <2>1. m.past = "crossed" => Second(Uids) \in Uids
    BY NeighbourOf DEF Couples
  <2> QED BY <2>1, AnyOf DEF PastLink, LinkRows, Origins
<1> QED BY <1>2, <1>3, <1>4

LEMMA InitTypes == ASSUME StoreInit PROVE StateTypes
<1>1. mix \in Mixes /\ mix.past \in Pasts
  BY MixesAssumption DEF StoreInit
<1>2. PastSession(mix.past) \in SessionRows
  <2>1. PastRow(mix.past).ver \in Nat
    BY <1>1, PastTypes DEF Rows
  <2>2. mix.past \in Couples => Second(Accounts) \in Accounts
    BY <1>1, NeighbourOf
  <2> QED BY <2>1, <2>2, AnyOf DEF PastSession, SessionOf, SessionRows, Origins, Grants, Past
<1>3. db.accounts \in [Accounts -> Rows]
  <2>1. mix.past \in Couples => NeighbourRow \in Rows
    BY <1>1, NeighbourOf DEF NeighbourRow, Rows
  <2>2. \A a \in Accounts : db.accounts[a] \in Rows
    <3>1. NoAccount \in Rows /\ PastRow(mix.past) \in Rows
      BY <1>1, PastTypes DEF Rows, NoAccount
    <3> QED BY <2>1, <3>1, InitRows
  <2> QED BY <2>2 DEF StoreInit
<1>4. db \in Tables
  <2>1. db = [accounts |-> db.accounts,
              sessions |-> {PastSession(past) : past \in {mix.past} \ {"empty", "orphan"}},
              challenges |-> {}, codes |-> {PastCode(past) : past \in {mix.past} \cap {"mailed", "moved"}},
              proofs |-> {PastProof(past) : past \in {mix.past} \cap {"proven", "moved"}}, grants |-> {},
              changes |-> {PastChange : past \in {mix.past} \cap ({"changing"} \cup Couples)}]
    BY DEF StoreInit
  <2> QED BY <1>2, <1>3, <2>1, PastIs DEF Tables
<1>5. firebase \in Providers
  <2>1. firebase.ids \in [Uids -> Identities \cup {NoIdentity}] /\ firebase.held \in [Uids -> SUBSET Emails]
    <3>1. \A u \in Uids : firebase.ids[u] \in Identities \cup {NoIdentity} /\ firebase.held[u] \in SUBSET Emails
      BY InitIdentities
    <3> QED BY <3>1 DEF StoreInit
  <2>2. firebase.links \subseteq LinkRows
    BY <1>1, PastIs DEF StoreInit
  <2>3. firebase.crossed = [u \in Uids |-> {}]
    BY DEF StoreInit
  <2>4. firebase = [ids |-> firebase.ids, links |-> firebase.links, held |-> firebase.held, crossed |-> firebase.crossed]
    BY DEF StoreInit
  <2> QED BY <2>1, <2>2, <2>3, <2>4 DEF Providers
<1>6. req \in [Requests -> RequestRecords]
  BY RestingRequests DEF StoreInit
<1> QED BY <1>1, <1>4, <1>5, <1>6, TicksAssumption DEF StoreInit, StateTypes

LEMMA InitTables ==
  ASSUME StoreInit
  PROVE  /\ db.challenges = {} /\ db.grants = {} /\ minted = {} /\ \A r \in Requests : req[r] = Unstarted
         /\ \A c \in db.changes : c = PastChange /\ mix.past \in {"changing"} \cup Couples
         /\ \A l \in firebase.links : l = PastLink(mix.past) /\ mix.past \in {"resetting", "changing"} \cup Couples
         /\ \A s \in db.sessions : s = PastSession(mix.past) /\ mix.past \notin {"empty", "orphan"}
         /\ \A c \in db.codes : c = PastCode(mix.past)
         /\ \A p \in db.proofs : p = PastProof(mix.past)
         /\ \A a \in Accounts : revoked[a] = 0
BY DEF StoreInit

LEMMA InitTypesInv == ASSUME StoreInit PROVE TypesInv
<1>1. StateTypes
  BY InitTypes
<1>2. \A r \in Requests : RequestNames(req[r]) /\ RequestLinks(req[r])
  BY InitTables, EndedIs
     DEF RequestNames, RequestLinks, WithEmail, WithAccount, WithIdentity, WithPassword, Addressed
<1>3. mix.past \in Pasts
  BY <1>1, MixesAssumption DEF StateTypes
<1>4. mix \in Mixes /\ (mix.past \in Couples => Second(Uids) \in Uids /\ Second(Uids) # Any(Uids))
  BY <1>1, NeighbourOf DEF StateTypes
<1>5. ASSUME NEW a \in Accounts, db.accounts[a].uid # None PROVE Known(db.accounts[a].uid)
  <2>1. CASE db.accounts[a] = PastRow(mix.past)
    <3>1. mix.past \in Linkeds /\ db.accounts[a].uid = Any(Uids)
      BY <1>3, <1>5, <2>1, PastTypes
    <3> QED BY <3>1, InitIdentities, AnyOf DEF Linkeds, Couples
  <2>2. CASE mix.past \in Couples /\ db.accounts[a] = NeighbourRow
    BY <1>4, <2>2, InitIdentities DEF NeighbourRow
  <2> QED BY <1>5, <2>1, <2>2, InitRows DEF NoAccount
<1>6. \A c \in db.changes : Known(c.uid) /\ c.old # c.new
  BY InitTables, InitIdentities, PastIs, AnyOf DEF Couples
<1>7. LinksOnce
  <2>1. ASSUME NEW l \in firebase.links PROVE Finished(l.id) /\ Known(l.uid) /\ (l.kind = "change" => l.new \in Emails)
    <3>1. l = PastLink(mix.past) /\ mix.past \in {"resetting", "changing"} \cup Couples
      BY InitTables
    <3> QED BY <1>4, <3>1, InitIdentities, PastIs, AnyOf DEF Finished, Couples
  <2> QED BY <2>1, InitTables DEF LinksOnce
<1>8. \A u \in Uids : firebase.held[u] # {} => Known(u)
  BY InitIdentities DEF Known
<1> QED BY <1>1, <1>2, <1>5, <1>6, <1>7, <1>8, InitTables DEF TypesInv

(* The tables, the identities and the requests have their types, a row and *)
(* a request name identities that Firebase has, and an action code belongs *)
(* to one request that is over.                                            *)
THEOREM AccountTypes == AccountSpec => []TypesInv
<1>1. StoreInit => TypesInv
  BY InitTypesInv
<1>2. TypesInv /\ [AccountNext]_storeVars => TypesInv'
  <2>1. TypesInv /\ AccountNext => TypesInv'
    BY TypesKept
  <2>2. TypesInv /\ UNCHANGED storeVars => TypesInv'
    BY DEF storeVars, TypesInv, StateTypes, RequestNames, WithEmail, WithAccount, WithIdentity, WithPassword,
           Known, LinksOnce, RequestLinks, Finished
  <2> QED BY <2>1, <2>2
<1> QED BY <1>1, <1>2, PTL DEF AccountSpec

(* What AccountTypeOK says of the rows of worker.ts and of what a request  *)
(* has read of them.                                                       *)
THEOREM AccountTyped == AccountSpec => []AccountTypeOK
<1>1. TypesInv => AccountTypeOK
  <2> SUFFICES ASSUME TypesInv PROVE AccountTypeOK
    OBVIOUS
  <2>1. StateTypes
    BY DEF TypesInv
  <2>2. \A s \in db.sessions : s.acct \in Accounts /\ s.ver \in Nat /\ s.by \in Requests \cup {Past}
    BY <2>1, Subtables DEF SessionRows, Origins
  <2>3. \A c \in db.challenges : c.attempts \in 0 .. MaxAttempts /\ c.acct \in Accounts /\ c.uid \in Uids
    BY <2>1, Subtables DEF ChallengeRows
  <2>4. \A c \in db.codes : c.attempts \in 0 .. MaxAttempts /\ c.email \in Emails
    BY <2>1, Subtables DEF CodeRows
  <2>5. \A c \in db.changes : c.old # c.new /\ c.acct \in Accounts
    BY <2>1, Subtables DEF TypesInv, ChangeRows
  <2>6. \A r \in Requests : req[r].ver \in Nat /\ req[r].acct \in Accounts \cup {None}
    BY <2>1 DEF StateTypes, RequestRecords
  <2> QED BY <2>1, <2>2, <2>3, <2>4, <2>5, <2>6, Subtables, LinkUpdates
          DEF TypesInv, AccountTypeOK, StateTypes, Rows, Identities
<1> QED BY <1>1, AccountTypes, PTL

-------------------------------------------------------------------------------
(***************************************************************************)
(* One row each                                                            *)
(***************************************************************************)

(* What the selects of worker.ts find.                                     *)
LEMMA NoOwner ==
  ASSUME NEW e, OwnerOf(e) = None, NEW a \in Accounts
  PROVE  db.accounts[a].email # e
BY NoneAssumption DEF OwnerOf

LEMMA NoAccountOf ==
  ASSUME NEW u, AccountOf(u) = None, NEW a \in Accounts
  PROVE  db.accounts[a].uid # u
BY NoneAssumption DEF AccountOf

LEMMA TheOwner ==
  ASSUME OneRowEach, NEW e \in Emails, NEW a \in Accounts, OwnerOf(e) \in {None, a},
         NEW b \in Accounts, b # a
  PROVE  db.accounts[b].email # e
<1>1. e # None
  BY NoneAssumption
<1>2. CASE OwnerOf(e) = None
  BY <1>2, NoOwner
<1>3. CASE OwnerOf(e) = a
  <2>1. SUFFICES ASSUME db.accounts[b].email = e PROVE FALSE
    OBVIOUS
  <2>2. db.accounts[OwnerOf(e)].email = e
    BY <2>1 DEF OwnerOf
  <2> QED BY <1>1, <1>3, <2>1, <2>2 DEF OneRowEach
<1> QED BY <1>2, <1>3

(* The unique columns stay unique: an INSERT takes an address nobody has,  *)
(* and an UPDATE gives an account one that no other has.                   *)
LEMMA RowsApart ==
  ASSUME TypesInv, OneRowEach, AccountNext, NEW a \in Accounts, NEW b \in Accounts, a # b
  PROVE  /\ db'.accounts[a].email = db'.accounts[b].email => db'.accounts[a].email = None
         /\ db'.accounts[a].uid = db'.accounts[b].uid => db'.accounts[a].uid = None
<1> DEFINE Apart(c, row) == \A d \in Accounts : c # d =>
             /\ row.email = db.accounts[d].email => row.email = None
             /\ row.uid = db.accounts[d].uid => row.uid = None
<1> DEFINE Goal == /\ db'.accounts[a].email = db'.accounts[b].email => db'.accounts[a].email = None
                   /\ db'.accounts[a].uid = db'.accounts[b].uid => db'.accounts[a].uid = None
<1>1. ASSUME NEW c \in Accounts, NEW row, NEW n, RowsBecome(c, row, n), Apart(c, row) PROVE Goal
  BY <1>1 DEF RowsBecome, OneRowEach
<1>2. CASE RowsKept
  BY <1>2 DEF RowsKept, OneRowEach
<1> HIDE DEF Goal
<1>3. ASSUME NEW c \in Accounts, NEW e \in Emails, InsertsPlain(c, e) PROVE Goal
  <2>1. Apart(c, [email |-> e, uid |-> None, ver |-> 0])
    BY <1>3, NoOwner DEF InsertsPlain, Inserts
  <2> HIDE DEF Apart
  <2> QED BY <1>1, <1>3, <2>1 DEF InsertsPlain, Inserts
<1>4. ASSUME NEW c \in Accounts, NEW e \in Emails, NEW u \in Uids, InsertsLinked(c, e, u) PROVE Goal
  <2>1. Apart(c, [email |-> e, uid |-> u, ver |-> 1])
    BY <1>4, NoOwner, NoAccountOf DEF InsertsLinked, Inserts
  <2> HIDE DEF Apart
  <2> QED BY <1>1, <1>4, <2>1 DEF InsertsLinked, Inserts
<1>5. ASSUME NEW c \in Accounts, NEW u \in Uids, Links(c, u) PROVE Goal
  <2>1. \A v : Apart(c, [email |-> db.accounts[c].email, uid |-> u, ver |-> v])
    BY <1>5, NoAccountOf DEF Links, OneRowEach
  <2> HIDE DEF Apart
  <2> QED BY <1>1, <1>5, <2>1 DEF Links
<1>6. ASSUME NEW c \in Accounts, Revokes(c) PROVE Goal
  <2>1. \A v : Apart(c, [email |-> db.accounts[c].email, uid |-> db.accounts[c].uid, ver |-> v])
    BY DEF OneRowEach
  <2> HIDE DEF Apart
  <2> QED BY <1>1, <1>6, <2>1 DEF Revokes
<1>7. ASSUME NEW c \in Accounts, NEW e \in Emails, NEW v, Readdresses(c, e, v) PROVE Goal
  <2>1. Apart(c, [email |-> e, uid |-> db.accounts[c].uid, ver |-> v])
    BY <1>7, TheOwner DEF Readdresses, OneRowEach
  <2> HIDE DEF Apart
  <2> QED BY <1>1, <1>7, <2>1 DEF Readdresses
<1> QED BY <1>2, <1>3, <1>4, <1>5, <1>6, <1>7, RowsStep DEF RowsChange, Goal

LEMMA ChallengesApart ==
  ASSUME TypesInv, OneRowEach, AccountNext, NEW c \in db'.challenges, NEW d \in db'.challenges, c.acct = d.acct
  PROVE  c = d
<1>1. CASE ChallengesKept
  BY <1>1 DEF ChallengesKept, SameChallenge, OneRowEach
<1>2. ASSUME NEW r \in Requests, LoginChallenge(r) PROVE c = d
  <2>1. ChallengesOf(req[r].acct) = {}
    BY <1>2 DEF LoginChallenge, OnlyChallenge
  <2>2. \E x : x.acct = req[r].acct /\ db'.challenges = db.challenges \cup {x}
    BY <1>2 DEF LoginChallenge, TypesInv, StateTypes, Tables
  <2> QED BY <2>1, <2>2 DEF ChallengesOf, OneRowEach
<1> QED BY <1>1, <1>2, TablesStep

LEMMA ChangesApart ==
  ASSUME TypesInv, OneRowEach, AccountNext, NEW c \in db'.changes, NEW d \in db'.changes, c.acct = d.acct \/ c.new = d.new
  PROVE  c = d
<1>1. CASE ChangesKept
  BY <1>1 DEF ChangesKept, SameChange, OneRowEach
<1>2. ASSUME NEW r \in Requests, ChangeInsert(r) PROVE c = d
  <2>1. ChangeOf(req[r].acct) = {} /\ Reserved(req[r].email) = {}
    BY <1>2 DEF ChangeInsert
  <2>2. \E x : x.acct = req[r].acct /\ x.new = req[r].email /\ db'.changes = db.changes \cup {x}
    BY <1>2 DEF ChangeInsert, TypesInv, StateTypes, Tables
  <2> QED BY <2>1, <2>2 DEF ChangeOf, Reserved, OneRowEach
<1> QED BY <1>1, <1>2, TablesStep

LEMMA InitApart == ASSUME StoreInit PROVE OneRowEach
<1>1. mix \in Mixes /\ mix.past \in Pasts
  BY MixesAssumption DEF StoreInit
<1>2. mix.past \in Couples => PastRow(mix.past) = [email |-> Any(Emails), uid |-> Any(Uids), ver |-> 1]
  BY PastRows DEF Linkeds
<1>3. mix.past \in Couples => Third(Emails) # Any(Emails) /\ Second(Uids) # Any(Uids)
  BY <1>1, NeighbourOf
<1>4. ASSUME NEW a \in Accounts, NEW b \in Accounts, a # b
      PROVE  /\ db.accounts[a].email = db.accounts[b].email => db.accounts[a].email = None
             /\ db.accounts[a].uid = db.accounts[b].uid => db.accounts[a].uid = None
  <2>1. \A c \in Accounts :
          \/ db.accounts[c] = NoAccount
          \/ c = Any(Accounts) /\ db.accounts[c] = PastRow(mix.past)
          \/ c = Second(Accounts) /\ mix.past \in Couples /\ db.accounts[c] = NeighbourRow
    BY InitRows
  <2>2. CASE db.accounts[a] = NoAccount \/ db.accounts[b] = NoAccount
    BY <2>2 DEF NoAccount
  <2>3. CASE db.accounts[a] # NoAccount /\ db.accounts[b] # NoAccount
    <3>1. \/ /\ mix.past \in Couples
             /\ db.accounts[a] = PastRow(mix.past)
             /\ db.accounts[b] = NeighbourRow
          \/ /\ mix.past \in Couples
             /\ db.accounts[b] = PastRow(mix.past)
             /\ db.accounts[a] = NeighbourRow
      BY <1>4, <2>1, <2>3
    <3> QED BY <1>2, <1>3, <3>1 DEF NeighbourRow
  <2> QED BY <2>2, <2>3
<1> QED BY <1>4, InitTables DEF OneRowEach

(* Whatever statements interleave, no two accounts have an address or an   *)
(* identity in common, and an account has one challenge and one change.    *)
THEOREM AccountRows == AccountSpec => []OneRowEach
<1>1. StoreInit => OneRowEach
  BY InitApart
<1>2. TypesInv /\ OneRowEach /\ [AccountNext]_storeVars => OneRowEach'
  <2>1. ASSUME TypesInv, OneRowEach, AccountNext PROVE OneRowEach'
    BY <2>1, RowsApart, ChallengesApart, ChangesApart DEF OneRowEach
  <2>2. OneRowEach /\ UNCHANGED storeVars => OneRowEach'
    BY DEF storeVars, OneRowEach
  <2> QED BY <2>1, <2>2
<1> QED BY <1>1, <1>2, AccountTypes, PTL DEF AccountSpec

-------------------------------------------------------------------------------
(***************************************************************************)
(* The password that was shown                                             *)
(*                                                                         *)
(* A password and what follows of it belong to a credential version of the *)
(* account; NoPassword is the same for a code of version 0.5.7, which must *)
(* not outlive the first password.                                         *)
(***************************************************************************)
AsOf(a, v, n) == v <= db.accounts[a].ver /\ (v = db.accounts[a].ver => n = revoked[a])
NoPassword(a, v) == v <= db.accounts[a].ver /\ (v = db.accounts[a].ver => db.accounts[a].uid = None)
RequestShown(x) ==
  /\ x.op = "login" /\ x.at \in {"owner", "reserved", "confirm"} /\ x.acct # None => x.ver <= db.accounts[x.acct].ver
  /\ x.op = "login" /\ x.at \in {"recheck", "clear", "challenge"} => AsOf(x.acct, x.ver, x.shown)
  /\ x.op = "verify" /\ x.at \in {"account", "link", "revoke", "linked", "change", "reconcile", "mint"} => AsOf(x.acct, x.ver, x.shown)
  /\ x.op = "verify" /\ x.at \in {"link", "revoke", "linked"} =>
       /\ NoPassword(x.acct, x.ver)
       /\ db.accounts[x.acct].ver = x.ver + 1 /\ db.accounts[x.acct].uid # None => x.shown = revoked[x.acct]
  /\ x.op = "verify" /\ x.at = "reread" => x.ver < db.accounts[x.acct].ver /\ AsOf(x.acct, x.ver + 1, x.shown)
  /\ x.op \in {"verifyCode", "enroll"} => x.shown = None
  /\ x.op = "verifyCode" /\ x.at = "mint" => NoPassword(x.acct, x.ver)
  /\ x.op = "completeChange" /\ x.at \in Completing => x.ver <= db.accounts[x.acct].ver
ShownInv ==
  /\ \A r \in Requests : RequestShown(req[r])
  /\ \A c \in db.challenges : AsOf(c.acct, c.ver, c.shown)
  /\ \A s \in db.sessions : s.shown # None => AsOf(s.acct, s.ver, s.shown)
  /\ \A s \in db.sessions : s.grant[1] = "legacyCode" => NoPassword(s.acct, s.ver)
  /\ \A g \in db.grants : g.status = "approved" /\ g.shown # None => AsOf(g.acct, g.ver, g.shown)
  /\ OneCallback

(* The credential version of an account only rises.  While it stays, no    *)
(* session is revoked and the password neither comes nor goes; a password  *)
(* comes with the next version and revokes nothing.                        *)
RowGrows(a) ==
  LET v == db.accounts[a].ver
      w == db'.accounts[a].ver
  IN  /\ v \in Nat /\ w \in Nat /\ v <= w
      /\ w = v => revoked'[a] = revoked[a] /\ (db'.accounts[a].uid = None <=> db.accounts[a].uid = None)
      /\ w # v /\ db.accounts[a].uid = None /\ db'.accounts[a].uid # None => w = v + 1 /\ revoked'[a] = revoked[a]

LEMMA RowsGrow == ASSUME TypesInv, AccountNext, NEW a \in Accounts PROVE RowGrows(a)
<1>0. /\ db.accounts[a].ver \in Nat /\ db.accounts[a].ver + 1 \in Nat /\ db.accounts[a].ver <= db.accounts[a].ver
      /\ db.accounts[a].ver <= db.accounts[a].ver + 1 /\ db.accounts[a].ver # db.accounts[a].ver + 1
  BY RowFields DEF TypesInv
<1>1. CASE RowsKept
  BY <1>0, <1>1 DEF RowsKept, RowGrows
<1>2. ASSUME NEW b \in Accounts, NEW e, NEW u, NEW v, v \in {0, 1}, v = 0 => u = None, Inserts(b, e, u, v)
      PROVE  RowGrows(a)
  BY <1>0, <1>2 DEF Inserts, RowsBecome, RowGrows, NoAccount
<1>3. ASSUME NEW b \in Accounts, NEW u, Links(b, u) PROVE RowGrows(a)
  BY <1>0, <1>3, NoneAssumption DEF Links, RowsBecome, RowGrows
<1>4. ASSUME NEW b \in Accounts, Revokes(b) PROVE RowGrows(a)
  BY <1>0, <1>4 DEF Revokes, RowsBecome, RowGrows
<1>5. ASSUME NEW b \in Accounts, NEW e, NEW v, Readdresses(b, e, v) PROVE RowGrows(a)
  BY <1>0, <1>5 DEF Readdresses, RowsBecome, RowGrows
<1> QED BY <1>1, <1>2, <1>3, <1>4, <1>5, RowsStep DEF RowsChange, InsertsPlain, InsertsLinked

LEMMA AsOfStays == ASSUME NEW a, RowGrows(a), NEW v \in Nat, NEW n, AsOf(a, v, n) PROVE AsOf(a, v, n)'
BY DEF RowGrows, AsOf

LEMMA NoPasswordStays == ASSUME NEW a, RowGrows(a), NEW v \in Nat, NoPassword(a, v) PROVE NoPassword(a, v)'
BY DEF RowGrows, NoPassword

(* A version that brought the password was brought while no session was    *)
(* revoked.                                                                *)
Brought(a, v, n) == db.accounts[a].ver = v + 1 /\ db.accounts[a].uid # None => n = revoked[a]
LEMMA BroughtStays ==
  ASSUME NEW a, RowGrows(a), NEW v \in Nat, NEW n, AsOf(a, v, n), NoPassword(a, v), Brought(a, v, n)
  PROVE  Brought(a, v, n)'
BY DEF RowGrows, AsOf, NoPassword, Brought

(* What holds of a request goes on holding while it waits.                 *)
LEMMA WaitingShown ==
  ASSUME TypesInv, AccountNext, NEW x \in RequestRecords, RequestNames(x), RequestShown(x)
  PROVE  RequestShown(x)'
<1>1. x.ver \in Nat /\ x.ver + 1 \in Nat
  BY DEF RequestRecords
<1>2. x.acct \in Accounts => RowGrows(x.acct)
  BY RowsGrow
<1>3. x.acct \in Accounts \cup {None}
  BY DEF RequestRecords
<1>4. x.op = "login" /\ x.at \in {"owner", "reserved", "confirm"} /\ x.acct # None => x.ver <= db'.accounts[x.acct].ver
  BY <1>1, <1>2, <1>3 DEF RequestShown, RowGrows
<1>5. x.op = "login" /\ x.at \in {"recheck", "clear", "challenge"} => AsOf(x.acct, x.ver, x.shown)'
  BY <1>1, <1>2, AsOfStays DEF RequestShown, RequestNames, WithAccount, LoginBound
<1>6. x.op = "verify" /\ x.at \in Verified => x.acct \in Accounts
  BY DEF RequestNames, WithAccount
<1>7. x.op = "verify" /\ x.at \in {"account", "link", "revoke", "linked", "change", "reconcile", "mint"} => AsOf(x.acct, x.ver, x.shown)'
  BY <1>1, <1>2, <1>6, AsOfStays DEF RequestShown, Verified
<1>8. x.op = "verify" /\ x.at \in {"link", "revoke", "linked"} =>
        /\ NoPassword(x.acct, x.ver)'
        /\ db'.accounts[x.acct].ver = x.ver + 1 /\ db'.accounts[x.acct].uid # None => x.shown = revoked'[x.acct]
  BY <1>1, <1>2, <1>6, NoPasswordStays, BroughtStays DEF RequestShown, Verified, Brought
<1>9. x.op = "verify" /\ x.at = "reread" => x.ver < db'.accounts[x.acct].ver /\ AsOf(x.acct, x.ver + 1, x.shown)'
  BY <1>1, <1>2, <1>6, AsOfStays DEF RequestShown, Verified, RowGrows
<1>10. x.op = "verifyCode" /\ x.at = "mint" => NoPassword(x.acct, x.ver)'
  BY <1>1, <1>2, NoPasswordStays DEF RequestShown, RequestNames, WithAccount
<1>11. x.op = "completeChange" /\ x.at \in Completing => x.ver <= db'.accounts[x.acct].ver
  BY <1>1, <1>2 DEF RequestShown, RequestNames, WithAccount, RowGrows
<1> QED BY <1>4, <1>5, <1>7, <1>8, <1>9, <1>10, <1>11 DEF RequestShown

Judged == {"login", "verify", "verifyCode", "enroll", "completeChange"}
LEMMA UnjudgedShown == ASSUME NEW x, x.op \notin Judged PROVE RequestShown(x)'
BY DEF RequestShown, Judged

(* Each operation binds what was shown to the version it has read.         *)
LEMMA LoginShown ==
  ASSUME TypesInv, ShownInv, AccountNext, NEW r \in Requests, LoginStep(r)
  PROVE  RequestShown(req[r])'
<1> DEFINE x == req[r]
           y == req'[r]
<1>0. /\ StateTypes /\ x \in RequestRecords /\ RequestNames(x) /\ RequestShown(x)
      /\ \A a \in Accounts : RowGrows(a)
  BY RowsGrow DEF TypesInv, StateTypes, ShownInv
<1>1. x.ver \in Nat /\ x.acct \in Accounts \cup {None}
  BY <1>0 DEF RequestRecords
<1>2. CASE y.at \in {"unstarted", "ended", "authenticate", "resolve", "insert", "reselect", "send"} /\ y.op \in {"login", "none"}
  BY <1>2 DEF RequestShown
<1> USE <1>0 DEF StateTypes, Stands, Becomes, Goes, RequestRecords
<1>3. CASE \/ \E e \in Emails, p \in Passwords : LoginSnapshot(r, e, p)
           \/ LoginAuthenticate(r) \/ LoginInsert(r) \/ LoginChallenge(r) \/ LoginSend(r)
  <2>1. CASE \E e \in Emails, p \in Passwords : LoginSnapshot(r, e, p)
    BY <1>2, <2>1 DEF LoginSnapshot, New, Unstarted
  <2>2. CASE LoginAuthenticate(r)
    BY <1>2, <2>2 DEF LoginAuthenticate
  <2>3. CASE LoginInsert(r) \/ LoginChallenge(r)
    BY <1>2, <2>3 DEF LoginInsert, LoginChallenge
  <2>4. CASE LoginSend(r)
    BY <1>2, <2>4, EndedIs DEF LoginSend, Ends
  <2> QED BY <1>3, <2>1, <2>2, <2>3, <2>4
<1>4. CASE LoginResolve(r)
  <2>1. y.op = "login" /\ y.at = "owner" /\ (y.acct # None => y.acct \in Accounts /\ y.ver = db'.accounts[y.acct].ver)
    BY <1>4, OwnersNamed DEF LoginResolve, OnlyRequests
  <2> QED BY <2>1 DEF RequestShown, RowGrows
<1>5. CASE LoginReselect(r)
  <2>1. y.op = "login" /\ y.at = "confirm" /\ y.acct \in Accounts /\ y.ver = db'.accounts[y.acct].ver
    BY <1>5, OwnersNamed DEF LoginReselect, OnlyRequests
  <2> QED BY <2>1 DEF RequestShown, RowGrows
<1>6. CASE LoginOwner(r) \/ LoginReserved(r)
  <2>1. /\ x.op = "login" /\ x.at \in {"owner", "reserved"} /\ y.op = "login" /\ y.at \in {"reserved", "insert", "confirm"}
        /\ y.acct = x.acct /\ y.ver = x.ver
    BY <1>6 DEF LoginOwner, LoginReserved
  <2> QED BY <1>1, <2>1 DEF RequestShown, RowGrows
<1>7. CASE LoginConfirm(r)
  <2>1. /\ x.op = "login" /\ x.at = "confirm" /\ y.op = "login" /\ y.at = "recheck"
        /\ y.acct = x.acct /\ y.ver = x.ver /\ y.shown = revoked[x.acct] /\ db' = db /\ revoked' = revoked
    BY <1>7 DEF LoginConfirm, OnlyRequests
  <2>2. x.acct # None
    BY <2>1, NoneAssumption DEF RequestNames, WithAccount, LoginBound
  <2> QED BY <2>1, <2>2 DEF RequestShown, AsOf
<1>8. CASE LoginRecheck(r) \/ LoginClear(r)
  <2>1. /\ x.op = "login" /\ x.at \in {"recheck", "clear"} /\ y.op = "login" /\ y.at \in {"clear", "challenge"}
        /\ y.acct = x.acct /\ y.ver = x.ver /\ y.shown = x.shown
    BY <1>8 DEF LoginRecheck, LoginClear
  <2>2. x.acct \in Accounts
    BY <2>1 DEF RequestNames, WithAccount, LoginBound
  <2>3. AsOf(x.acct, x.ver, x.shown)'
    BY <1>1, <2>1, <2>2, AsOfStays DEF RequestShown
  <2> QED BY <2>1, <2>3 DEF RequestShown
<1> QED BY <1>3, <1>4, <1>5, <1>6, <1>7, <1>8 DEF LoginStep

LEMMA VerifyShown ==
  ASSUME TypesInv, ShownInv, AccountNext, NEW r \in Requests, VerifyStep(r)
  PROVE  RequestShown(req[r])'
<1> DEFINE x == req[r]
           y == req'[r]
<1>0. /\ StateTypes /\ x \in RequestRecords /\ RequestNames(x) /\ RequestShown(x)
      /\ \A a \in Accounts : RowGrows(a)
  BY RowsGrow DEF TypesInv, StateTypes, ShownInv
<1>1. x.ver \in Nat /\ x.acct \in Accounts \cup {None}
  BY <1>0 DEF RequestRecords
<1> USE <1>0 DEF StateTypes, Stands, Becomes, Goes, RequestRecords
<1>2. x.op = "verify" /\ x.at \in Verified => x.acct \in Accounts
  BY DEF RequestNames, WithAccount
<1>3. CASE \/ \E c \in db.challenges, right \in BOOLEAN : VerifyAttempt(r, c, right)
           \/ VerifyWrong(r) \/ VerifyCompare(r) \/ VerifyMint(r)
  <2>1. CASE y.at \in {"unstarted", "ended", "compare", "wrong", "consume"} /\ y.op \in {"verify", "none"}
    BY <2>1 DEF RequestShown
  <2>2. ASSUME NEW c \in db.challenges, NEW right \in BOOLEAN, VerifyAttempt(r, c, right)
        PROVE  RequestShown(req[r])'
    BY <2>1, <2>2 DEF VerifyAttempt, New, Unstarted
  <2>3. CASE VerifyCompare(r)
    BY <2>1, <2>3 DEF VerifyCompare
  <2>4. CASE VerifyWrong(r) \/ VerifyMint(r)
    BY <2>1, <2>4, EndedIs DEF VerifyWrong, VerifyMint, Mint, Ends
  <2> QED BY <1>3, <2>2, <2>3, <2>4
<1>4. CASE VerifyConsume(r)
  <2>1. PICK c \in db.challenges :
          Becomes(r, [x EXCEPT !.at = "account", !.acct = c.acct, !.uid = c.uid, !.ver = c.ver,
                               !.email = c.email, !.n = 0, !.shown = c.shown])
    BY <1>4 DEF VerifyConsume
  <2>2. x.op = "verify"
    BY <1>4 DEF VerifyConsume
  <2>3. y.op = "verify" /\ y.at = "account" /\ y.acct = c.acct /\ y.ver = c.ver /\ y.shown = c.shown
    BY <2>1, <2>2
  <2>4. c.acct \in Accounts /\ c.ver \in Nat /\ AsOf(c.acct, c.ver, c.shown)
    BY Subtables DEF ChallengeRows, ShownInv
  <2>5. AsOf(c.acct, c.ver, c.shown)'
    BY <2>4, AsOfStays
  <2> QED BY <2>3, <2>5 DEF RequestShown
<1>5. CASE VerifyAccount(r)
  <2>1. /\ x.op = "verify" /\ x.at = "account" /\ y.op = "verify" /\ y.at \in {"link", "change"}
        /\ y.acct = x.acct /\ y.ver = x.ver /\ y.shown = x.shown /\ db' = db /\ revoked' = revoked
        /\ db.accounts[x.acct].ver = x.ver /\ (y.at = "link" => db.accounts[x.acct].uid = None)
    <3>1. \E at \in {"link", "change"} :
            /\ at = "link" => db.accounts[x.acct].uid = None
            /\ Becomes(r, [x EXCEPT !.old = db.accounts[x.acct].email, !.at = at])
      BY <1>5 DEF VerifyAccount
    <3> QED BY <1>5, <3>1 DEF VerifyAccount, OnlyRequests
  <2> QED BY <1>1, <2>1 DEF RequestShown, AsOf, NoPassword
<1>6. CASE VerifyLink(r) \/ VerifyRevoke(r)
  <2>1. /\ x.op = "verify" /\ x.at \in {"link", "revoke"} /\ y.op = "verify" /\ y.at \in {"revoke", "linked"}
        /\ y.acct = x.acct /\ y.ver = x.ver /\ y.shown = x.shown
    BY <1>6 DEF VerifyLink, VerifyRevoke
  <2>2. x.acct \in Accounts
    BY <1>2, <2>1 DEF Verified
  <2>3. AsOf(x.acct, x.ver, x.shown)' /\ NoPassword(x.acct, x.ver)' /\ Brought(x.acct, x.ver, x.shown)'
    BY <1>1, <2>1, <2>2, AsOfStays, NoPasswordStays, BroughtStays DEF RequestShown, Brought
  <2> QED BY <2>1, <2>3 DEF RequestShown, Brought
<1>7. CASE VerifyLinked(r)
  <2>1. /\ x.op = "verify" /\ x.at = "linked" /\ y.op = "verify" /\ y.at = "change"
        /\ y.acct = x.acct /\ y.ver = x.ver + 1 /\ y.shown = x.shown /\ db' = db /\ revoked' = revoked
        /\ db.accounts[x.acct].ver = x.ver + 1 /\ db.accounts[x.acct].uid = x.uid
    BY <1>7 DEF VerifyLinked, OnlyRequests
  <2>2. x.uid # None
    BY <2>1, NoneAssumption DEF RequestNames, WithIdentity, Verified, Known
  <2>3. x.ver + 1 \in Nat
    BY <1>1
  <2> QED BY <1>1, <2>1, <2>2, <2>3 DEF RequestShown, AsOf
<1>8. CASE VerifyChange(r)
  <2>1. /\ x.op = "verify" /\ x.at = "change" /\ y.op = "verify" /\ y.at \in {"reconcile", "mint"}
        /\ y.acct = x.acct /\ y.ver = x.ver /\ y.shown = x.shown /\ db' = db /\ revoked' = revoked
    BY <1>8 DEF VerifyChange, OnlyRequests
  <2> QED BY <2>1 DEF RequestShown, AsOf
<1>9. CASE VerifyReconcile(r)
  <2>1. /\ x.op = "verify" /\ x.at = "reconcile" /\ y.op = "verify" /\ y.at = "reread"
        /\ y.acct = x.acct /\ y.ver = x.ver /\ y.shown = x.shown /\ db.accounts[x.acct].ver = x.ver
    BY <1>9 DEF VerifyReconcile, Matches
  <2>2. /\ x.acct \in Accounts /\ db'.accounts[x.acct].ver = x.ver + 1 /\ revoked'[x.acct] = revoked[x.acct]
    <3>1. x.acct \in Accounts /\ Readdresses(x.acct, x.email, db.accounts[x.acct].ver + 1)
      BY <1>9, ReconcileRows
    <3> QED BY ONLY <2>1, <3>1 DEF Readdresses, RowsBecome
  <2>3. x.shown = revoked[x.acct]
    BY <2>1 DEF RequestShown, AsOf
  <2>4. x.ver < x.ver + 1 /\ x.ver + 1 <= x.ver + 1
    BY <1>1
  <2> QED BY <2>1, <2>2, <2>3, <2>4 DEF RequestShown, AsOf
<1>10. CASE VerifyReread(r)
  <2>1. /\ x.op = "verify" /\ x.at = "reread" /\ y.op = "verify" /\ y.at = "mint"
        /\ y.acct = x.acct /\ y.ver = x.ver + 1 /\ y.shown = x.shown /\ db' = db /\ revoked' = revoked
    BY <1>10 DEF VerifyReread, OnlyRequests
  <2> QED BY <2>1 DEF RequestShown, AsOf
<1> QED BY <1>3, <1>4, <1>5, <1>6, <1>7, <1>8, <1>9, <1>10 DEF VerifyStep

LEMMA CodeShown ==
  ASSUME TypesInv, ShownInv, AccountNext, NEW r \in Requests, CodeStep(r)
  PROVE  RequestShown(req[r])'
<1> DEFINE x == req[r]
           y == req'[r]
<1>0. /\ StateTypes /\ x \in RequestRecords /\ RequestNames(x) /\ RequestShown(x)
      /\ \A a \in Accounts : RowGrows(a)
  BY RowsGrow DEF TypesInv, StateTypes, ShownInv
<1> USE <1>0 DEF StateTypes, Stands, Becomes, Goes, RequestRecords
<1>1. CASE y.op \in {"legacyCode", "enrollmentCode", "verifyEnrollment", "none"} \/ (y.op = "verifyCode" /\ y.at # "mint" /\ y.shown = None)
  BY <1>1 DEF RequestShown
<1>2. CASE VerifyCodeAccount(r)
  <2>1. /\ x.op = "verifyCode" /\ y.op = "verifyCode" /\ y.at = "mint" /\ y.shown = x.shown /\ y.acct \in Accounts
        /\ y.ver = db.accounts[y.acct].ver /\ db.accounts[y.acct].uid = None /\ db' = db
    BY <1>2, OwnersNamed DEF VerifyCodeAccount, OnlyRequests
  <2> QED BY <2>1 DEF RequestShown, NoPassword, RowGrows
<1>3. ASSUME NEW e \in Emails, NEW right \in BOOLEAN, AttemptCode(r, "verifyCode", "legacyCode", e, right)
      PROVE  RequestShown(req[r])'
  BY <1>1, <1>3 DEF AttemptCode, New, Unstarted
<1>4. ASSUME NEW e \in Emails, NEW right \in BOOLEAN, AttemptCode(r, "verifyEnrollment", "enrollmentCode", e, right)
      PROVE  RequestShown(req[r])'
  BY <1>1, <1>4 DEF AttemptCode, New, Unstarted
<1>5. ASSUME NEW e \in Emails, NEW purpose \in {"legacyCode", "enrollmentCode"}, UpsertCode(r, purpose, e)
      PROVE  RequestShown(req[r])'
  BY <1>1, <1>5 DEF UpsertCode, New, Unstarted
<1>6. CASE ConsumeCode(r, "verifyCode", "legacyCode", "insert")
  BY <1>1, <1>6 DEF ConsumeCode, RequestShown
<1>7. CASE ConsumeCode(r, "verifyEnrollment", "enrollmentCode", "prove")
  BY <1>1, <1>7 DEF ConsumeCode
<1>8. CASE VerifyCodeInsert(r) \/ VerifyCodeReserved(r)
  <2>1. x.op = "verifyCode" /\ y.op = "verifyCode" /\ y.at \in {"reserved", "account"} /\ y.shown = x.shown
    BY <1>8 DEF VerifyCodeInsert, VerifyCodeReserved
  <2> QED BY <1>1, <2>1 DEF RequestShown
<1>9. CASE \/ SendFails(r) \/ WrongCode(r, "verifyCode", "legacyCode") \/ WrongCode(r, "verifyEnrollment", "enrollmentCode")
           \/ VerifyCodeMint(r) \/ InsertProof(r)
  BY <1>1, <1>9, EndedIs DEF SendFails, WrongCode, VerifyCodeMint, Mint, InsertProof, Ends
<1> QED BY <1>2, <1>3, <1>4, <1>5, <1>6, <1>7, <1>8, <1>9 DEF CodeStep

LEMMA EnrollShown ==
  ASSUME TypesInv, ShownInv, AccountNext, NEW r \in Requests, EnrollStep(r)
  PROVE  RequestShown(req[r])'
<1> DEFINE x == req[r]
           y == req'[r]
<1>0. StateTypes /\ x \in RequestRecords /\ RequestShown(x)
  BY DEF TypesInv, StateTypes, ShownInv
<1>1. CASE y.op = "none" \/ (y.op = "enroll" /\ y.shown = None)
  BY <1>1 DEF RequestShown
<1> USE <1>0 DEF StateTypes, Stands, Becomes, Goes, RequestRecords
<1>2. x.op = "enroll" => x.shown = None
  BY DEF RequestShown
<1>3. ASSUME NEW proof \in db.proofs, NEW p \in Passwords, EnrollLease(r, proof, p) PROVE RequestShown(req[r])'
  BY <1>1, <1>3 DEF EnrollLease, New, Unstarted
<1>4. CASE EnrollRelease(r) \/ EnrollMint(r)
  BY <1>1, <1>4, EndedIs DEF EnrollRelease, EnrollMint, Mint, Ends
<1>5. CASE EnrollSignUp(r)
  <2>1. Goes(r, "signin") \/ \E u \in Uids : Becomes(r, [req[r] EXCEPT !.at = "linkInsert", !.uid = u])
    BY <1>5 DEF EnrollSignUp
  <2>2. req[r].op = "enroll"
    BY <1>5 DEF EnrollSignUp
  <2>3. CASE Goes(r, "signin")
    BY <1>1, <1>2, <2>2, <2>3
  <2>4. ASSUME NEW u \in Uids, Becomes(r, [req[r] EXCEPT !.at = "linkInsert", !.uid = u])
        PROVE  RequestShown(req[r])'
    BY <1>1, <1>2, <2>2, <2>4
  <2> QED BY <2>1, <2>3, <2>4
<1>6. CASE EnrollSignIn(r) \/ LinkRead(r) \/ EnrollLinked(r)
  <2>1. CASE EnrollSignIn(r)
    BY <1>1, <1>2, <2>1 DEF EnrollSignIn
  <2>2. CASE LinkRead(r)
    BY <1>1, <1>2, <2>2 DEF LinkRead
  <2>3. CASE EnrollLinked(r)
    BY <1>1, <1>2, <2>3 DEF EnrollLinked
  <2> QED BY <1>6, <2>1, <2>2, <2>3
<1>7. CASE LinkInsert(r) \/ LinkUpdate(r) \/ EnrollSessions(r) \/ EnrollChallenges(r) \/ EnrollConsume(r)
  <2>1. (\E at : Goes(r, at)) /\ x.op = "enroll"
    BY <1>7 DEF LinkInsert, LinkUpdate, EnrollSessions, EnrollChallenges, EnrollConsume
  <2>2. y.op = "enroll" /\ y.shown = x.shown
    BY <2>1
  <2> QED BY <1>1, <1>2, <2>1, <2>2
<1> QED BY <1>3, <1>4, <1>5, <1>6, <1>7 DEF EnrollStep

LEMMA CompleteShown ==
  ASSUME TypesInv, ShownInv, AccountNext, NEW r \in Requests, CompleteStep(r)
  PROVE  RequestShown(req[r])'
<1> DEFINE x == req[r]
           y == req'[r]
<1>0. /\ StateTypes /\ x \in RequestRecords /\ RequestNames(x) /\ RequestShown(x)
      /\ \A a \in Accounts : RowGrows(a)
  BY RowsGrow DEF TypesInv, StateTypes, ShownInv
<1>1. CASE y.op = "none" \/ (y.op = "completeChange" /\ (y.at \in Completing => y.ver <= db'.accounts[y.acct].ver))
  BY <1>1 DEF RequestShown
<1> USE <1>0 DEF StateTypes, Stands, Becomes, Goes, RequestRecords
<1>2. ASSUME NEW link \in firebase.links, CompleteInspect(r, link) PROVE RequestShown(req[r])'
  BY <1>1, <1>2 DEF CompleteInspect, New, Unstarted, Completing
<1>3. CASE CompleteFind(r)
  <2>1. PICK change \in db.changes :
          /\ Completable(change, x.now)
          /\ Becomes(r, [x EXCEPT !.at = "owner", !.acct = change.acct, !.uid = change.uid, !.ver = change.ver])
    BY <1>3 DEF CompleteFind, Reserved
  <2>2. y.op = "completeChange" /\ y.acct = change.acct /\ y.ver = db.accounts[change.acct].ver /\ db' = db
    BY <1>3, <2>1 DEF CompleteFind, Completable, Matches, OnlyRequests
  <2>3. change.acct \in Accounts
    BY Subtables DEF ChangeRows
  <2> QED BY <1>1, <2>2, <2>3 DEF RowGrows
<1>4. CASE CompleteInvalidate(r)
  <2>1. y.op = "completeChange" /\ y.acct = x.acct /\ y.ver = x.ver + 1 /\ db.accounts[x.acct].ver = x.ver
    <3>1. x.op = "completeChange" /\ \E at, n : Becomes(r, [x EXCEPT !.at = at, !.ver = x.ver + 1, !.n = n])
      BY <1>4 DEF CompleteInvalidate
    <3>2. db.accounts[x.acct].ver = x.ver
      BY <1>4 DEF CompleteInvalidate, Invalidatable, SameAccount, Matches
    <3> QED BY <3>1, <3>2
  <2>2. x.acct \in Accounts /\ db'.accounts[x.acct].ver = x.ver + 1
    <3>1. x.acct \in Accounts /\ Revokes(x.acct)
      BY <1>4, InvalidateRows
    <3> QED BY ONLY <2>1, <3>1 DEF Revokes, RowsBecome
  <2> QED BY <1>1, <2>1, <2>2 DEF RowGrows
<1>5. CASE CompleteRefused(r) \/ CompleteFinalize(r)
  BY <1>1, <1>5, EndedIs DEF CompleteRefused, CompleteFinalize, Ends
<1>6. CASE CompleteOwner(r) \/ CompleteApply(r)
  <2>1. /\ x.op = "completeChange" /\ x.at \in Completing /\ db' = db
        /\ Ends(r) \/ \E at : Goes(r, at)
    BY <1>6 DEF CompleteOwner, CompleteApply, OnlyRequests, Completing
  <2>2. CASE Ends(r)
    BY <1>1, <2>2, EndedIs DEF Ends
  <2>3. CASE \E at : Goes(r, at)
    BY <1>1, <2>1, <2>3 DEF RequestShown
  <2> QED BY <2>1, <2>2, <2>3
<1> QED BY <1>2, <1>3, <1>4, <1>5, <1>6 DEF CompleteStep

LEMMA RequestsShown ==
  ASSUME TypesInv, ShownInv, AccountNext, NEW q \in Requests
  PROVE  RequestShown(req[q])'
<1>1. ASSUME req'[q] = req[q] PROVE RequestShown(req[q])'
  BY <1>1, WaitingShown DEF TypesInv, StateTypes, ShownInv
<1>2. CASE OtherStep
  BY <1>1, <1>2, OtherTables
<1>3. ASSUME NEW r \in Requests, HandlerStep(r) PROVE RequestShown(req[q])'
  <2>1. CASE q # r
    BY <1>1, <1>3, <2>1, HandlerTurn
  <2>2. CASE q = r /\ (LoginStep(r) \/ VerifyStep(r) \/ CodeStep(r) \/ EnrollStep(r) \/ CompleteStep(r))
    BY <2>2, LoginShown, VerifyShown, CodeShown, EnrollShown, CompleteShown
  <2>3. CASE q = r /\ (ResetStep(r) \/ ChangeStep(r) \/ BrowserStep(r))
    <3>1. req'[r].op \notin Judged
      BY <2>3, ResetWorks, ChangeWorks, BrowserWorks, EndedIs DEF Works, BrowserOps, Judged
    <3> QED BY <2>3, <3>1, UnjudgedShown
  <2> QED BY <1>3, <2>1, <2>2, <2>3 DEF HandlerStep
<1> QED BY <1>2, <1>3, StepCases DEF TypesInv

LEMMA MintStep ==
  ASSUME TypesInv, AccountNext
  PROVE  SessionsKept \/ \E r \in Requests : VerifyMint(r) \/ VerifyCodeMint(r) \/ EnrollMint(r) \/ PollMint(r)
<1>1. CASE OtherStep
  BY <1>1, OtherKeeps DEF AllKept
<1>2. ASSUME NEW r \in Requests, HandlerStep(r)
      PROVE  SessionsKept \/ VerifyMint(r) \/ VerifyCodeMint(r) \/ EnrollMint(r) \/ PollMint(r)
  BY <1>2, LoginKeeps, VerifyKeeps, ResetKeeps, CodeKeeps, EnrollKeeps, ChangeKeeps, CompleteKeeps, BrowserKeeps
     DEF HandlerStep, AllKept
<1> QED BY <1>1, <1>2, StepCases DEF TypesInv

LEMMA Minting ==
  ASSUME StateTypes, NEW r \in Requests, NEW kind, NEW at, Mint(r, kind, at)
  PROVE  /\ db'.accounts = db.accounts /\ revoked' = revoked /\ db'.grants = db.grants
         /\ \A s \in db'.sessions : s \in db.sessions \/
              s = SessionOf(r, req[r].acct, <<kind, req[r].id>>, req[r].ver, at, req[r].shown)
         /\ minted' = minted \cup {<<<<kind, req[r].id>>, r>>}
         /\ req'[r] = Ended
BY DEF Mint, StateTypes, Tables, Ends, Becomes

(* The grant that a poll redeems, and the session that is made of it.      *)
LEMMA Redeeming ==
  ASSUME StateTypes, NEW r \in Requests, PollMint(r)
  PROVE  \E g \in db.grants :
           /\ g.id = req[r].id /\ g.status = "approved" /\ db.accounts[g.acct].ver = g.ver
           /\ db'.accounts = db.accounts /\ revoked' = revoked /\ db'.grants = db.grants \ {g}
           /\ \A s \in db'.sessions : s \in db.sessions \/
                s = SessionOf(r, g.acct, <<"browser", g.id>>, g.ver, req[r].now, g.shown)
           /\ minted' = minted \cup {<<<<"browser", g.id>>, r>>}
           /\ req'[r] = Ended
<1>1. PICK g \in db.grants :
        /\ g.id = req[r].id /\ Redeemable(r, g)
        /\ db' = [db EXCEPT
             !.sessions = @ \cup {SessionOf(r, g.acct, <<"browser", g.id>>, db.accounts[g.acct].ver, req[r].now, g.shown)},
             !.grants = @ \ {g}]
        /\ minted' = minted \cup {<<<<"browser", g.id>>, r>>}
  BY DEF PollMint, GrantOf
<1>2. g.status = "approved" /\ db.accounts[g.acct].ver = g.ver
  BY <1>1 DEF Redeemable
<1>3. db'.accounts = db.accounts /\ db'.grants = db.grants \ {g}
  BY <1>1 DEF StateTypes, Tables
<1>4. \A s \in db'.sessions : s \in db.sessions \/
        s = SessionOf(r, g.acct, <<"browser", g.id>>, g.ver, req[r].now, g.shown)
  BY <1>1, <1>2 DEF StateTypes, Tables
<1>5. req'[r] = Ended /\ revoked' = revoked
  BY DEF PollMint, Ends, Becomes, StateTypes
<1> QED BY <1>1, <1>2, <1>3, <1>4, <1>5

LEMMA SessionsShown ==
  ASSUME TypesInv, ShownInv, AccountNext, NEW s \in db'.sessions
  PROVE  /\ s.shown # None => AsOf(s.acct, s.ver, s.shown)'
         /\ s.grant[1] = "legacyCode" => NoPassword(s.acct, s.ver)'
<1>0. StateTypes /\ \A r \in Requests : RequestNames(req[r]) /\ RequestShown(req[r])
  BY DEF TypesInv, ShownInv
<1>1. CASE s \in db.sessions
  <2>1. s.acct \in Accounts /\ s.ver \in Nat
    BY <1>0, <1>1, Subtables DEF SessionRows
  <2> QED BY <1>1, <2>1, RowsGrow, AsOfStays, NoPasswordStays DEF ShownInv
<1>2. ASSUME NEW r \in Requests, VerifyMint(r), s \notin db.sessions
      PROVE  s.grant[1] # "legacyCode" /\ AsOf(s.acct, s.ver, s.shown)'
  <2>1. /\ s = SessionOf(r, req[r].acct, <<"challenge", req[r].id>>, req[r].ver, req[r].now, req[r].shown)
        /\ db'.accounts = db.accounts /\ revoked' = revoked
    BY <1>0, <1>2, Minting DEF VerifyMint
  <2>2. AsOf(req[r].acct, req[r].ver, req[r].shown)
    BY <1>0, <1>2 DEF VerifyMint, Stands, RequestShown
  <2> QED BY <2>1, <2>2 DEF SessionOf, AsOf
<1>3. ASSUME NEW r \in Requests, VerifyCodeMint(r), s \notin db.sessions
      PROVE  s.shown = None /\ NoPassword(s.acct, s.ver)'
  <2>1. /\ s = SessionOf(r, req[r].acct, <<"legacyCode", req[r].id>>, req[r].ver, req[r].now, req[r].shown)
        /\ db'.accounts = db.accounts /\ revoked' = revoked
    BY <1>0, <1>3, Minting DEF VerifyCodeMint
  <2>2. req[r].shown = None /\ NoPassword(req[r].acct, req[r].ver)
    BY <1>0, <1>3 DEF VerifyCodeMint, Stands, RequestShown
  <2> QED BY <2>1, <2>2 DEF SessionOf, NoPassword
<1>4. ASSUME NEW r \in Requests, EnrollMint(r), s \notin db.sessions
      PROVE  s.grant[1] # "legacyCode" /\ s.shown = None
  <2>1. s = SessionOf(r, req[r].acct, <<"proof", req[r].id>>, req[r].ver, clock, req[r].shown)
    BY <1>0, <1>4, Minting DEF EnrollMint
  <2>2. req[r].shown = None
    BY <1>0, <1>4 DEF EnrollMint, Stands, RequestShown
  <2> QED BY <2>1, <2>2 DEF SessionOf
<1>5. ASSUME NEW r \in Requests, PollMint(r), s \notin db.sessions
      PROVE  s.grant[1] # "legacyCode" /\ (s.shown # None => AsOf(s.acct, s.ver, s.shown)')
  <2>1. PICK g \in db.grants :
          /\ g.status = "approved" /\ db'.accounts = db.accounts /\ revoked' = revoked
          /\ s = SessionOf(r, g.acct, <<"browser", g.id>>, g.ver, req[r].now, g.shown)
    BY <1>0, <1>5, Redeeming
  <2>2. g.shown # None => AsOf(g.acct, g.ver, g.shown)
    BY <2>1 DEF ShownInv
  <2> QED BY <2>1, <2>2 DEF SessionOf, AsOf
<1> QED BY <1>1, <1>2, <1>3, <1>4, <1>5, MintStep DEF SessionsKept

LEMMA ChallengesShown ==
  ASSUME TypesInv, ShownInv, AccountNext, NEW c \in db'.challenges
  PROVE  AsOf(c.acct, c.ver, c.shown)'
<1>0. StateTypes
  BY DEF TypesInv
<1>1. \E a \in Accounts, v \in Nat : \E n : c.acct = a /\ c.ver = v /\ c.shown = n /\ AsOf(a, v, n)
  <2>1. ASSUME NEW d \in db.challenges, SameChallenge(c, d)
        PROVE  \E a \in Accounts, v \in Nat : \E n : c.acct = a /\ c.ver = v /\ c.shown = n /\ AsOf(a, v, n)
    BY <1>0, <2>1, Subtables DEF SameChallenge, ChallengeRows, ShownInv
  <2>2. ASSUME NEW r \in Requests, LoginChallenge(r), c \notin db.challenges
        PROVE  \E a \in Accounts, v \in Nat : \E n : c.acct = a /\ c.ver = v /\ c.shown = n /\ AsOf(a, v, n)
    <3>1. c.acct = req[r].acct /\ c.ver = db.accounts[req[r].acct].ver /\ c.shown = req[r].shown
      BY <1>0, <2>2 DEF LoginChallenge, StateTypes, Tables
    <3>2. db.accounts[req[r].acct].ver = req[r].ver
      BY <2>2 DEF LoginChallenge, MayChallenge, StillConfirmed, Matches
    <3>3. req[r].acct \in Accounts /\ AsOf(req[r].acct, req[r].ver, req[r].shown)
      BY <2>2
         DEF LoginChallenge, Stands, TypesInv, RequestNames, WithAccount, LoginBound, ShownInv, RequestShown
    <3>4. req[r].ver \in Nat
      BY <1>0 DEF StateTypes, RequestRecords
    <3> QED BY <3>1, <3>2, <3>3, <3>4
  <2>3. SameChallenge(c, c)
    BY DEF SameChallenge
  <2> QED BY <2>1, <2>2, <2>3, TablesStep DEF ChallengesKept
<1> QED BY <1>1, RowsGrow, AsOfStays

LEMMA GrantsShown ==
  ASSUME TypesInv, ShownInv, AccountNext, NEW g \in db'.grants, g.status = "approved", g.shown # None
  PROVE  AsOf(g.acct, g.ver, g.shown)'
<1>0. StateTypes
  BY DEF TypesInv
<1>1. g.acct \in Accounts /\ g.ver \in Nat /\ AsOf(g.acct, g.ver, g.shown)
  <2>1. CASE g \in db.grants
    BY <1>0, <2>1, Subtables DEF TypesInv, ShownInv, GrantRows
  <2>2. ASSUME NEW r \in Requests, StartBrowserAuth(r), g \notin db.grants PROVE FALSE
    BY <1>0, <2>2 DEF StartBrowserAuth, StateTypes, Tables
  <2>3. ASSUME NEW r \in Requests, ApproveGrant(r), g \notin db.grants PROVE \E s \in db.sessions :
              g.acct = s.acct /\ g.ver = s.ver /\ g.shown = s.shown
    <3> DEFINE z(h, s) == [h EXCEPT !.status = "approved", !.acct = s.acct, !.ver = s.ver, !.by = r, !.shown = s.shown, !.used = s.by]
    <3>1. PICK h \in db.grants, s \in db.sessions :
            db' = [db EXCEPT !.sessions = ApprovedBy(s), !.grants = (@ \ {h}) \cup {z(h, s)}]
      BY <2>3 DEF ApproveGrant, GrantOf
    <3>2. h \in GrantRows
      BY <1>0, Subtables
    <3>3. z(h, s).acct = s.acct /\ z(h, s).ver = s.ver /\ z(h, s).shown = s.shown
      BY <3>2 DEF GrantRows
    <3> HIDE DEF z
    <3>4. g = z(h, s)
      BY <1>0, <2>3, <3>1 DEF StateTypes, Tables
    <3> QED BY <3>3, <3>4
  <2>4. \A s \in db.sessions : s.acct \in Accounts /\ s.ver \in Nat
    BY <1>0, Subtables DEF SessionRows
  <2> QED BY <2>1, <2>2, <2>3, <2>4, TablesStep DEF GrantsKept, ShownInv
<1> QED BY <1>1, RowsGrow, AsOfStays

LEMMA CallbacksApart == ASSUME TypesInv, ShownInv, AccountNext PROVE OneCallback'
<1> DEFINE In(x) == x.op = "completeChange" /\ x.at \in {"apply", "finalize"}
<1>0. StateTypes /\ OneCallback
  BY DEF TypesInv, ShownInv
<1>1. ASSUME req' = req PROVE OneCallback'
  BY <1>0, <1>1 DEF OneCallback
<1>2. ASSUME NEW r \in Requests, HandlerStep(r) PROVE OneCallback'
  <2>1. \A q \in Requests : q # r => req'[q] = req[q]
    BY <1>2, HandlerTurn
  <2>2. CASE ~In(req'[r])
    BY <1>0, <2>1, <2>2 DEF OneCallback
  <2>3. CASE In(req'[r])
    <3>1. CompleteStep(r)
      BY <1>2, <2>3, LoginWorks, VerifyWorks, ResetWorks, CodeWorks, EnrollWorks, ChangeWorks, BrowserWorks
         DEF HandlerStep, Works, CodeOps, BrowserOps, Ended, Unstarted
    <3>2. CASE CompleteInvalidate(r)
      <4>1. req'[r].acct = req[r].acct /\ req'[r].ver = req[r].ver + 1
        <5>1. \E at, n : Becomes(r, [req[r] EXCEPT !.at = at, !.ver = req[r].ver + 1, !.n = n])
          BY <3>2 DEF CompleteInvalidate
        <5> QED BY <1>0, <5>1 DEF Becomes, StateTypes, RequestRecords
      <4>2. db.accounts[req[r].acct].ver = req[r].ver
        BY <3>2 DEF CompleteInvalidate, Invalidatable, SameAccount, Matches
      <4>3. \A q \in Requests : In(req[q]) => req[q].ver <= db.accounts[req[q].acct].ver
        BY DEF ShownInv, RequestShown, Completing
      <4>4. \A q \in Requests : req[q].ver \in Nat
        BY <1>0 DEF StateTypes, RequestRecords
      <4>5. \A q \in Requests : q # r /\ In(req[q]) /\ req[q].acct = req[r].acct => req[q].ver # req'[r].ver
        BY <4>1, <4>2, <4>3, <4>4
      <4> QED BY <1>0, <2>1, <4>1, <4>5 DEF OneCallback
    <3>3. CASE CompleteApply(r)
      <4>1. Ends(r) \/ Goes(r, "finalize")
        BY <3>3 DEF CompleteApply
      <4>2. ~Ends(r)
        BY <1>0, <2>3, EndedIs DEF Ends, Becomes, StateTypes
      <4>3. In(req[r]) /\ req'[r].acct = req[r].acct /\ req'[r].ver = req[r].ver
        BY <1>0, <3>3, <4>1, <4>2 DEF CompleteApply, Stands, Goes, Becomes, StateTypes, RequestRecords
      <4> QED BY <1>0, <2>1, <4>3 DEF OneCallback
    <3>4. ASSUME NEW link \in firebase.links, CompleteInspect(r, link) PROVE FALSE
      BY <1>0, <2>3, <3>4 DEF CompleteInspect, Becomes, New, Unstarted, StateTypes
    <3>5. CASE CompleteFind(r)
      BY <1>0, <2>3, <3>5 DEF CompleteFind, Becomes, StateTypes, RequestRecords
    <3>6. CASE CompleteOwner(r)
      BY <1>0, <2>3, <3>6 DEF CompleteOwner, Goes, Becomes, StateTypes, RequestRecords
    <3>7. CASE CompleteRefused(r) \/ CompleteFinalize(r)
      BY <1>0, <2>3, <3>7, EndedIs DEF CompleteRefused, CompleteFinalize, Ends, Becomes, StateTypes
    <3> QED BY <3>1, <3>2, <3>3, <3>4, <3>5, <3>6, <3>7 DEF CompleteStep
  <2> QED BY <2>2, <2>3
<1> QED BY <1>0, <1>1, <1>2, OtherTables, StepCases

LEMMA InitShown == ASSUME StoreInit PROVE ShownInv
<1>1. \A r \in Requests : req[r].op = "none"
  BY InitTables, EndedIs
<1>2. ASSUME NEW s \in db.sessions PROVE AsOf(s.acct, s.ver, s.shown) /\ s.grant[1] # "legacyCode"
  <2>1. s = PastSession(mix.past) /\ mix.past \notin {"empty", "orphan"}
    BY <1>2, InitTables
  <2>2. mix \in Mixes /\ mix.past \in Pasts /\ PastRow(mix.past).ver \in Nat
    BY MixesAssumption, PastTypes DEF StoreInit, Rows
  <2>3. CASE mix.past \in Couples
    <3>1. PastRow(mix.past).ver = 1
      <4>1. mix.past \in Linkeds
        BY <2>3 DEF Linkeds
      <4>2. PastRow(mix.past) = [email |-> Any(Emails), uid |-> Any(Uids), ver |-> 1]
        BY <4>1, PastRows
      <4> QED BY <4>2
    <3>2. Second(Accounts) \in Accounts /\ db.accounts[Second(Accounts)] = NeighbourRow /\ revoked[Second(Accounts)] = 0
      BY <2>2, <2>3, NeighbourOf DEF StoreInit
    <3> QED BY <2>1, <2>3, <3>1, <3>2 DEF PastSession, SessionOf, AsOf, NeighbourRow
  <2>4. CASE mix.past \notin Couples
    <3>1. db.accounts[Any(Accounts)] = PastRow(mix.past) /\ revoked[Any(Accounts)] = 0
      BY AnyOf DEF StoreInit
    <3> QED BY <2>1, <2>2, <2>4, <3>1 DEF PastSession, SessionOf, AsOf
  <2> QED BY <2>3, <2>4
<1> QED BY <1>1, <1>2, InitTables DEF ShownInv, RequestShown, OneCallback

(* What is carried from a password that was shown - by a request, a        *)
(* challenge, a browser request, a session - is bound to the credential    *)
(* version that was read with it or before it.                             *)
THEOREM AccountShown == AccountSpec => []ShownInv
<1>1. StoreInit => ShownInv
  BY InitShown
<1>2. TypesInv /\ ShownInv /\ [AccountNext]_storeVars => ShownInv'
  <2>1. ASSUME TypesInv, ShownInv, AccountNext PROVE ShownInv'
    BY <2>1, RequestsShown, ChallengesShown, SessionsShown, GrantsShown, CallbacksApart DEF ShownInv
  <2>2. ShownInv /\ UNCHANGED storeVars => ShownInv'
    BY DEF storeVars, ShownInv, RequestShown, AsOf, NoPassword, OneCallback
  <2> QED BY <2>1, <2>2
<1> QED BY <1>1, <1>2, AccountTypes, PTL DEF AccountSpec

(* A session made of a password and a code, or of a browser session that   *)
(* was, is usable only while no revocation came after the password.        *)
THEOREM AccountPasswordShown == AccountSpec => []ShownSinceRevoked
<1>1. ShownInv => ShownSinceRevoked
  BY DEF ShownInv, ShownSinceRevoked, AsOf, Usable
<1> QED BY <1>1, AccountShown, PTL

(* A session made of a code of version 0.5.7 is usable only while the      *)
(* account has no password.                                                *)
THEOREM AccountNoBypass == AccountSpec => []CodeNoBypass
<1>1. ShownInv => CodeNoBypass
  BY DEF ShownInv, CodeNoBypass, NoPassword, Usable
<1> QED BY <1>1, AccountShown, PTL

(* Two callbacks of one e-mail change are never both past the invalidation *)
(* with the same credential version.                                       *)
THEOREM AccountOneCallback == AccountSpec => []OneCallback
<1>1. ShownInv => OneCallback
  BY DEF ShownInv
<1> QED BY <1>1, AccountShown, PTL

-------------------------------------------------------------------------------
(***************************************************************************)
(* The address that was verified                                           *)
(***************************************************************************)
Verifies(u, e) == e \in firebase.held[u]
(* What a callback was answered without an identity, some identity has.    *)
Attested(u, e) == Verifies(u, e) \/ (e \in firebase.crossed[u] /\ \E v \in Uids : Verifies(v, e))
(* An account that has no password keeps its address. *)
AddressOf(a, e) == db.accounts[a].uid = None => db.accounts[a].email = e

RequestVerified(x) ==
  /\ x.op = "login" /\ x.at \in LoginProven => Verifies(x.uid, x.email)
  /\ x.op = "login" /\ x.at \in {"owner", "reserved"} \cup LoginBound /\ x.acct # None => AddressOf(x.acct, x.email)
  /\ x.op = "verify" /\ x.at \in Verified => Verifies(x.uid, x.email) /\ AddressOf(x.acct, x.email)
  /\ x.op = "enroll" /\ x.at \in EnrollProven => Verifies(x.uid, x.email)
  /\ x.op = "enroll" /\ x.at = "linkUpdate" => AddressOf(x.acct, x.email)
  /\ x.op = "completeChange" /\ x.at = "finalize" => Attested(x.uid, x.email)
VerifiedInv ==
  /\ \A r \in Requests : RequestVerified(req[r])
  /\ \A u \in Uids : firebase.ids[u] # NoIdentity => Verifies(u, firebase.ids[u].email)
  /\ \A c \in db.challenges : Verifies(c.uid, c.email) /\ AddressOf(c.acct, c.email)
  /\ \A a \in Accounts : db.accounts[a].uid # None => Attested(db.accounts[a].uid, db.accounts[a].email)

(* What was verified stays so.                                             *)
LEMMA VerifiedStays ==
  ASSUME TypesInv, AccountNext, NEW u \in Uids, NEW e
  PROVE  /\ Verifies(u, e) => Verifies(u, e)'
         /\ Attested(u, e) => Attested(u, e)'
         /\ Verifies(u, e) => Attested(u, e)
BY GrowStep DEF IdentitiesGrow, Verifies, Attested

LEMMA AddressStays ==
  ASSUME TypesInv, AccountNext, NEW a \in Accounts, NEW e \in Emails, AddressOf(a, e)
  PROVE  AddressOf(a, e)'
<1>0. e # None
  BY NoneAssumption
<1>1. CASE RowsKept
  BY <1>1 DEF RowsKept, AddressOf
<1>2. ASSUME NEW b \in Accounts, NEW f, NEW u, NEW v, Inserts(b, f, u, v) PROVE AddressOf(a, e)'
  BY <1>0, <1>2 DEF Inserts, RowsBecome, AddressOf, NoAccount
<1>3. ASSUME NEW b \in Accounts, NEW u, Links(b, u) PROVE AddressOf(a, e)'
  BY <1>3, NoneAssumption DEF Links, RowsBecome, AddressOf
<1>4. ASSUME NEW b \in Accounts, Revokes(b) PROVE AddressOf(a, e)'
  BY <1>4 DEF Revokes, RowsBecome, AddressOf
<1>5. ASSUME NEW b \in Accounts, NEW f, NEW v, Readdresses(b, f, v) PROVE AddressOf(a, e)'
  BY <1>5 DEF Readdresses, RowsBecome, AddressOf
<1> QED BY <1>1, <1>2, <1>3, <1>4, <1>5, RowsStep DEF RowsChange, InsertsPlain, InsertsLinked

(* The account at an address, and the account of an identity.              *)
LEMMA OwnerIs ==
  ASSUME NEW e, OwnerOf(e) # None
  PROVE  OwnerOf(e) \in Accounts /\ db.accounts[OwnerOf(e)].email = e
BY DEF OwnerOf

LEMMA AccountIs ==
  ASSUME NEW u, AccountOf(u) # None
  PROVE  AccountOf(u) \in Accounts /\ db.accounts[AccountOf(u)].uid = u
BY DEF AccountOf

LEMMA WaitingVerified ==
  ASSUME TypesInv, AccountNext, NEW x \in RequestRecords, RequestNames(x), RequestVerified(x)
  PROVE  RequestVerified(x)'
<1>1. x.uid \in Uids /\ Verifies(x.uid, x.email) => Verifies(x.uid, x.email)'
  BY VerifiedStays
<1>2. x.uid \in Uids /\ Attested(x.uid, x.email) => Attested(x.uid, x.email)'
  BY VerifiedStays
<1>3. x.acct \in Accounts /\ x.email \in Emails /\ AddressOf(x.acct, x.email) => AddressOf(x.acct, x.email)'
  BY AddressStays
<1>4. x.acct \in Accounts \cup {None}
  BY DEF RequestRecords
<1>5. /\ x.op = "login" /\ x.at \in LoginProven => x.uid \in Uids
      /\ x.op = "verify" /\ x.at \in Verified => x.uid \in Uids
      /\ x.op = "enroll" /\ x.at \in EnrollProven => x.uid \in Uids
      /\ x.op = "completeChange" /\ x.at = "finalize" => x.uid \in Uids
  BY DEF RequestNames, WithIdentity, Known, Completing
<1>6. /\ x.op = "login" => x.email \in Emails
      /\ x.op = "verify" /\ x.at \in Verified => x.email \in Emails /\ x.acct \in Accounts
      /\ x.op = "enroll" /\ x.at = "linkUpdate" => x.email \in Emails /\ x.acct \in Accounts
  BY DEF RequestNames, WithEmail, WithAccount, Addressed, EnrollBound
<1>7. x.op = "login" /\ x.at \in {"owner", "reserved"} \cup LoginBound /\ x.acct # None => AddressOf(x.acct, x.email)'
  BY <1>3, <1>4, <1>6 DEF RequestVerified
<1>8. x.op = "login" /\ x.at \in LoginProven => Verifies(x.uid, x.email)'
  BY <1>1, <1>5 DEF RequestVerified
<1>9. x.op = "verify" /\ x.at \in Verified => Verifies(x.uid, x.email)' /\ AddressOf(x.acct, x.email)'
  BY <1>1, <1>3, <1>5, <1>6 DEF RequestVerified
<1>10. /\ x.op = "enroll" /\ x.at \in EnrollProven => Verifies(x.uid, x.email)'
       /\ x.op = "enroll" /\ x.at = "linkUpdate" => AddressOf(x.acct, x.email)'
  BY <1>1, <1>3, <1>5, <1>6 DEF RequestVerified
<1>11. x.op = "completeChange" /\ x.at = "finalize" => Attested(x.uid, x.email)'
  BY <1>2, <1>5 DEF RequestVerified
<1> QED BY <1>7, <1>8, <1>9, <1>10, <1>11 DEF RequestVerified

(* Each operation relies on an address that it has seen verified.          *)
LEMMA LoginVerified ==
  ASSUME TypesInv, VerifiedInv, AccountNext, NEW r \in Requests, LoginStep(r)
  PROVE  RequestVerified(req[r])'
<1> DEFINE x == req[r]
           y == req'[r]
           Now(u, e) == e \in firebase'.held[u]
           At(a, e) == db'.accounts[a].uid = None => db'.accounts[a].email = e
<1>0. StateTypes /\ x \in RequestRecords /\ RequestNames(x) /\ RequestVerified(x)
  BY DEF TypesInv, StateTypes, VerifiedInv
<1>1. /\ x.op = "login" => x.email \in Emails
      /\ x.op = "login" /\ x.at \in LoginProven => x.uid \in Uids /\ Verifies(x.uid, x.email) /\ Now(x.uid, x.email)
      /\ x.acct \in Accounts \cup {None}
  BY <1>0, VerifiedStays
     DEF Verifies, RequestNames, WithEmail, WithIdentity, Addressed, Known, RequestVerified, RequestRecords
<1>2. ASSUME y.op = "none" PROVE RequestVerified(req[r])'
  BY <1>2 DEF RequestVerified
<1>3. ASSUME y.op = "login", y.at \in {"authenticate", "send"} PROVE RequestVerified(req[r])'
  BY <1>3 DEF RequestVerified, LoginProven, LoginBound
<1>4. ASSUME y.op = "login", y.at \in {"resolve", "insert", "reselect"}, Now(y.uid, y.email)
      PROVE  RequestVerified(req[r])'
  BY <1>4 DEF RequestVerified, LoginBound, Verifies
<1>5. ASSUME y.op = "login", Now(y.uid, y.email), y.acct # None => At(y.acct, y.email)
      PROVE  RequestVerified(req[r])'
  BY <1>5 DEF RequestVerified, Verifies, AddressOf
<1>6. ASSUME x.op = "login", x.at \in LoginProven, y.op = "login",
             y.uid = x.uid, y.email = x.email, y.acct = x.acct,
             x.acct # None /\ y.at \in {"owner", "reserved"} \cup LoginBound => x.at \in {"owner", "reserved"} \cup LoginBound
      PROVE  RequestVerified(req[r])'
  <2>1. Now(y.uid, y.email)
    BY <1>1, <1>6
  <2>2. x.acct # None /\ y.at \in {"owner", "reserved"} \cup LoginBound => At(x.acct, x.email)
    BY <1>0, <1>1, <1>6, AddressStays DEF RequestVerified, AddressOf
  <2> QED BY <1>6, <2>1, <2>2 DEF RequestVerified, Verifies, AddressOf
<1> USE <1>0 DEF StateTypes, Stands, Becomes, Goes, RequestRecords
<1>7. CASE \E e \in Emails, p \in Passwords : LoginSnapshot(r, e, p)
  BY <1>3, <1>7 DEF LoginSnapshot, New, Unstarted
<1>8. CASE LoginAuthenticate(r)
  <2>1. PICK u \in Uids : SignsIn(u, x.email, x.pw) /\ y = [x EXCEPT !.at = "resolve", !.uid = u]
    BY <1>8 DEF LoginAuthenticate
  <2>2. x.op = "login" /\ x.email \in Emails
    BY <1>1, <1>8 DEF LoginAuthenticate
  <2>3. firebase.ids[u].email = x.email /\ firebase.ids[u] # NoIdentity
    BY <2>1, <2>2, NoneAssumption DEF SignsIn, NoIdentity
  <2>4. Now(u, x.email)
    BY <2>3, VerifiedStays DEF VerifiedInv, Verifies
  <2> QED BY <1>4, <2>1, <2>2, <2>4
<1>9. CASE LoginResolve(r)
  <2>1. /\ x.op = "login" /\ x.at = "resolve" /\ y.op = "login" /\ y.uid = x.uid /\ y.email = x.email
        /\ y.acct = AccountOf(x.uid) /\ db' = db
    BY <1>9 DEF LoginResolve, OnlyRequests
  <2>2. x.uid # None /\ Now(x.uid, x.email)
    BY <1>1, <2>1, NoneAssumption DEF LoginProven
  <2>3. y.acct # None => db.accounts[y.acct].uid # None
    BY <2>1, <2>2, AccountIs
  <2> QED BY <1>5, <2>1, <2>2, <2>3 DEF AddressOf
<1>10. CASE LoginReselect(r)
  <2>1. /\ x.op = "login" /\ x.at = "reselect" /\ y.op = "login" /\ y.uid = x.uid /\ y.email = x.email
        /\ y.acct = OwnerOf(x.email) /\ y.acct # None /\ db' = db
    BY <1>10 DEF LoginReselect, OnlyRequests
  <2>2. Now(x.uid, x.email)
    BY <1>1, <2>1 DEF LoginProven
  <2>3. db.accounts[y.acct].email = x.email
    BY <2>1, OwnerIs
  <2> QED BY <1>5, <2>1, <2>2, <2>3 DEF AddressOf
<1>11. CASE LoginOwner(r) \/ LoginReserved(r)
  <2>1. /\ x.op = "login" /\ x.at \in {"owner", "reserved"} /\ y.op = "login"
        /\ y.uid = x.uid /\ y.email = x.email /\ y.acct = x.acct
    BY <1>11 DEF LoginOwner, LoginReserved
  <2> QED BY <1>6, <2>1 DEF LoginProven
<1>12. CASE LoginConfirm(r) \/ LoginRecheck(r)
  <2>1. /\ x.op = "login" /\ x.at \in {"confirm", "recheck"} /\ y.op = "login"
        /\ y.uid = x.uid /\ y.email = x.email /\ y.acct = x.acct
    <3>1. CASE LoginConfirm(r)
      BY <3>1 DEF LoginConfirm
    <3>2. CASE LoginRecheck(r)
      BY <3>2 DEF LoginRecheck
    <3> QED BY <1>12, <3>1, <3>2
  <2> QED BY <1>6, <2>1 DEF LoginProven, LoginBound
<1>13. CASE LoginInsert(r) \/ LoginClear(r)
  BY <1>6, <1>13 DEF LoginInsert, LoginClear, LoginProven, LoginBound
<1>14. CASE LoginChallenge(r)
  BY <1>3, <1>14 DEF LoginChallenge
<1>15. CASE LoginSend(r)
  BY <1>2, <1>15, EndedIs DEF LoginSend, Ends
<1> QED BY <1>7, <1>8, <1>9, <1>10, <1>11, <1>12, <1>13, <1>14, <1>15 DEF LoginStep

LEMMA VerifyVerified ==
  ASSUME TypesInv, VerifiedInv, AccountNext, NEW r \in Requests, VerifyStep(r)
  PROVE  RequestVerified(req[r])'
<1> DEFINE x == req[r]
           y == req'[r]
           Now(u, e) == e \in firebase'.held[u]
           At(a, e) == db'.accounts[a].uid = None => db'.accounts[a].email = e
<1>0. StateTypes /\ x \in RequestRecords /\ RequestNames(x) /\ RequestVerified(x)
  BY DEF TypesInv, StateTypes, VerifiedInv
<1>1. ASSUME y.op = "none" PROVE RequestVerified(req[r])'
  BY <1>1 DEF RequestVerified
<1>2. ASSUME y.op = "verify", y.at \in {"compare", "wrong", "consume"} PROVE RequestVerified(req[r])'
  BY <1>2 DEF RequestVerified, Verified
<1>3. ASSUME NEW u \in Uids, NEW e \in Emails, NEW a \in Accounts, Verifies(u, e), AddressOf(a, e),
             y.op = "verify", y.uid = u, y.email = e, y.acct = a
      PROVE  RequestVerified(req[r])'
  <2>1. Now(u, e) /\ At(a, e)
    BY <1>3, VerifiedStays, AddressStays DEF Verifies, AddressOf
  <2> QED BY <1>3, <2>1 DEF RequestVerified, Verifies, AddressOf
<1>4. ASSUME x.op = "verify", x.at \in Verified, y.op = "verify", y.uid = x.uid, y.email = x.email, y.acct = x.acct
      PROVE  RequestVerified(req[r])'
  <2>1. x.uid \in Uids /\ x.email \in Emails /\ x.acct \in Accounts
    BY <1>0, <1>4 DEF RequestNames, WithEmail, WithAccount, WithIdentity, Known
  <2>2. Verifies(x.uid, x.email) /\ AddressOf(x.acct, x.email)
    BY <1>0, <1>4 DEF RequestVerified
  <2> QED BY <1>3, <1>4, <2>1, <2>2
<1> USE <1>0 DEF StateTypes, Stands, Becomes, Goes, RequestRecords
<1>5. ASSUME NEW c \in db.challenges, NEW right \in BOOLEAN, VerifyAttempt(r, c, right)
      PROVE  RequestVerified(req[r])'
  BY <1>2, <1>5 DEF VerifyAttempt, New, Unstarted
<1>6. CASE VerifyCompare(r)
  BY <1>2, <1>6 DEF VerifyCompare
<1>7. CASE VerifyWrong(r) \/ VerifyMint(r)
  BY <1>1, <1>7, EndedIs DEF VerifyWrong, VerifyMint, Mint, Ends
<1>8. CASE VerifyConsume(r)
  <2>1. PICK c \in db.challenges :
          y = [x EXCEPT !.at = "account", !.acct = c.acct, !.uid = c.uid, !.ver = c.ver,
                        !.email = c.email, !.n = 0, !.shown = c.shown]
    BY <1>8 DEF VerifyConsume
  <2>2. c.uid \in Uids /\ c.email \in Emails /\ c.acct \in Accounts
    BY Subtables DEF ChallengeRows
  <2>3. Verifies(c.uid, c.email) /\ AddressOf(c.acct, c.email)
    BY DEF VerifiedInv
  <2>4. x.op = "verify"
    BY <1>8 DEF VerifyConsume
  <2> QED BY <1>3, <2>1, <2>2, <2>3, <2>4
<1>9. CASE VerifyAccount(r)
  BY <1>4, <1>9 DEF VerifyAccount, Verified
<1>10. CASE VerifyLinked(r)
  BY <1>4, <1>10 DEF VerifyLinked, Verified
<1>11. CASE VerifyReread(r)
  BY <1>4, <1>11 DEF VerifyReread, Verified
<1>12. CASE VerifyLink(r) \/ VerifyRevoke(r)
  BY <1>4, <1>12 DEF VerifyLink, VerifyRevoke, Verified
<1>13. CASE VerifyChange(r)
  BY <1>4, <1>13 DEF VerifyChange, Verified
<1>14. CASE VerifyReconcile(r)
  BY <1>4, <1>14 DEF VerifyReconcile, Verified
<1> QED BY <1>5, <1>6, <1>7, <1>8, <1>9, <1>10, <1>11, <1>12, <1>13, <1>14 DEF VerifyStep

LEMMA EnrollVerified ==
  ASSUME TypesInv, VerifiedInv, AccountNext, NEW r \in Requests, EnrollStep(r)
  PROVE  RequestVerified(req[r])'
<1> DEFINE x == req[r]
           y == req'[r]
           Now(u, e) == e \in firebase'.held[u]
<1>0. StateTypes /\ x \in RequestRecords /\ RequestNames(x) /\ RequestVerified(x)
  BY DEF TypesInv, StateTypes, VerifiedInv
<1>1. ASSUME y.op = "none" PROVE RequestVerified(req[r])'
  BY <1>1 DEF RequestVerified
<1>2. ASSUME y.op = "enroll", y.at \in {"signup", "signin"} PROVE RequestVerified(req[r])'
  BY <1>2 DEF RequestVerified, EnrollProven
<1>3. ASSUME y.op = "enroll", y.at # "linkUpdate", Now(y.uid, y.email) PROVE RequestVerified(req[r])'
  BY <1>3 DEF RequestVerified, Verifies
<1>4. x.op = "enroll" /\ x.at \in EnrollProven => Now(x.uid, x.email)
  BY <1>0, VerifiedStays DEF RequestNames, WithIdentity, Known, RequestVerified, Verifies
<1>5. ASSUME x.op = "enroll", x.at \in EnrollProven, y.op = "enroll", y.at # "linkUpdate", y.uid = x.uid, y.email = x.email
      PROVE  RequestVerified(req[r])'
  BY <1>3, <1>4, <1>5
<1> USE <1>0 DEF StateTypes, Stands, Becomes, Goes, RequestRecords
<1>6. ASSUME NEW proof \in db.proofs, NEW p \in Passwords, EnrollLease(r, proof, p)
      PROVE  RequestVerified(req[r])'
  BY <1>2, <1>6 DEF EnrollLease, New, Unstarted
<1>7. CASE EnrollSignUp(r)
  <2>1. CASE Goes(r, "signin")
    BY <1>2, <1>7, <2>1 DEF EnrollSignUp
  <2>2. CASE ~Goes(r, "signin")
    <3>1. PICK u \in Uids : /\ firebase' = [firebase EXCEPT !.ids[u] = [email |-> x.email, pw |-> x.pw],
                                                            !.held[u] = @ \cup {x.email}]
                            /\ Becomes(r, [x EXCEPT !.at = "linkInsert", !.uid = u])
      BY <1>7, <2>2 DEF EnrollSignUp
    <3>2. Now(u, x.email)
      BY <3>1 DEF Providers
    <3> QED BY <1>3, <1>7, <3>1, <3>2 DEF EnrollSignUp
  <2> QED BY <2>1, <2>2
<1>8. CASE EnrollSignIn(r)
  <2>1. PICK u \in Uids : SignsIn(u, x.email, x.pw) /\ y = [x EXCEPT !.at = "linkInsert", !.uid = u]
    BY <1>8 DEF EnrollSignIn
  <2>2. x.op = "enroll" /\ x.email \in Emails
    BY <1>8 DEF EnrollSignIn, RequestNames, WithEmail, Addressed
  <2>3. firebase.ids[u].email = x.email /\ firebase.ids[u] # NoIdentity
    BY <2>1, <2>2, NoneAssumption DEF SignsIn, NoIdentity
  <2>4. Now(u, x.email)
    BY <2>3, VerifiedStays DEF VerifiedInv, Verifies
  <2> QED BY <1>3, <2>1, <2>2, <2>4
<1>9. CASE LinkInsert(r)
  BY <1>5, <1>9 DEF LinkInsert, EnrollProven
<1>10. CASE LinkRead(r)
  <2>1. /\ x.op = "enroll" /\ x.at = "linkRead" /\ y.op = "enroll" /\ y.uid = x.uid /\ y.email = x.email
        /\ y.acct = OwnerOf(x.email) /\ y.acct # None /\ db' = db
    BY <1>10 DEF LinkRead, OnlyRequests
  <2>2. Now(y.uid, y.email)
    BY <1>4, <2>1 DEF EnrollProven
  <2>3. db'.accounts[y.acct].email = y.email
    BY <2>1, OwnerIs
  <2> QED BY <2>1, <2>2, <2>3 DEF RequestVerified, Verifies, AddressOf
<1>11. CASE LinkUpdate(r) \/ EnrollSessions(r)
  BY <1>5, <1>11 DEF LinkUpdate, EnrollSessions, EnrollProven
<1>12. CASE EnrollLinked(r)
  BY <1>5, <1>12 DEF EnrollLinked, EnrollProven
<1>13. CASE EnrollChallenges(r) \/ EnrollConsume(r)
  BY <1>5, <1>13 DEF EnrollChallenges, EnrollConsume, EnrollProven
<1>14. CASE EnrollRelease(r) \/ EnrollMint(r)
  BY <1>1, <1>14, EndedIs DEF EnrollRelease, EnrollMint, Mint, Ends
<1> QED BY <1>6, <1>7, <1>8, <1>9, <1>10, <1>11, <1>12, <1>13, <1>14 DEF EnrollStep

LEMMA CompleteVerified ==
  ASSUME TypesInv, VerifiedInv, AccountNext, NEW r \in Requests, CompleteStep(r)
  PROVE  RequestVerified(req[r])'
<1> DEFINE x == req[r]
           y == req'[r]
<1>0. StateTypes /\ x \in RequestRecords /\ RequestNames(x)
  BY DEF TypesInv, StateTypes
<1>1. ASSUME y.op \in {"none", "completeChange"}, y.at # "finalize" PROVE RequestVerified(req[r])'
  BY <1>1 DEF RequestVerified
<1> USE <1>0 DEF StateTypes, Stands, Becomes, Goes, RequestRecords
<1>2. ASSUME NEW link \in firebase.links, CompleteInspect(r, link) PROVE RequestVerified(req[r])'
  BY <1>1, <1>2 DEF CompleteInspect, New, Unstarted
<1>3. CASE CompleteFind(r)
  BY <1>1, <1>3 DEF CompleteFind
<1>4. CASE CompleteOwner(r)
  BY <1>1, <1>4 DEF CompleteOwner
<1>5. CASE CompleteInvalidate(r)
  BY <1>1, <1>5 DEF CompleteInvalidate
<1>6. CASE CompleteApply(r)
  <2>1. PICK link \in firebase.links, named \in BOOLEAN :
          /\ link.id = x.id /\ firebase' = AppliedFor(r, link, named)
          /\ IF Trusted(r, link, named) THEN Goes(r, "finalize") ELSE Ends(r)
    BY <1>6 DEF CompleteApply
  <2>2. CASE Ends(r)
    BY <1>1, <2>2, EndedIs DEF Ends
  <2>3. CASE Goes(r, "finalize") /\ Trusted(r, link, named)
    <3>1. x.op = "completeChange" /\ x.at = "apply"
      BY <1>6 DEF CompleteApply
    <3>2. link.new = x.email /\ link.new \in Emails /\ Known(link.uid) /\ link.uid \in Uids
      BY <2>1, <3>1 DEF TypesInv, LinksOnce, RequestLinks, RequestNames, WithEmail, Addressed, Known
    <3>3. firebase'.held = [firebase.held EXCEPT ![link.uid] = @ \cup {link.new}]
      <4>1. StateTypes
        BY DEF TypesInv
      <4>2. firebase'.held = Applied(link).held
        BY <2>1, <3>2, <4>1, AppliedForTyped
      <4> QED BY <3>2, <4>1, <4>2, AppliedTyped
    <3>4. x.email \in firebase'.held[link.uid]
      BY <3>2, <3>3, LinkUpdates
    <3>5. x.uid \in Uids
      BY <3>1 DEF RequestNames, WithIdentity, Completing, Known
    <3>6. link.uid = x.uid \/ x.email \in firebase'.crossed[x.uid]
      <4>1. CASE Crossed(r, link, named)
        BY <2>1, <3>2, <3>5, <4>1, AppliedForTyped
      <4>2. CASE ~Crossed(r, link, named)
        BY <2>3, <4>2 DEF Crossed, Trusted
      <4> QED BY <4>1, <4>2
    <3>7. y.op = "completeChange" /\ y.at = "finalize" /\ y.uid = x.uid /\ y.email = x.email
      BY <2>3, <3>1
    <3> QED BY <3>2, <3>4, <3>6, <3>7 DEF RequestVerified, Attested, Verifies
  <2> QED BY <2>1, <2>2, <2>3
<1>7. CASE CompleteRefused(r) \/ CompleteFinalize(r)
  BY <1>1, <1>7, EndedIs DEF CompleteRefused, CompleteFinalize, Ends
<1> QED BY <1>2, <1>3, <1>4, <1>5, <1>6, <1>7 DEF CompleteStep

LEMMA RequestsVerified ==
  ASSUME TypesInv, VerifiedInv, AccountNext, NEW q \in Requests
  PROVE  RequestVerified(req[q])'
<1>1. ASSUME req'[q] = req[q] PROVE RequestVerified(req[q])'
  BY <1>1, WaitingVerified DEF TypesInv, StateTypes, VerifiedInv
<1>2. CASE OtherStep
  BY <1>1, <1>2, OtherTables
<1>3. ASSUME NEW r \in Requests, HandlerStep(r) PROVE RequestVerified(req[q])'
  <2>1. CASE q # r
    BY <1>1, <1>3, <2>1, HandlerTurn
  <2>2. CASE q = r /\ (LoginStep(r) \/ VerifyStep(r) \/ EnrollStep(r) \/ CompleteStep(r))
    BY <2>2, LoginVerified, VerifyVerified, EnrollVerified, CompleteVerified
  <2>3. CASE q = r /\ (ResetStep(r) \/ CodeStep(r) \/ ChangeStep(r) \/ BrowserStep(r))
    <3>1. req'[r].op \notin {"login", "verify", "enroll", "completeChange"}
      BY <2>3, ResetWorks, CodeWorks, ChangeWorks, BrowserWorks, EndedIs DEF Works, CodeOps, BrowserOps
    <3> QED BY <2>3, <3>1 DEF RequestVerified
  <2> QED BY <1>3, <2>1, <2>2, <2>3 DEF HandlerStep
<1> QED BY <1>2, <1>3, StepCases DEF TypesInv

LEMMA IdentitiesVerified ==
  ASSUME TypesInv, VerifiedInv, AccountNext, NEW u \in Uids, firebase'.ids[u] # NoIdentity
  PROVE  firebase'.ids[u].email \in firebase'.held[u]
<1>1. IdentitiesGrow /\ StateTypes /\ StateTypes'
  BY GrowStep, TypesStep DEF TypesInv
<1>2. firebase'.ids[u] \in Identities /\ firebase.ids[u] \in Identities \cup {NoIdentity}
  BY <1>1 DEF StateTypes, Providers
<1>3. firebase'.ids[u].email # None
  BY <1>2, NoneAssumption DEF Identities
<1>4. CASE firebase.ids[u] = NoIdentity
  BY <1>1, <1>3, <1>4 DEF IdentitiesGrow, NoIdentity
<1>5. CASE firebase.ids[u] # NoIdentity
  BY <1>1, <1>5 DEF IdentitiesGrow, VerifiedInv, Verifies
<1> QED BY <1>4, <1>5

LEMMA ChallengesVerified ==
  ASSUME TypesInv, VerifiedInv, AccountNext, NEW c \in db'.challenges
  PROVE  Verifies(c.uid, c.email)' /\ AddressOf(c.acct, c.email)'
<1>0. StateTypes
  BY DEF TypesInv
<1>1. c.uid \in Uids /\ c.email \in Emails /\ c.acct \in Accounts
  BY TypesStep DEF StateTypes, Tables, ChallengeRows
<1>2. Verifies(c.uid, c.email) /\ AddressOf(c.acct, c.email)
  <2>1. ASSUME NEW d \in db.challenges, SameChallenge(c, d)
        PROVE  Verifies(c.uid, c.email) /\ AddressOf(c.acct, c.email)
    BY <2>1 DEF VerifiedInv, SameChallenge
  <2>2. CASE ChallengesKept
    BY <2>1, <2>2 DEF ChallengesKept
  <2>3. ASSUME NEW r \in Requests, LoginChallenge(r), c \notin db.challenges
        PROVE  Verifies(c.uid, c.email) /\ AddressOf(c.acct, c.email)
    <3>1. c.uid = req[r].uid /\ c.email = req[r].email /\ c.acct = req[r].acct
      BY <1>0, <2>3 DEF LoginChallenge, StateTypes, Tables
    <3>2. req[r].op = "login" /\ req[r].at = "challenge"
      BY <2>3 DEF LoginChallenge, Stands
    <3>3. RequestVerified(req[r]) /\ c.acct # None
      BY <1>1, NoneAssumption DEF VerifiedInv
    <3> QED BY <3>1, <3>2, <3>3 DEF RequestVerified, LoginProven, LoginBound
  <2>4. CASE c \in db.challenges
    BY <2>4 DEF VerifiedInv
  <2> QED BY <2>2, <2>3, <2>4, TablesStep
<1> QED BY <1>1, <1>2, VerifiedStays, AddressStays

LEMMA RowsVerified ==
  ASSUME TypesInv, VerifiedInv, AccountNext, NEW a \in Accounts, db'.accounts[a].uid # None
  PROVE  Attested(db.accounts[a].uid, db.accounts[a].email)'
<1>0. StateTypes /\ \A b \in Accounts : db.accounts[b].uid # None => Known(db.accounts[b].uid)
  BY DEF TypesInv
<1>1. ASSUME NEW u \in Uids, NEW e, db'.accounts[a].uid = u, db'.accounts[a].email = e, Attested(u, e)
      PROVE  Attested(db.accounts[a].uid, db.accounts[a].email)'
  BY <1>1, VerifiedStays
<1>2. ASSUME db'.accounts[a].uid = db.accounts[a].uid, db'.accounts[a].email = db.accounts[a].email
      PROVE  Attested(db.accounts[a].uid, db.accounts[a].email)'
  BY <1>0, <1>1, <1>2 DEF VerifiedInv, Known
<1>3. ASSUME NEW b \in Accounts, NEW row, NEW n, RowsBecome(b, row, n),
             row.uid # None => row.uid \in Uids /\ Attested(row.uid, row.email)
      PROVE  Attested(db.accounts[a].uid, db.accounts[a].email)'
  BY <1>1, <1>2, <1>3 DEF RowsBecome
<1>4. ASSUME NEW b \in Accounts, Revokes(b) PROVE Attested(db.accounts[a].uid, db.accounts[a].email)'
  BY <1>2, <1>4 DEF Revokes, RowsBecome
<1>5. ASSUME NEW b \in Accounts, NEW e, InsertsPlain(b, e)
      PROVE  Attested(db.accounts[a].uid, db.accounts[a].email)'
  BY <1>3, <1>5 DEF InsertsPlain, Inserts
<1>6. CASE RowsKept
  BY <1>2, <1>6 DEF RowsKept
<1>7. ASSUME NEW r \in Requests, MovesRow(r) PROVE Attested(db.accounts[a].uid, db.accounts[a].email)'
  <2> DEFINE x == req[r]
  <2>1. x \in RequestRecords /\ RequestNames(x) /\ RequestVerified(x)
    BY DEF TypesInv, StateTypes, VerifiedInv
  <2>2. ASSUME x.acct \in Accounts, Known(x.uid), Links(x.acct, x.uid), Verifies(x.uid, x.email), AddressOf(x.acct, x.email)
        PROVE  Attested(db.accounts[a].uid, db.accounts[a].email)'
    <3>1. db.accounts[x.acct].email = x.email
      BY <2>2 DEF Links, AddressOf
    <3>2. x.uid \in Uids /\ Attested(x.uid, x.email)
      BY <2>2, VerifiedStays DEF Known
    <3> QED BY <1>3, <2>2, <3>1, <3>2 DEF Links
  <2>3. ASSUME x.acct \in Accounts, NEW v, Readdresses(x.acct, x.email, v), db.accounts[x.acct].uid = x.uid, Attested(x.uid, x.email),
               x.uid \in Uids
        PROVE  Attested(db.accounts[a].uid, db.accounts[a].email)'
    BY <1>3, <2>3 DEF Readdresses
  <2>4. CASE LoginInsert(r)
    <3>1. x.email \in Emails /\ InsertAccount(x.email) /\ revoked' = revoked
      BY <2>1, <2>4 DEF LoginInsert, OnlyTables, Stands, RequestNames, WithEmail, Addressed
    <3> QED BY <1>0, <1>5, <1>6, <3>1, InsertRows
  <2>5. CASE VerifyCodeInsert(r)
    <3>1. x.email \in Emails /\ InsertAccount(x.email) /\ revoked' = revoked
      BY <2>1, <2>5 DEF VerifyCodeInsert, OnlyTables, Stands, RequestNames, WithEmail, Addressed
    <3> QED BY <1>0, <1>5, <1>6, <3>1, InsertRows
  <2>6. CASE VerifyLink(r)
    <3>1. x.op = "verify" /\ x.at = "link"
      BY <2>6 DEF VerifyLink, Stands
    <3>2. /\ x.acct \in Accounts /\ Known(x.uid) /\ x.uid \in Uids
          /\ Verifies(x.uid, x.email) /\ AddressOf(x.acct, x.email)
      BY <2>1, <3>1 DEF RequestNames, RequestVerified, WithAccount, WithIdentity, Verified, Known
    <3>3. revoked' = revoked /\ (UNCHANGED db \/ Link(x.acct, x.uid))
      BY <2>6 DEF VerifyLink, OnlyTables
    <3>4. RowsKept \/ Links(x.acct, x.uid)
      BY <1>0, <3>2, <3>3, LinkingRows DEF RowsKept
    <3> QED BY <1>6, <2>2, <3>2, <3>4
  <2>7. CASE LinkUpdate(r)
    <3>1. x.op = "enroll" /\ x.at = "linkUpdate"
      BY <2>7 DEF LinkUpdate, Stands
    <3>2. /\ x.acct \in Accounts /\ Known(x.uid) /\ x.uid \in Uids
          /\ Verifies(x.uid, x.email) /\ AddressOf(x.acct, x.email)
      BY <2>1, <3>1
         DEF RequestNames, RequestVerified, WithAccount, WithIdentity, EnrollBound, EnrollProven, Known
    <3>3. revoked' = revoked /\ Link(x.acct, x.uid)
      BY <2>7 DEF LinkUpdate, OnlyTables
    <3>4. RowsKept \/ Links(x.acct, x.uid)
      BY <1>0, <3>2, <3>3, LinkingRows
    <3> QED BY <1>6, <2>2, <3>2, <3>4
  <2>8. CASE LinkInsert(r)
    <3>1. x.op = "enroll" /\ x.at = "linkInsert"
      BY <2>8 DEF LinkInsert, Stands
    <3>2. x.uid \in Uids /\ Attested(x.uid, x.email)
      BY <2>1, <3>1, VerifiedStays DEF RequestNames, RequestVerified, WithIdentity, EnrollProven, Known
    <3>3. ASSUME NEW b \in Accounts, InsertsLinked(b, x.email, x.uid)
          PROVE  Attested(db.accounts[a].uid, db.accounts[a].email)'
      BY <1>3, <3>2, <3>3 DEF InsertsLinked, Inserts
    <3> QED BY <1>6, <2>8, <3>3, LinkInsertRows
  <2>9. CASE VerifyReconcile(r)
    <3>1. x.op = "verify" /\ x.at = "reconcile" /\ db.accounts[x.acct].uid = x.uid
      BY <2>9 DEF VerifyReconcile, Stands
    <3>2. x.uid \in Uids /\ Attested(x.uid, x.email)
      BY <2>1, <3>1, VerifiedStays DEF RequestNames, RequestVerified, WithIdentity, Verified, Known
    <3> QED BY <2>3, <2>9, <3>1, <3>2, ReconcileRows
  <2>10. CASE CompleteFinalize(r)
    <3>1. x.op = "completeChange" /\ x.at = "finalize" /\ db.accounts[x.acct].uid = x.uid
      BY <2>10 DEF CompleteFinalize, Stands, SameAccount
    <3>2. x.uid \in Uids /\ Attested(x.uid, x.email)
      BY <2>1, <3>1 DEF RequestNames, RequestVerified, WithIdentity, Completing, Known
    <3> QED BY <2>3, <2>10, <3>1, <3>2, FinalizeRows
  <2>11. CASE ResetBump(r)
    BY <1>4, <2>11, BumpRows
  <2>12. CASE CompleteInvalidate(r)
    BY <1>4, <2>12, InvalidateRows
  <2> QED BY <1>7, <2>4, <2>5, <2>6, <2>7, <2>8, <2>9, <2>10, <2>11, <2>12 DEF MovesRow
<1> QED BY <1>6, <1>7, RowsMove

LEMMA InitVerified == ASSUME StoreInit PROVE VerifiedInv
<1>1. \A r \in Requests : req[r].op = "none"
  BY InitTables, EndedIs
<1>2. mix.past \in Pasts /\ TypesInv
  BY MixesAssumption, InitTypesInv DEF StoreInit
<1>3. ASSUME NEW u \in Uids, firebase.ids[u] # NoIdentity PROVE firebase.ids[u].email \in firebase.held[u]
  BY <1>3, InitIdentities
<1>4. ASSUME NEW a \in Accounts, db.accounts[a].uid # None
      PROVE  Attested(db.accounts[a].uid, db.accounts[a].email)
  <2>1. CASE db.accounts[a] = PastRow(mix.past)
    <3>1. mix.past \in Linkeds /\ db.accounts[a].uid = Any(Uids) /\ db.accounts[a].email = Any(Emails)
      BY <1>2, <1>4, <2>1, PastTypes
    <3> QED BY <3>1, InitIdentities, AnyOf DEF Linkeds, Couples, Attested, Verifies
  <2>2. CASE mix.past \in Couples /\ db.accounts[a] = NeighbourRow
    <3>1. Second(Uids) \in Uids
      BY <2>2, NeighbourOf DEF StoreInit
    <3> QED BY <2>2, <3>1, InitIdentities DEF NeighbourRow, Attested, Verifies
  <2> QED BY <1>4, <2>1, <2>2, InitRows DEF NoAccount
<1> QED BY <1>1, <1>3, <1>4, InitTables DEF VerifiedInv, RequestVerified, Verifies

(* An address that a row, a challenge or a request relies on was verified  *)
(* by Firebase, for the identity that goes with it unless a callback was   *)
(* answered without one.                                                   *)
THEOREM AccountVerified == AccountSpec => []VerifiedInv
<1>1. StoreInit => VerifiedInv
  BY InitVerified
<1>2. TypesInv /\ VerifiedInv /\ [AccountNext]_storeVars => VerifiedInv'
  <2>1. ASSUME TypesInv, VerifiedInv, AccountNext PROVE VerifiedInv'
    BY <2>1, RequestsVerified, IdentitiesVerified, ChallengesVerified, RowsVerified DEF VerifiedInv, Verifies
  <2>2. VerifiedInv /\ UNCHANGED storeVars => VerifiedInv'
    <3>1. ASSUME UNCHANGED storeVars, NEW r \in Requests, RequestVerified(req[r]) PROVE RequestVerified(req[r])'
      BY <3>1 DEF storeVars, RequestVerified, Verifies, Attested, AddressOf
    <3>2. ASSUME UNCHANGED storeVars, NEW u, NEW e, Attested(u, e) PROVE Attested(u, e)'
      BY <3>2 DEF storeVars, Verifies, Attested
    <3> QED BY <3>1, <3>2 DEF storeVars, VerifiedInv, Verifies, AddressOf
  <2> QED BY <2>1, <2>2
<1> QED BY <1>1, <1>2, AccountTypes, PTL DEF AccountSpec

(* The address of an account with a password was verified for the identity *)
(* of the account (worker.ts:1140-1147), or completed on an answer that    *)
(* named no identity and verified for another one.                         *)
THEOREM AccountEmailVerified == AccountSpec => []EmailWasVerified
<1>1. VerifiedInv => EmailWasVerified
  BY DEF VerifiedInv, Attested, Verifies, EmailWasVerified
<1> QED BY <1>1, AccountVerified, PTL

-------------------------------------------------------------------------------
(***************************************************************************)
(* One session of each grant                                               *)
(*                                                                         *)
(* A row of a code, a proof or a browser request is identified by the      *)
(* request that drew its number. Taking the row makes the taker hold the   *)
(* grant; whoever holds it mints once.                                     *)
(***************************************************************************)
(* A request has drawn its identifier once its row is written.             *)
Drawn(i) == Finished(i) \/ req[i].at = "send"
Holds(x, kind, id) ==
  /\ x.id = id
  /\ \/ kind = "challenge" /\ x.op = "verify" /\ x.at \in Verified
     \/ kind = "legacyCode" /\ x.op = "verifyCode" /\ x.at \in {"insert", "reserved", "account", "mint"}
     \/ kind = "proof" /\ x.op = "enroll" /\ x.at = "mint"
Spent(kind, id) ==
  \/ \E m \in minted : m[1] = <<kind, id>>
  \/ \E r \in Requests : Holds(req[r], kind, id)
RowsOnce ==
  /\ \A c \in db.challenges : Drawn(c.id) /\ ~Spent("challenge", c.id)
  /\ \A c \in db.codes : Drawn(c.id) /\ ~Spent("legacyCode", c.id)
  /\ \A p \in db.proofs : Drawn(p.id) /\ ~Spent("proof", p.id)
  /\ \A g \in db.grants : Drawn(g.id) /\ ~Spent("browser", g.id)
  /\ \A c, d \in db.challenges : c.id = d.id => c = d
  /\ \A c, d \in db.codes : c.id = d.id => c = d
  /\ \A p, q \in db.proofs : p.id = q.id => p = q
  /\ \A g, h \in db.grants : g.id = h.id => g = h
HeldOnce ==
  /\ \A m \in minted : Drawn(m[1][2]) /\ \A r \in Requests : ~Holds(req[r], m[1][1], m[1][2])
  /\ \A q, r \in Requests, kind \in {"challenge", "legacyCode", "proof"} :
       Holds(req[q], kind, req[q].id) /\ Holds(req[r], kind, req[q].id) => q = r
SessionsOnce ==
  /\ \A s \in db.sessions : s.by = Past \/ req[s.by] = Ended
  /\ \A s, t \in db.sessions : s.by = t.by => s = t
  /\ \A g \in db.grants : g.status = "approved" => g.used = Past \/ req[g.used] = Ended
OnceInv == (\A r \in Requests : Drawn(req[r].id)) /\ RowsOnce /\ HeldOnce /\ SessionsOnce /\ GrantOnce

(* An identifier that has been drawn stays so, and a request has not drawn *)
(* its own before it writes its row.                                       *)
LEMMA DrawnStays == ASSUME TypesInv, AccountNext, NEW i \in Origins, Drawn(i) PROVE Drawn(i)'
<1>1. CASE Finished(i)
  BY <1>1, FinishedStays DEF Drawn
<1>2. CASE ~Finished(i)
  <2>1. i \in Requests /\ req[i].at = "send"
    BY <1>2 DEF Drawn, Finished, Origins
  <2>2. CASE OtherStep
    BY <2>1, <2>2, OtherTables DEF Drawn, Finished
  <2>3. ASSUME NEW r \in Requests, HandlerStep(r) PROVE Drawn(i)'
    BY <2>1, <2>3, HandlerTurn, HandlerWorks DEF Drawn, Finished
  <2> QED BY <2>2, <2>3, StepCases DEF TypesInv
<1> QED BY <1>1, <1>2

LEMMA NotDrawn == ASSUME NEW r \in Requests, req[r].at \notin {"ended", "send"} PROVE ~Drawn(r)
<1>1. r # Past
  BY RequestsAssumption DEF Past
<1> QED BY <1>1, EndedIs DEF Drawn, Finished

(* The identifiers of rows and of what was done with them.                 *)
LEMMA DrawnIds ==
  ASSUME TypesInv, OnceInv
  PROVE  /\ \A r \in Requests : req[r].id \in Origins /\ Drawn(req[r].id)
         /\ \A c \in db.challenges : c.id \in Origins /\ Drawn(c.id)
         /\ \A c \in db.codes : c.id \in Origins /\ Drawn(c.id)
         /\ \A p \in db.proofs : p.id \in Origins /\ Drawn(p.id)
         /\ \A g \in db.grants : g.id \in Origins /\ Drawn(g.id)
         /\ \A m \in minted : m[1][2] \in Origins /\ Drawn(m[1][2])
         /\ Past \in Origins /\ Drawn(Past)
<1>1. StateTypes
  BY DEF TypesInv
<1>2. \A r \in Requests : req[r].id \in Origins
  BY <1>1 DEF StateTypes, RequestRecords
<1>3. /\ \A c \in db.challenges : c.id \in Origins
      /\ \A c \in db.codes : c.id \in Origins
      /\ \A p \in db.proofs : p.id \in Origins
      /\ \A g \in db.grants : g.id \in Origins
  BY <1>1, Subtables DEF ChallengeRows, CodeRows, ProofRows, GrantRows, Origins
<1>4. \A m \in minted : m[1][2] \in Origins
  BY <1>1 DEF StateTypes, Grants, Origins
<1> QED BY <1>2, <1>3, <1>4 DEF OnceInv, RowsOnce, HeldOnce, Drawn, Finished, Origins

(* A request holds a grant once it has taken the row away.                 *)
Takes(kind, id) ==
  \/ kind = "challenge" /\ \E c \in db.challenges : c.id = id /\ db'.challenges = db.challenges \ {c}
  \/ kind = "legacyCode" /\ \E c \in db.codes : c.id = id /\ db'.codes = db.codes \ {c}
  \/ kind = "proof" /\ \E p \in db.proofs : p.id = id /\ db'.proofs = db.proofs \ {p}
  \/ kind = "browser" /\ \E g \in db.grants : g.id = id /\ db'.grants = db.grants \ {g}

LEMMA TakenUnspent == ASSUME OnceInv, NEW kind, NEW id, Takes(kind, id) PROVE ~Spent(kind, id)
BY DEF OnceInv, RowsOnce, Takes

LEMMA VerifyHolds ==
  ASSUME TypesInv, NEW r \in Requests, VerifyStep(r), NEW kind, NEW id, Holds(req'[r], kind, id)
  PROVE  Holds(req[r], kind, id) \/ Takes(kind, id)
<1> DEFINE x == req[r]
           y == req'[r]
<1>0. StateTypes /\ x \in RequestRecords
  BY DEF TypesInv, StateTypes
<1>1. ASSUME x.op = "verify", x.at \in Verified, y.op = "verify", y.id = x.id PROVE Holds(x, kind, id)
  BY <1>1 DEF Holds
<1>2. ASSUME y.op = "none" \/ (y.op = "verify" /\ y.at \in {"compare", "wrong", "consume"}) PROVE FALSE
  BY <1>2 DEF Holds, Verified
<1> USE <1>0 DEF StateTypes, Stands, Becomes, Goes, RequestRecords
<1>5. ASSUME NEW c \in db.challenges, NEW right \in BOOLEAN, VerifyAttempt(r, c, right) PROVE FALSE
  BY <1>2, <1>5 DEF VerifyAttempt, New, Unstarted
<1>6. CASE VerifyCompare(r)
  BY <1>2, <1>6 DEF VerifyCompare
<1>7. CASE VerifyWrong(r) \/ VerifyMint(r)
  BY <1>2, <1>7, EndedIs DEF VerifyWrong, VerifyMint, Mint, Ends
<1>8. CASE VerifyConsume(r)
  <2>1. PICK c \in db.challenges :
          /\ c.id = x.id /\ db' = [db EXCEPT !.challenges = Consumed(r, c)]
          /\ y = [x EXCEPT !.at = "account", !.acct = c.acct, !.uid = c.uid, !.ver = c.ver,
                           !.email = c.email, !.n = 0, !.shown = c.shown]
    BY <1>8 DEF VerifyConsume
  <2>2. y.id = x.id /\ y.op = "verify"
    BY <1>8, <2>1 DEF VerifyConsume
  <2>3. kind = "challenge" /\ c.id = id
    BY <2>1, <2>2 DEF Holds
  <2>4. db'.challenges = db.challenges \ {c}
    BY <2>1 DEF Tables, Consumed
  <2> QED BY <2>3, <2>4 DEF Takes
<1>9. CASE VerifyAccount(r)
  BY <1>1, <1>9 DEF VerifyAccount, Verified
<1>10. CASE VerifyLinked(r)
  BY <1>1, <1>10 DEF VerifyLinked, Verified
<1>11. CASE VerifyReread(r)
  BY <1>1, <1>11 DEF VerifyReread, Verified
<1>12. CASE VerifyLink(r) \/ VerifyRevoke(r)
  BY <1>1, <1>12 DEF VerifyLink, VerifyRevoke, Verified
<1>13. CASE VerifyChange(r)
  BY <1>1, <1>13 DEF VerifyChange, Verified
<1>14. CASE VerifyReconcile(r)
  BY <1>1, <1>14 DEF VerifyReconcile, Verified
<1> QED BY <1>5, <1>6, <1>7, <1>8, <1>9, <1>10, <1>11, <1>12, <1>13, <1>14 DEF VerifyStep

LEMMA CodeHolds ==
  ASSUME TypesInv, NEW r \in Requests, CodeStep(r), NEW kind, NEW id, Holds(req'[r], kind, id)
  PROVE  Holds(req[r], kind, id) \/ Takes(kind, id)
<1> DEFINE x == req[r]
           y == req'[r]
<1>0. StateTypes /\ x \in RequestRecords
  BY DEF TypesInv, StateTypes
<1>1. ASSUME x.op = "verifyCode", x.at \in {"insert", "reserved", "account", "mint"}, y.op = "verifyCode", y.id = x.id
      PROVE  Holds(x, kind, id)
  BY <1>1 DEF Holds
<1>2. ASSUME y.op \in {"none", "legacyCode", "enrollmentCode", "verifyEnrollment"} PROVE FALSE
  BY <1>2 DEF Holds
<1>3. ASSUME y.op = "verifyCode", y.at \in {"consume", "wrong"} PROVE FALSE
  BY <1>3 DEF Holds
<1> USE <1>0 DEF StateTypes, Stands, Becomes, Goes, RequestRecords
<1>4. ASSUME NEW e \in Emails, NEW purpose \in {"legacyCode", "enrollmentCode"}, UpsertCode(r, purpose, e)
      PROVE  FALSE
  BY <1>2, <1>4 DEF UpsertCode, New, Unstarted
<1>5. ASSUME NEW e \in Emails, NEW right \in BOOLEAN, NEW op \in {"verifyCode", "verifyEnrollment"}, NEW purpose,
             AttemptCode(r, op, purpose, e, right)
      PROVE  FALSE
  BY <1>2, <1>3, <1>5 DEF AttemptCode, New, Unstarted
<1>6. ASSUME NEW op, NEW purpose, WrongCode(r, op, purpose) PROVE FALSE
  BY <1>2, <1>6, EndedIs DEF WrongCode, Ends
<1>7. CASE SendFails(r) \/ VerifyCodeMint(r) \/ InsertProof(r)
  BY <1>2, <1>7, EndedIs DEF SendFails, VerifyCodeMint, InsertProof, Mint, Ends
<1>8. CASE ConsumeCode(r, "verifyEnrollment", "enrollmentCode", "prove")
  BY <1>2, <1>8 DEF ConsumeCode
<1>9. CASE ConsumeCode(r, "verifyCode", "legacyCode", "insert")
  <2>1. PICK c \in db.codes : c.id = x.id /\ db' = [db EXCEPT !.codes = @ \ {c}]
    BY <1>9 DEF ConsumeCode, CodeFor
  <2>2. y.op = "verifyCode" /\ y.id = x.id
    BY <1>9 DEF ConsumeCode
  <2>3. kind = "legacyCode" /\ c.id = id
    BY <2>1, <2>2 DEF Holds
  <2>4. db'.codes = db.codes \ {c}
    BY <2>1 DEF Tables
  <2> QED BY <2>3, <2>4 DEF Takes
<1>10. CASE VerifyCodeInsert(r) \/ VerifyCodeReserved(r)
  BY <1>1, <1>10 DEF VerifyCodeInsert, VerifyCodeReserved
<1>11. CASE VerifyCodeAccount(r)
  BY <1>1, <1>11 DEF VerifyCodeAccount
<1> QED BY <1>4, <1>5, <1>6, <1>7, <1>8, <1>9, <1>10, <1>11 DEF CodeStep

LEMMA EnrollHolds ==
  ASSUME TypesInv, NEW r \in Requests, EnrollStep(r), NEW kind, NEW id, Holds(req'[r], kind, id)
  PROVE  Holds(req[r], kind, id) \/ Takes(kind, id)
<1> DEFINE x == req[r]
           y == req'[r]
<1>0. StateTypes /\ x \in RequestRecords
  BY DEF TypesInv, StateTypes
<1>2. ASSUME y.op = "none" \/ (y.op = "enroll" /\ y.at # "mint") PROVE FALSE
  BY <1>2 DEF Holds
<1> USE <1>0 DEF StateTypes, Stands, Becomes, Goes, RequestRecords
<1>4. ASSUME NEW proof \in db.proofs, NEW p \in Passwords, EnrollLease(r, proof, p) PROVE FALSE
  BY <1>2, <1>4 DEF EnrollLease, New, Unstarted
<1>5. CASE EnrollSignUp(r)
  BY <1>2, <1>5 DEF EnrollSignUp
<1>6. CASE EnrollSignIn(r) \/ LinkInsert(r)
  BY <1>2, <1>6 DEF EnrollSignIn, LinkInsert
<1>7. CASE LinkRead(r)
  BY <1>2, <1>7 DEF LinkRead
<1>8. CASE LinkUpdate(r) \/ EnrollLinked(r)
  BY <1>2, <1>8 DEF LinkUpdate, EnrollLinked
<1>9. CASE EnrollSessions(r) \/ EnrollChallenges(r)
  BY <1>2, <1>9 DEF EnrollSessions, EnrollChallenges
<1>10. CASE EnrollRelease(r) \/ EnrollMint(r)
  BY <1>2, <1>10, EndedIs DEF EnrollRelease, EnrollMint, Mint, Ends
<1>11. CASE EnrollConsume(r)
  <2>1. PICK p \in db.proofs : p.id = x.id /\ db' = [db EXCEPT !.proofs = @ \ {p}]
    BY <1>11 DEF EnrollConsume, LeasedBy
  <2>2. y.op = "enroll" /\ y.id = x.id
    BY <1>11 DEF EnrollConsume
  <2>3. kind = "proof" /\ p.id = id
    BY <2>1, <2>2 DEF Holds
  <2>4. db'.proofs = db.proofs \ {p}
    BY <2>1 DEF Tables
  <2> QED BY <2>3, <2>4 DEF Takes
<1> QED BY <1>4, <1>5, <1>6, <1>7, <1>8, <1>9, <1>10, <1>11 DEF EnrollStep

LEMMA HoldsStep ==
  ASSUME TypesInv, AccountNext, NEW q \in Requests, NEW kind, NEW id, Holds(req'[q], kind, id)
  PROVE  Holds(req[q], kind, id) \/ Takes(kind, id)
<1>1. CASE OtherStep
  BY <1>1, OtherTables
<1>2. ASSUME NEW r \in Requests, HandlerStep(r) PROVE Holds(req[q], kind, id) \/ Takes(kind, id)
  <2>1. CASE q # r
    BY <1>2, <2>1, HandlerTurn
  <2>2. CASE q = r /\ (VerifyStep(r) \/ CodeStep(r) \/ EnrollStep(r))
    BY <2>2, VerifyHolds, CodeHolds, EnrollHolds
  <2>3. CASE q = r /\ (LoginStep(r) \/ ResetStep(r) \/ ChangeStep(r) \/ CompleteStep(r) \/ BrowserStep(r))
    <3>1. req'[r].op \notin {"verify", "verifyCode", "enroll"}
      BY <2>3, LoginWorks, ResetWorks, ChangeWorks, CompleteWorks, BrowserWorks, EndedIs DEF Works, BrowserOps
    <3> QED BY <2>3, <3>1 DEF Holds
  <2> QED BY <1>2, <2>1, <2>2, <2>3 DEF HandlerStep
<1> QED BY <1>1, <1>2, StepCases DEF TypesInv

(* A request names itself or what it found by an identifier drawn before.  *)
LEMMA HandlerIds ==
  ASSUME TypesInv, NEW r \in Requests, HandlerStep(r)
  PROVE  req'[r].id \in {Past, req[r].id} \/ Found(req'[r].id)
<1>1. \E ops : Works(r, ops)
  BY LoginWorks, VerifyWorks, ResetWorks, CodeWorks, EnrollWorks, ChangeWorks, CompleteWorks, BrowserWorks
     DEF HandlerStep
<1> QED BY <1>1 DEF Works

LEMMA IdsDrawn ==
  ASSUME TypesInv, OnceInv, AccountNext, NEW q \in Requests
  PROVE  Drawn(req[q].id)'
<1>0. StateTypes
  BY DEF TypesInv
<1>1. \A i : Found(i) => i \in Origins /\ Drawn(i)
  <2>1. \A l \in firebase.links : l.id \in Origins /\ Drawn(l.id)
    BY <1>0, LinkUpdates DEF TypesInv, LinksOnce, Drawn, LinkRows
  <2> QED BY <2>1, DrawnIds DEF Found
<1>2. \E i \in Origins : req'[q].id = i /\ Drawn(i)
  <2>1. CASE OtherStep
    BY <2>1, OtherTables, DrawnIds
  <2>2. ASSUME NEW r \in Requests, HandlerStep(r) PROVE req'[q].id \in Origins /\ Drawn(req'[q].id)
    BY <2>2, <1>1, HandlerIds, HandlerTurn, DrawnIds
  <2> QED BY <1>0, <2>1, <2>2, StepCases
<1>3. PICK i \in Origins : req'[q].id = i /\ Drawn(i)
  BY <1>2
<1>4. Drawn(i)'
  BY <1>3, DrawnStays
<1> QED BY <1>3, <1>4 DEF Drawn, Finished

(* The session that a step makes, and what it makes it of.                 *)
Mints(r, kind, id) ==
  /\ minted' = minted \cup {<<<<kind, id>>, r>>}
  /\ req[r] # Ended /\ req'[r] = Ended
  /\ id \in Origins
  /\ Holds(req[r], kind, id) \/ (kind = "browser" /\ Takes(kind, id))
  /\ \E new : new.by = r /\ \A s \in db'.sessions : s \in db.sessions \/ s = new

LEMMA HolderMints ==
  ASSUME StateTypes, NEW r \in Requests, NEW kind, NEW at, Mint(r, kind, at), Holds(req[r], kind, req[r].id)
  PROVE  Mints(r, kind, req[r].id)
<1>1. req[r] # Ended /\ req[r].id \in Origins
  BY EndedIs DEF Holds, StateTypes, RequestRecords
<1>2. SessionOf(r, req[r].acct, <<kind, req[r].id>>, req[r].ver, at, req[r].shown).by = r
  BY DEF SessionOf
<1>3. \E new : new.by = r /\ \A s \in db'.sessions : s \in db.sessions \/ s = new
  BY <1>2, Minting
<1> QED BY <1>1, <1>3, Minting DEF Mints

LEMMA MintsStep ==
  ASSUME TypesInv, AccountNext
  PROVE  SessionsKept \/ \E r \in Requests : \E kind, id : Mints(r, kind, id)
<1>0. StateTypes
  BY DEF TypesInv
<1>1. ASSUME NEW r \in Requests, VerifyMint(r) PROVE Mints(r, "challenge", req[r].id)
  <2>1. Holds(req[r], "challenge", req[r].id)
    BY <1>1 DEF VerifyMint, Stands, Holds, Verified
  <2> QED BY <1>0, <1>1, <2>1, HolderMints DEF VerifyMint
<1>2. ASSUME NEW r \in Requests, VerifyCodeMint(r) PROVE Mints(r, "legacyCode", req[r].id)
  <2>1. Holds(req[r], "legacyCode", req[r].id)
    BY <1>2 DEF VerifyCodeMint, Stands, Holds
  <2> QED BY <1>0, <1>2, <2>1, HolderMints DEF VerifyCodeMint
<1>3. ASSUME NEW r \in Requests, EnrollMint(r) PROVE Mints(r, "proof", req[r].id)
  <2>1. Holds(req[r], "proof", req[r].id)
    BY <1>3 DEF EnrollMint, Stands, Holds
  <2> QED BY <1>0, <1>3, <2>1, HolderMints DEF EnrollMint
<1>4. ASSUME NEW r \in Requests, PollMint(r) PROVE \E id : Mints(r, "browser", id)
  <2>1. PICK g \in db.grants :
          /\ db'.grants = db.grants \ {g}
          /\ \A s \in db'.sessions : s \in db.sessions \/
               s = SessionOf(r, g.acct, <<"browser", g.id>>, g.ver, req[r].now, g.shown)
          /\ minted' = minted \cup {<<<<"browser", g.id>>, r>>}
          /\ req'[r] = Ended
    BY <1>0, <1>4, Redeeming
  <2>2. req[r] # Ended
    BY <1>4, EndedIs DEF PollMint, Stands
  <2>3. SessionOf(r, g.acct, <<"browser", g.id>>, g.ver, req[r].now, g.shown).by = r
    BY DEF SessionOf
  <2>4. g.id \in Origins
    BY <1>0, Subtables DEF GrantRows, Origins
  <2>5. Takes("browser", g.id)
    BY <2>1 DEF Takes
  <2>6. \E new : new.by = r /\ \A s \in db'.sessions : s \in db.sessions \/ s = new
    BY <2>1, <2>3
  <2> QED BY <2>1, <2>2, <2>4, <2>5, <2>6 DEF Mints
<1> QED BY <1>1, <1>2, <1>3, <1>4, MintStep

(* A grant is spent by the step that takes its row away.                   *)
LEMMA SpentStep ==
  ASSUME TypesInv, OnceInv, AccountNext, NEW kind, NEW id, Spent(kind, id)'
  PROVE  Spent(kind, id) \/ Takes(kind, id)
<1>1. ASSUME NEW r \in Requests, Holds(req'[r], kind, id) PROVE Spent(kind, id) \/ Takes(kind, id)
  BY <1>1, HoldsStep DEF Spent
<1>2. ASSUME NEW m \in minted', m[1] = <<kind, id>> PROVE Spent(kind, id) \/ Takes(kind, id)
  <2>1. CASE m \in minted
    BY <1>2, <2>1 DEF Spent
  <2>2. ASSUME NEW r \in Requests, NEW k, NEW i, Mints(r, k, i), m \notin minted
        PROVE  Spent(kind, id) \/ Takes(kind, id)
    <3>1. m = <<<<k, i>>, r>>
      BY <2>2 DEF Mints
    <3>2. k = kind /\ i = id
      BY <1>2, <3>1
    <3> QED BY <2>2, <3>2 DEF Mints, Spent
  <2> QED BY <2>1, <2>2, MintsStep DEF SessionsKept
<1>3. (\E m \in minted' : m[1] = <<kind, id>>) \/ \E r \in Requests : Holds(req'[r], kind, id)
  BY DEF Spent, Holds
<1> QED BY <1>1, <1>2, <1>3

(* What is spent was drawn.                                                *)
LEMMA SpentDrawn ==
  ASSUME TypesInv, OnceInv, NEW kind, NEW id, Spent(kind, id) \/ Takes(kind, id)
  PROVE  Drawn(id)
<1>1. ASSUME NEW m \in minted, m[1] = <<kind, id>> PROVE Drawn(id)
  <2>1. m[1][2] = id
    BY <1>1
  <2> QED BY <2>1, DrawnIds
<1> QED BY <1>1, DrawnIds DEF Spent, Takes, Holds

(* The rows after a step are rows of before, by their identifiers, or a    *)
(* new one whose identifier had not been drawn.                            *)
Carried(S, T) ==
  /\ \A c \in T : (\E d \in S : d.id = c.id) \/ (c.id \in Requests /\ ~Drawn(c.id) /\ Drawn(c.id)')
  /\ \A c, d \in T : c.id = d.id => c = d

LEMMA NewRowDraws ==
  ASSUME TypesInv, NEW r \in Requests, req[r].at \notin {"ended", "send"}, req'[r] = Ended \/ req'[r].at = "send"
  PROVE  ~Drawn(r) /\ Drawn(r)'
BY NotDrawn DEF Drawn, Finished

LEMMA ChallengesCarried ==
  ASSUME TypesInv, OnceInv, AccountNext
  PROVE  Carried(db.challenges, db'.challenges)
<1>0. StateTypes
  BY DEF TypesInv
<1>1. CASE ChallengesKept
  BY <1>1 DEF ChallengesKept, SameChallenge, Carried, OnceInv, RowsOnce
<1>2. ASSUME NEW r \in Requests, LoginChallenge(r) PROVE Carried(db.challenges, db'.challenges)
  <2> DEFINE new == [id |-> r, acct |-> req[r].acct, uid |-> req[r].uid, ver |-> db.accounts[req[r].acct].ver,
                     attempts |-> 0, exp |-> req[r].now + CodeTicks, email |-> req[r].email,
                     sent |-> FALSE, shown |-> req[r].shown]
  <2>0. new.id = r
    OBVIOUS
  <2>1. db'.challenges = db.challenges \cup {new}
    BY <1>0, <1>2 DEF LoginChallenge, StateTypes, Tables
  <2> HIDE DEF new
  <2>2. req[r].at = "challenge" /\ req'[r].at = "send"
    BY <1>0, <1>2 DEF LoginChallenge, Stands, Goes, Becomes, StateTypes, RequestRecords
  <2>3. ~Drawn(r) /\ Drawn(r)'
    BY <2>2, NewRowDraws
  <2>4. \A c \in db.challenges : c.id # r
    BY <2>3, DrawnIds
  <2> QED BY <2>0, <2>1, <2>3, <2>4 DEF Carried, OnceInv, RowsOnce
<1> QED BY <1>1, <1>2, TablesStep

LEMMA CodesCarried ==
  ASSUME TypesInv, OnceInv, AccountNext
  PROVE  Carried(db.codes, db'.codes)
<1>0. StateTypes
  BY DEF TypesInv
<1>1. CodesKept \/ \E r \in Requests, e \in Emails, purpose \in {"legacyCode", "enrollmentCode"} : UpsertCode(r, purpose, e)
  <2>1. CASE OtherStep
    BY <2>1, OtherKeeps DEF AllKept
  <2>2. ASSUME NEW r \in Requests, HandlerStep(r)
        PROVE  CodesKept \/ \E e \in Emails, purpose \in {"legacyCode", "enrollmentCode"} : UpsertCode(r, purpose, e)
    BY <2>2, LoginKeeps, VerifyKeeps, ResetKeeps, CodeKeeps, EnrollKeeps, ChangeKeeps, CompleteKeeps,
       BrowserKeeps
       DEF HandlerStep, AllKept
  <2> QED BY <1>0, <2>1, <2>2, StepCases
<1>2. CASE CodesKept
  BY <1>2 DEF CodesKept, SameCode, Carried, OnceInv, RowsOnce
<1>3. ASSUME NEW r \in Requests, NEW e \in Emails, NEW purpose \in {"legacyCode", "enrollmentCode"}, UpsertCode(r, purpose, e)
      PROVE  Carried(db.codes, db'.codes)
  <2>1. PICK new : new.id = r /\ db'.codes = (db.codes \ CodeFor(purpose, e)) \cup {new}
    BY <1>0, <1>3 DEF UpsertCode, StateTypes, Tables
  <2>2. req[r].at = "unstarted" /\ req'[r].at = "send"
    BY <1>0, <1>3, EndedIs DEF UpsertCode, Begins, New, Unstarted, Becomes, StateTypes, RequestRecords
  <2>3. ~Drawn(r) /\ Drawn(r)'
    BY <2>2, NewRowDraws
  <2>4. \A c \in db.codes : c.id # r
    BY <2>3, DrawnIds
  <2> QED BY <2>1, <2>3, <2>4 DEF Carried, OnceInv, RowsOnce
<1> QED BY <1>1, <1>2, <1>3

LEMMA ProofsCarried ==
  ASSUME TypesInv, OnceInv, AccountNext
  PROVE  Carried(db.proofs, db'.proofs)
<1>0. StateTypes
  BY DEF TypesInv
<1>1. ProofsKept \/ \E r \in Requests : InsertProof(r)
  <2>1. CASE OtherStep
    BY <2>1, OtherKeeps DEF AllKept
  <2>2. ASSUME NEW r \in Requests, HandlerStep(r) PROVE ProofsKept \/ InsertProof(r)
    BY <2>2, LoginKeeps, VerifyKeeps, ResetKeeps, CodeKeeps, EnrollKeeps, ChangeKeeps, CompleteKeeps,
       BrowserKeeps
       DEF HandlerStep, AllKept
  <2> QED BY <1>0, <2>1, <2>2, StepCases
<1>2. CASE ProofsKept
  BY <1>2 DEF ProofsKept, SameProof, Carried, OnceInv, RowsOnce
<1>3. ASSUME NEW r \in Requests, InsertProof(r) PROVE Carried(db.proofs, db'.proofs)
  <2> DEFINE new == [id |-> r, email |-> req[r].email, exp |-> req[r].now + CodeTicks, until |-> 0]
  <2>0. new.id = r
    OBVIOUS
  <2>1. db'.proofs = db.proofs \cup {new}
    BY <1>0, <1>3 DEF InsertProof, StateTypes, Tables
  <2> HIDE DEF new
  <2>2. req[r].at = "prove" /\ req'[r] = Ended
    BY <1>0, <1>3 DEF InsertProof, Stands, Ends, Becomes, StateTypes
  <2>3. ~Drawn(r) /\ Drawn(r)'
    BY <2>2, NewRowDraws
  <2>4. \A p \in db.proofs : p.id # r
    BY <2>3, DrawnIds
  <2> QED BY <2>0, <2>1, <2>3, <2>4 DEF Carried, OnceInv, RowsOnce
<1> QED BY <1>1, <1>2, <1>3

(* The approval of a browser request leaves the session of the browser to  *)
(* nobody.                                                                 *)
LEMMA Approving ==
  ASSUME StateTypes, NEW r \in Requests, ApproveGrant(r)
  PROVE  \E g \in db.grants, s \in db.sessions : \E new :
           /\ new.id = g.id /\ new.used = s.by
           /\ db'.grants = (db.grants \ {g}) \cup {new} /\ db'.sessions = db.sessions \ {s}
<1> DEFINE z(g, s) == [g EXCEPT !.status = "approved", !.acct = s.acct, !.ver = s.ver, !.by = r, !.shown = s.shown, !.used = s.by]
<1>1. PICK g \in db.grants, s \in db.sessions :
        db' = [db EXCEPT !.sessions = ApprovedBy(s), !.grants = (@ \ {g}) \cup {z(g, s)}]
  BY DEF ApproveGrant, GrantOf
<1>2. g \in GrantRows
  BY Subtables
<1>3. z(g, s).id = g.id /\ z(g, s).used = s.by
  BY <1>2 DEF GrantRows
<1> HIDE DEF z
<1>4. db'.grants = (db.grants \ {g}) \cup {z(g, s)} /\ db'.sessions = db.sessions \ {s}
  BY <1>1 DEF StateTypes, Tables, ApprovedBy
<1> QED BY <1>3, <1>4

LEMMA GrantsCarried ==
  ASSUME TypesInv, OnceInv, AccountNext
  PROVE  Carried(db.grants, db'.grants)
<1>0. StateTypes
  BY DEF TypesInv
<1>1. CASE GrantsKept
  BY <1>1 DEF GrantsKept, Carried, OnceInv, RowsOnce
<1>2. ASSUME NEW r \in Requests, StartBrowserAuth(r) PROVE Carried(db.grants, db'.grants)
  <2> DEFINE new == [id |-> r, status |-> "pending", acct |-> None, ver |-> 0, by |-> Past,
                     exp |-> clock + CodeTicks, shown |-> None, used |-> Past]
  <2>0. new.id = r
    OBVIOUS
  <2>1. db'.grants = db.grants \cup {new}
    BY <1>0, <1>2 DEF StartBrowserAuth, StateTypes, Tables
  <2> HIDE DEF new
  <2>2. req[r].at = "unstarted" /\ req'[r] = Ended
    BY <1>0, <1>2, EndedIs DEF StartBrowserAuth, Begins, Ends, Becomes, StateTypes
  <2>3. ~Drawn(r) /\ Drawn(r)'
    BY <2>2, NewRowDraws
  <2>4. \A g \in db.grants : g.id # r
    BY <2>3, DrawnIds
  <2> QED BY <2>0, <2>1, <2>3, <2>4 DEF Carried, OnceInv, RowsOnce
<1>3. ASSUME NEW r \in Requests, ApproveGrant(r) PROVE Carried(db.grants, db'.grants)
  BY <1>0, <1>3, Approving DEF Carried, OnceInv, RowsOnce
<1> QED BY <1>1, <1>2, <1>3, TablesStep

(* The parts of OnceInv after a step.                                      *)
LEMMA RowsStillOnce ==
  ASSUME TypesInv, OnceInv, AccountNext
  PROVE  RowsOnce'
<1>0. OnceInv
  OBVIOUS
<1>1. ASSUME NEW kind, NEW S, NEW T, Carried(S, T),
             \A d \in S : d.id \in Origins /\ Drawn(d.id) /\ ~Spent(kind, d.id),
             \A i : Takes(kind, i) => \E d \in S : d.id = i /\ T = S \ {d},
             \A c, d \in S : c.id = d.id => c = d
      PROVE  \A c \in T : Drawn(c.id)' /\ ~Spent(kind, c.id)'
  <2> TAKE c \in T
  <2>1. CASE \E d \in S : d.id = c.id
    <3>1. c.id \in Origins /\ Drawn(c.id) /\ ~Spent(kind, c.id)
      BY <1>1, <2>1
    <3>2. Drawn(c.id)'
      BY <3>1, DrawnStays
    <3>3. ASSUME Takes(kind, c.id) PROVE FALSE
      BY <1>1, <3>3
    <3>4. ~Spent(kind, c.id)'
      BY <3>1, <3>3, SpentStep
    <3> QED BY <3>2, <3>4
  <2>2. CASE ~Drawn(c.id) /\ Drawn(c.id)'
    BY <2>2, SpentStep, SpentDrawn
  <2> QED BY <1>1, <2>1, <2>2 DEF Carried
<1>2. \A c \in db'.challenges : Drawn(c.id)' /\ ~Spent("challenge", c.id)'
  <2>1. \A i : Takes("challenge", i) => \E d \in db.challenges : d.id = i /\ db'.challenges = db.challenges \ {d}
    BY DEF Takes
  <2> QED BY <1>1, <2>1, ChallengesCarried, DrawnIds DEF OnceInv, RowsOnce
<1>3. \A c \in db'.codes : Drawn(c.id)' /\ ~Spent("legacyCode", c.id)'
  <2>1. \A i : Takes("legacyCode", i) => \E d \in db.codes : d.id = i /\ db'.codes = db.codes \ {d}
    BY DEF Takes
  <2> QED BY <1>1, <2>1, CodesCarried, DrawnIds DEF OnceInv, RowsOnce
<1>4. \A c \in db'.proofs : Drawn(c.id)' /\ ~Spent("proof", c.id)'
  <2>1. \A i : Takes("proof", i) => \E d \in db.proofs : d.id = i /\ db'.proofs = db.proofs \ {d}
    BY DEF Takes
  <2> QED BY <1>1, <2>1, ProofsCarried, DrawnIds DEF OnceInv, RowsOnce
<1>5. \A c \in db'.grants : Drawn(c.id)' /\ ~Spent("browser", c.id)'
  <2>1. \A i : Takes("browser", i) => \E d \in db.grants : d.id = i /\ db'.grants = db.grants \ {d}
    BY DEF Takes
  <2> QED BY <1>1, <2>1, GrantsCarried, DrawnIds DEF OnceInv, RowsOnce
<1> QED BY <1>2, <1>3, <1>4, <1>5, ChallengesCarried, CodesCarried, ProofsCarried, GrantsCarried
        DEF RowsOnce, Carried

LEMMA HeldStillOnce ==
  ASSUME TypesInv, OnceInv, AccountNext
  PROVE  HeldOnce'
<1>1. ASSUME NEW m \in minted' PROVE Drawn(m[1][2])'
  <2>1. m[1][2] \in Origins /\ Drawn(m[1][2])
    <3>1. CASE m \in minted
      BY <3>1, DrawnIds
    <3>2. ASSUME NEW r \in Requests, NEW kind, NEW id, Mints(r, kind, id), m \notin minted
          PROVE  m[1][2] \in Origins /\ Drawn(m[1][2])
      <4>1. m = <<<<kind, id>>, r>> /\ id \in Origins
        BY <3>2 DEF Mints
      <4>2. Spent(kind, id) \/ Takes(kind, id)
        BY <3>2 DEF Mints, Spent
      <4> QED BY <4>1, <4>2, SpentDrawn
    <3> QED BY <3>1, <3>2, MintsStep DEF SessionsKept
  <2> QED BY <2>1, DrawnStays
<1>2. ASSUME NEW m \in minted', NEW q \in Requests, Holds(req'[q], m[1][1], m[1][2]) PROVE FALSE
  <2>1. Holds(req[q], m[1][1], m[1][2]) \/ Takes(m[1][1], m[1][2])
    BY <1>2, HoldsStep
  <2>2. CASE m \in minted
    <3>1. m[1] = <<m[1][1], m[1][2]>>
      BY <2>2 DEF TypesInv, StateTypes, Grants
    <3> QED BY <2>1, <2>2, <3>1, TakenUnspent DEF OnceInv, HeldOnce, Spent
  <2>3. ASSUME NEW r \in Requests, NEW kind, NEW id, Mints(r, kind, id), m \notin minted PROVE FALSE
    <3>1. m[1][1] = kind /\ m[1][2] = id /\ req'[r] = Ended
      BY <2>3 DEF Mints
    <3>2. kind \in {"challenge", "legacyCode", "proof"} /\ id = req'[q].id
      BY <1>2, <3>1 DEF Holds
    <3>3. Holds(req[r], kind, id)
      BY <2>3, <3>2 DEF Mints, Takes
    <3>4. r # q
      BY <1>2, <3>1, EndedIs DEF Holds
    <3> QED BY <2>1, <3>1, <3>2, <3>3, <3>4, TakenUnspent DEF Spent, OnceInv, HeldOnce, Holds
  <2> QED BY <2>2, <2>3, MintsStep DEF SessionsKept
<1>3. ASSUME NEW q \in Requests, NEW r \in Requests, q # r, NEW kind \in {"challenge", "legacyCode", "proof"}, NEW id,
             Holds(req'[q], kind, id), Holds(req'[r], kind, id)
      PROVE  FALSE
  <2>1. \E w \in Requests : \A p \in Requests : p # w => req'[p] = req[p]
    BY OtherTables, HandlerTurn, StepCases DEF TypesInv
  <2>2. Holds(req[q], kind, id) \/ Holds(req[r], kind, id)
    BY <1>3, <2>1
  <2>3. ~Takes(kind, id)
    BY <2>2, TakenUnspent DEF Spent
  <2>4. Holds(req[q], kind, id) /\ Holds(req[r], kind, id)
    BY <1>3, <2>3, HoldsStep
  <2> QED BY <1>3, <2>4 DEF OnceInv, HeldOnce, Holds
<1> QED BY <1>1, <1>2, <1>3 DEF HeldOnce, Holds

(* A session belongs to the request that made it.                          *)
LEMMA SessionsStillOnce ==
  ASSUME TypesInv, OnceInv, AccountNext
  PROVE  SessionsOnce' /\ GrantOnce'
<1>0. StateTypes
  BY DEF TypesInv
<1>1. \A s \in db.sessions : s.by \in Origins /\ Finished(s.by)
  BY <1>0, Subtables DEF SessionRows, OnceInv, SessionsOnce, Finished
<1>2. \A s \in db'.sessions : s \in db.sessions \/ \E r \in Requests : s.by = r /\ req[r] # Ended /\ req'[r] = Ended
  BY MintsStep DEF SessionsKept, Mints
<1>3. \A s, t \in db'.sessions : s \in db.sessions \/ t \in db.sessions \/ s = t
  BY MintsStep DEF SessionsKept, Mints
<1>4. \A r \in Requests : req[r] # Ended => ~Finished(r)
  BY RequestsAssumption DEF Finished, Past
<1>5. \A s \in db'.sessions : Finished(s.by)'
  <2> TAKE s \in db'.sessions
  <2>1. CASE s \in db.sessions
    BY <1>1, <2>1, FinishedStays
  <2>2. CASE s \notin db.sessions
    BY <1>2, <2>2 DEF Finished
  <2> QED BY <2>1, <2>2
<1>6. \A s, t \in db'.sessions : s.by = t.by => s = t
  BY <1>1, <1>2, <1>3, <1>4 DEF OnceInv, SessionsOnce
<1>7. \A g \in db'.grants : g.status = "approved" =>
        /\ g.used \in Origins /\ Finished(g.used)
        /\ \A s \in db.sessions \cap db'.sessions : s.by # g.used
  <2>1. ASSUME NEW g \in db.grants, g.status = "approved"
        PROVE  g.used \in Origins /\ Finished(g.used) /\ \A s \in db.sessions : s.by # g.used
    BY <1>0, <2>1, Subtables DEF GrantRows, OnceInv, SessionsOnce, GrantOnce, Finished
  <2>2. ASSUME NEW r \in Requests, StartBrowserAuth(r), NEW g \in db'.grants, g \notin db.grants
        PROVE  g.status = "pending"
    BY <1>0, <2>2 DEF StartBrowserAuth, StateTypes, Tables
  <2>3. ASSUME NEW r \in Requests, ApproveGrant(r), NEW g \in db'.grants, g \notin db.grants
        PROVE  g.used \in Origins /\ Finished(g.used) /\ \A s \in db'.sessions : s.by # g.used
    <3>1. PICK s \in db.sessions : g.used = s.by /\ db'.sessions = db.sessions \ {s}
      BY <1>0, <2>3, Approving
    <3> QED BY <1>1, <3>1 DEF OnceInv, SessionsOnce
  <2> QED BY <2>1, <2>2, <2>3, TablesStep DEF GrantsKept
<1>8. \A g \in db'.grants : g.status = "approved" => Finished(g.used)' /\ \A s \in db'.sessions : s.by # g.used
  BY <1>2, <1>4, <1>7, FinishedStays
<1>9. \A m, n \in minted' : m[1] = n[1] => m = n
  <2>1. CASE minted' = minted
    BY <2>1 DEF OnceInv, GrantOnce
  <2>2. ASSUME NEW r \in Requests, NEW kind, NEW id, Mints(r, kind, id)
        PROVE  \A m, n \in minted' : m[1] = n[1] => m = n
    <3>1. minted' = minted \cup {<<<<kind, id>>, r>>}
      BY <2>2 DEF Mints
    <3>2. ASSUME NEW m \in minted, m[1] = <<kind, id>> PROVE FALSE
      <4>1. m[1][1] = kind /\ m[1][2] = id
        BY <3>2
      <4>2. ~Holds(req[r], kind, id)
        BY <3>2, <4>1 DEF OnceInv, HeldOnce
      <4>3. Takes(kind, id)
        BY <2>2, <4>2 DEF Mints
      <4> QED BY <3>2, <4>3, TakenUnspent DEF Spent
    <3> QED BY <3>1, <3>2 DEF OnceInv, GrantOnce
  <2> QED BY <2>1, <2>2, MintsStep DEF SessionsKept
<1> QED BY <1>5, <1>6, <1>8, <1>9 DEF SessionsOnce, GrantOnce, Finished

LEMMA InitOnce == ASSUME StoreInit PROVE OnceInv
<1>1. \A r \in Requests : req[r].id = Past /\ \A kind, id : ~Holds(req[r], kind, id)
  BY InitTables, EndedIs DEF Holds
<1>2. \A kind, id : ~Spent(kind, id)
  BY <1>1, InitTables DEF Spent
<1>3. \A past : PastCode(past).id = Past /\ PastProof(past).id = Past
  BY DEF PastCode, PastProof
<1>4. \A s \in db.sessions : s.by = Past
  BY InitTables DEF PastSession, SessionOf
<1> QED BY <1>1, <1>2, <1>3, <1>4, InitTables
        DEF OnceInv, RowsOnce, HeldOnce, SessionsOnce, GrantOnce, Drawn, Finished

(* An identifier of a mailed code, a proof or a browser request names one  *)
(* row, and after the row is taken it is in one request's hands until its  *)
(* session is made.                                                        *)
THEOREM AccountOnce == AccountSpec => []OnceInv
<1>1. StoreInit => OnceInv
  BY InitOnce
<1>2. TypesInv /\ OnceInv /\ [AccountNext]_storeVars => OnceInv'
  <2>1. ASSUME TypesInv, OnceInv, AccountNext PROVE OnceInv'
    BY <2>1, IdsDrawn, RowsStillOnce, HeldStillOnce, SessionsStillOnce DEF OnceInv
  <2>2. OnceInv /\ UNCHANGED storeVars => OnceInv'
    BY DEF storeVars, OnceInv, RowsOnce, HeldOnce, SessionsOnce, GrantOnce, Drawn, Finished, Spent, Holds
  <2> QED BY <2>1, <2>2
<1> QED BY <1>1, <1>2, AccountTypes, PTL DEF AccountSpec

(* However many requests submit it at once, a mailed code, a proof or a    *)
(* browser request makes one session; and the session that approved a      *)
(* browser request is gone.                                                *)
THEOREM AccountGrantOnce == AccountSpec => []GrantOnce
<1>1. OnceInv => GrantOnce
  BY DEF OnceInv
<1> QED BY <1>1, AccountOnce, PTL
===============================================================================
