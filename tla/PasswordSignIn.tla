---------------------------- MODULE PasswordSignIn ----------------------------
(***************************************************************************)
(* passwordLogin, verifyPasswordLoginCode and completePasswordReset of     *)
(* worker.ts: a password proves the first factor, a code mailed to the     *)
(* address the second, and a reset revokes what was signed in before.      *)
(***************************************************************************)
EXTENDS AccountStore

(***************************************************************************)
(* passwordLogin                                                           *)
(***************************************************************************)
Matches(a, v, e) ==
  /\ a # None
  /\ db.accounts[a].ver = v /\ db.accounts[a].email = e
MayLink(a, u) == db.accounts[a].uid \in {None, u}

(* old and n hold the snapshot of the account at the address.              *)
LoginSnapshot(r, e, p) ==
  /\ Begins(r, "login")
  /\ Becomes(r, [New("login", "authenticate") EXCEPT !.email = e, !.pw = p, !.old = OwnerOf(e),
                   !.n = IF OwnerOf(e) = None THEN 0 ELSE db.accounts[OwnerOf(e)].ver])
  /\ OnlyRequests

LoginAuthenticate(r) ==
  /\ Stands(r, "login", "authenticate")
  /\ \E u \in Uids :
       /\ SignsIn(u, req[r].email, req[r].pw)
       /\ Becomes(r, [req[r] EXCEPT !.at = "resolve", !.uid = u])
  /\ OnlyRequests

(* The account of the identity, unless the snapshot was another one.       *)
LoginResolve(r) ==
  LET a == AccountOf(req[r].uid)
      v == IF a = None THEN 0 ELSE db.accounts[a].ver
  IN  /\ Stands(r, "login", "resolve")
      /\ a = None \/ req[r].old = None \/ (req[r].old = a /\ req[r].n = v)
      /\ Becomes(r, [req[r] EXCEPT !.at = "owner", !.acct = a, !.ver = v, !.n = 0,
                       !.old = IF a = None THEN None ELSE db.accounts[a].email])
      /\ OnlyRequests

LoginOwner(r) ==
  LET owner == OwnerOf(req[r].email)
  IN  /\ Stands(r, "login", "owner")
      /\ owner # None => IF req[r].acct # None THEN owner = req[r].acct ELSE MayLink(owner, req[r].uid)
      /\ Goes(r, "reserved")
      /\ OnlyRequests

LoginReserved(r) ==
  /\ Stands(r, "login", "reserved")
  /\ \A change \in Reserved(req[r].email) : change.acct = req[r].acct
  /\ Goes(r, IF req[r].acct = None THEN "insert" ELSE "confirm")
  /\ OnlyRequests

(* An account without a password, unless the address is taken or reserved. *)
InsertAccount(e) ==
  IF OwnerOf(e) = None /\ Reserved(e) = {}
  THEN \E a \in Accounts :
         /\ db.accounts[a] = NoAccount
         /\ db' = [db EXCEPT !.accounts[a] = [email |-> e, uid |-> None, ver |-> 0]]
  ELSE UNCHANGED db

LoginInsert(r) ==
  /\ Stands(r, "login", "insert")
  /\ InsertAccount(req[r].email)
  /\ Goes(r, "reselect")
  /\ OnlyTables

LoginReselect(r) ==
  LET a == OwnerOf(req[r].email)
  IN  /\ Stands(r, "login", "reselect")
      /\ a # None
      /\ MayLink(a, req[r].uid)
      /\ Becomes(r, [req[r] EXCEPT !.at = "confirm", !.acct = a, !.ver = db.accounts[a].ver, !.old = req[r].email])
      /\ OnlyRequests

LoginConfirm(r) ==
  /\ Stands(r, "login", "confirm")
  /\ SignsIn(req[r].uid, req[r].email, req[r].pw)
  /\ Becomes(r, [req[r] EXCEPT !.at = "recheck", !.shown = revoked[req[r].acct]])
  /\ OnlyRequests

StillConfirmed(r) ==
  /\ Matches(req[r].acct, req[r].ver, req[r].old)
  /\ MayLink(req[r].acct, req[r].uid)

LoginRecheck(r) ==
  /\ Stands(r, "login", "recheck")
  /\ StillConfirmed(r)
  /\ Goes(r, "clear")
  /\ OnlyRequests

ChallengesOf(a) == {c \in db.challenges : c.acct = a}

LoginClear(r) ==
  /\ Stands(r, "login", "clear")
  /\ db' = [db EXCEPT !.challenges = @ \ ChallengesOf(req[r].acct)]
  /\ Goes(r, "challenge")
  /\ OnlyTables

(* Slip: the challenge takes the version the account has by now.           *)
MayChallengeAnyVersion(r) ==
  /\ db.accounts[req[r].acct].email = req[r].old
  /\ MayLink(req[r].acct, req[r].uid)
MayChallenge(r) == StillConfirmed(r)

(* account_id is unique: an overlapping sign-in fails.                     *)
OnlyChallenge(a) == ChallengesOf(a) = {}

LoginChallenge(r) ==
  /\ Stands(r, "login", "challenge")
  /\ MayChallenge(r)
  /\ OnlyChallenge(req[r].acct)
  /\ db' = [db EXCEPT !.challenges = @ \cup
              {[id |-> r, acct |-> req[r].acct, uid |-> req[r].uid, ver |-> db.accounts[req[r].acct].ver,
                attempts |-> 0, exp |-> req[r].now + CodeTicks, email |-> req[r].email,
                sent |-> FALSE, shown |-> req[r].shown]}]
  /\ Goes(r, "send")
  /\ OnlyTables

(* The client learns the challenge only if the mail went out.              *)
LoginSend(r) ==
  /\ Stands(r, "login", "send")
  /\ \E mailed \in BOOLEAN :
       db' = [db EXCEPT !.challenges = {c \in @ : c.id # r}
                \cup IF mailed THEN {[c EXCEPT !.sent = TRUE] : c \in {c \in @ : c.id = r}} ELSE {}]
  /\ Ends(r)
  /\ OnlyTables

(***************************************************************************)
(* verifyPasswordLoginCode                                                 *)
(***************************************************************************)
(* Slip: one attempt more.                                                 *)
OneTryMore(c) == c.attempts <= MaxAttempts
MayTry(c)     == c.attempts < MaxAttempts

VerifyAttempt(r, c, right) ==
  /\ Begins(r, "verify")
  /\ right \/ "guess" \in mix.operations
  /\ c.sent /\ c.exp > clock /\ MayTry(c)
  /\ db' = [db EXCEPT !.challenges = (@ \ {c}) \cup {[c EXCEPT !.attempts = @ + 1]}]
  /\ Becomes(r, [New("verify", IF right THEN "compare" ELSE "wrong") EXCEPT !.id = c.id, !.n = c.attempts + 1])
  /\ OnlyTables

VerifyWrong(r) ==
  /\ Stands(r, "verify", "wrong")
  /\ db' = [db EXCEPT !.challenges =
       IF req[r].n < MaxAttempts THEN @ ELSE {c \in @ : c.id # req[r].id \/ c.attempts < MaxAttempts}]
  /\ Ends(r)
  /\ OnlyTables

VerifyCompare(r) ==
  /\ Stands(r, "verify", "compare")
  /\ \E c \in db.challenges : c.id = req[r].id
  /\ Goes(r, "consume")
  /\ OnlyRequests

(* Slip: the row is deleted later, with the others of the account.         *)
ConsumedLater(r, c) == db.challenges
Consumed(r, c)      == db.challenges \ {c}

VerifyConsume(r) ==
  /\ Stands(r, "verify", "consume")
  /\ \E c \in db.challenges :
       /\ c.id = req[r].id /\ c.attempts = req[r].n /\ c.exp > req[r].now
       /\ db' = [db EXCEPT !.challenges = Consumed(r, c)]
       /\ Becomes(r, [req[r] EXCEPT !.at = "account", !.acct = c.acct, !.uid = c.uid, !.ver = c.ver,
                        !.email = c.email, !.n = 0, !.shown = c.shown])
  /\ OnlyTables

VerifyAccount(r) ==
  /\ Stands(r, "verify", "account")
  /\ db.accounts[req[r].acct].ver = req[r].ver
  /\ MayLink(req[r].acct, req[r].uid)
  /\ Becomes(r, [req[r] EXCEPT !.old = db.accounts[req[r].acct].email,
                   !.at = IF db.accounts[req[r].acct].uid = None THEN "link" ELSE "change"])
  /\ OnlyRequests

(* Slip: the account gets the identity and keeps its version.              *)
LinkedSameVersion(row, u) == [row EXCEPT !.uid = u]
Linked(row, u)            == [row EXCEPT !.uid = u, !.ver = @ + 1]

(* UPDATE OR IGNORE: firebase_uid is unique.                               *)
Link(a, u) ==
  IF db.accounts[a].uid = None /\ Unlinked(u)
  THEN db' = [db EXCEPT !.accounts[a] = Linked(@, u)]
  ELSE UNCHANGED db

VerifyLink(r) ==
  /\ Stands(r, "verify", "link")
  /\ IF db.accounts[req[r].acct].ver = req[r].ver THEN Link(req[r].acct, req[r].uid) ELSE UNCHANGED db
  /\ Goes(r, "revoke")
  /\ OnlyTables

RevokedTables(a) ==
  [db EXCEPT !.sessions = {s \in @ : s.acct # a}, !.challenges = {c \in @ : c.acct # a},
             !.grants = {g \in @ : g.acct # a}]

VerifyRevoke(r) ==
  /\ Stands(r, "verify", "revoke")
  /\ db' = RevokedTables(req[r].acct)
  /\ Goes(r, "linked")
  /\ OnlyTables

VerifyLinked(r) ==
  LET row == db.accounts[req[r].acct]
  IN  /\ Stands(r, "verify", "linked")
      /\ row.ver = req[r].ver + 1 /\ row.uid = req[r].uid
      /\ Becomes(r, [req[r] EXCEPT !.at = "change", !.ver = row.ver, !.old = row.email])
      /\ OnlyRequests

(* A change that is being applied keeps the old address from signing in.   *)
VerifyChange(r) ==
  /\ Stands(r, "verify", "change")
  /\ \A change \in db.changes :
       change.acct = req[r].acct /\ change.status = "applying" => change.new = req[r].email
  /\ Goes(r, IF req[r].old # req[r].email THEN "reconcile" ELSE "mint")
  /\ OnlyRequests

(* Firebase has changed the address already: the account follows.  If it   *)
(* cannot, the request fails.                                              *)
VerifyReconcile(r) ==
  LET a == req[r].acct
      e == req[r].email
  IN  /\ Stands(r, "verify", "reconcile")
      /\ Matches(a, req[r].ver, req[r].old) /\ db.accounts[a].uid = req[r].uid
      /\ FreeFor(a, e)
      /\ \A change \in Reserved(e) : change.acct = a
      /\ db' = [RevokedTables(a) EXCEPT !.accounts[a].email = e, !.accounts[a].ver = @ + 1,
                                        !.changes = {change \in @ : change.acct # a}]
      /\ Goes(r, "reread")
      /\ OnlyTables

VerifyReread(r) ==
  /\ Stands(r, "verify", "reread")
  /\ Matches(req[r].acct, req[r].ver + 1, req[r].email) /\ db.accounts[req[r].acct].uid = req[r].uid
  /\ Becomes(r, [req[r] EXCEPT !.at = "mint", !.ver = @ + 1])
  /\ OnlyRequests

VerifyMint(r) == Stands(r, "verify", "mint") /\ Mint(r, "challenge", req[r].now)

(***************************************************************************)
(* requestPasswordReset, requestPasswordChange, completePasswordReset      *)
(***************************************************************************)
RequestReset(r, u) ==
  /\ Begins(r, "requestReset")
  /\ firebase.ids[u] # NoIdentity
  /\ firebase' = [firebase EXCEPT !.links = @ \cup {[id |-> r, kind |-> "reset", uid |-> u,
                    email |-> firebase.ids[u].email, new |-> None]}]
  /\ Ends(r)
  /\ UNCHANGED <<db, clock, mix, minted, revoked>>

ResetCheck(r, link, p) ==
  /\ Begins(r, "reset")
  /\ link.kind = "reset"
  /\ Becomes(r, [New("reset", "find") EXCEPT !.id = link.id, !.uid = link.uid, !.email = link.email, !.pw = p])
  /\ OnlyRequests

ResetFind(r) ==
  LET a == OwnerOf(req[r].email)
  IN  /\ Stands(r, "reset", "find")
      /\ Becomes(r, [req[r] EXCEPT !.acct = a, !.at = IF a = None THEN "apply" ELSE "bump"])
      /\ OnlyRequests

(* Slip: the version stays, as the sessions are deleted anyway.            *)
KeptVersion(v)   == v
RaisedVersion(v) == v + 1

ResetBump(r) ==
  /\ Stands(r, "reset", "bump")
  /\ db' = [db EXCEPT !.accounts[req[r].acct].ver = RaisedVersion(@)]
  /\ revoked' = [revoked EXCEPT ![req[r].acct] = @ + 1]
  /\ Goes(r, "sessions")
  /\ UNCHANGED <<firebase, clock, mix, minted>>

ResetSessions(r) ==
  /\ Stands(r, "reset", "sessions")
  /\ db' = [db EXCEPT !.sessions = {s \in @ : s.acct # req[r].acct}]
  /\ Goes(r, "challenges")
  /\ OnlyTables

ResetChallenges(r) ==
  /\ Stands(r, "reset", "challenges")
  /\ db' = [db EXCEPT !.challenges = {c \in @ : c.acct # req[r].acct}]
  /\ Goes(r, "apply")
  /\ OnlyTables

ResetApply(r) ==
  /\ Stands(r, "reset", "apply")
  /\ \E link \in firebase.links :
       /\ link.id = req[r].id
       /\ firebase' = [firebase EXCEPT !.ids[link.uid].pw = req[r].pw, !.links = @ \ {link}]
  /\ Ends(r)
  /\ UNCHANGED <<db, clock, mix, minted, revoked>>

PasswordNext ==
  \E r \in Made :
    \/ \E e \in mix.emails, p \in mix.passwords : LoginSnapshot(r, e, p)
    \/ LoginAuthenticate(r) \/ LoginResolve(r) \/ LoginOwner(r) \/ LoginReserved(r)
    \/ LoginInsert(r) \/ LoginReselect(r) \/ LoginConfirm(r) \/ LoginRecheck(r)
    \/ LoginClear(r) \/ LoginChallenge(r) \/ LoginSend(r)
    \/ \E c \in db.challenges, right \in BOOLEAN : VerifyAttempt(r, c, right)
    \/ VerifyWrong(r) \/ VerifyCompare(r) \/ VerifyConsume(r) \/ VerifyAccount(r)
    \/ VerifyLink(r) \/ VerifyRevoke(r) \/ VerifyLinked(r) \/ VerifyChange(r)
    \/ VerifyReconcile(r) \/ VerifyReread(r) \/ VerifyMint(r)
    \/ \E u \in Uids : RequestReset(r, u)
    \/ \E link \in firebase.links, p \in mix.passwords : ResetCheck(r, link, p)
    \/ ResetFind(r) \/ ResetBump(r) \/ ResetSessions(r) \/ ResetChallenges(r) \/ ResetApply(r)
===============================================================================
