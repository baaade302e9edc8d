----------------------------- MODULE BrowserSignIn -----------------------------
(***************************************************************************)
(* The sign-in of the desktop application through the browser, in          *)
(* worker.ts: the application starts a request and polls it, and the       *)
(* account page, freshly signed in with a password, approves it with its   *)
(* own session, which is consumed.  browserAuthRequest only reads.  The    *)
(* minimal distance of two polls is left out.                              *)
(***************************************************************************)
EXTENDS AccountStore

GrantOf(id) == {g \in db.grants : g.id = id}

StartBrowserAuth(r) ==
  /\ Begins(r, "browserStart")
  /\ db' = [db EXCEPT !.grants = @ \cup
              {[id |-> r, status |-> "pending", acct |-> None, ver |-> 0, by |-> Past,
                exp |-> clock + CodeTicks, shown |-> None, used |-> Past]}]
  /\ Ends(r)
  /\ OnlyTables

(* The session must be fresh, usable and of an account with a password.    *)
(* A session is told from the others by the request that made it.          *)
Approves(s, now) ==
  /\ Usable(s)
  /\ db.accounts[s.acct].uid # None
  /\ s.at <= now /\ now - s.at <= CodeTicks

ApproveSession(r, s, g) ==
  /\ Begins(r, "browserApprove")
  /\ Approves(s, clock)
  /\ Becomes(r, [New("browserApprove", "approve") EXCEPT !.id = g.id, !.acct = s.acct, !.ver = s.ver, !.n = s.by])
  /\ OnlyRequests

(* Slip: the session is kept for the browser to go on with.                *)
ApprovedBySessionKept(s) == db.sessions
ApprovedBy(s)            == db.sessions \ {s}

(* One batch: the grant is approved and the session deleted, or neither.   *)
ApproveGrant(r) ==
  /\ Stands(r, "browserApprove", "approve")
  /\ \E g \in GrantOf(req[r].id), s \in db.sessions :
       /\ g.status = "pending" /\ g.exp > req[r].now
       /\ s.by = req[r].n /\ s.acct = req[r].acct /\ s.ver = req[r].ver
       /\ Approves(s, req[r].now)
       /\ db' = [db EXCEPT
                   !.sessions = ApprovedBy(s),
                   !.grants = (@ \ {g}) \cup {[g EXCEPT !.status = "approved", !.acct = s.acct, !.ver = s.ver,
                                                       !.by = r, !.shown = s.shown, !.used = s.by]}]
  /\ Ends(r)
  /\ OnlyTables

PollBrowserAuth(r, g) ==
  /\ Begins(r, "browserPoll")
  /\ g.exp > clock
  /\ g.status = "approved"
  /\ Becomes(r, [New("browserPoll", "account") EXCEPT !.id = g.id, !.acct = g.acct, !.ver = g.ver])
  /\ OnlyRequests

PollAccount(r) ==
  LET row == db.accounts[req[r].acct]
  IN  /\ Stands(r, "browserPoll", "account")
      /\ IF row.ver = req[r].ver /\ row.uid # None
         THEN Goes(r, "mint") /\ UNCHANGED db
         ELSE Ends(r) /\ db' = [db EXCEPT !.grants = @ \ GrantOf(req[r].id)]
      /\ OnlyTables

(* Slip: the batch mints for the account as it was read.                   *)
RedeemableAsRead(r, g) == TRUE
Redeemable(r, g) ==
  /\ g.status = "approved" /\ g.exp > req[r].now
  /\ g.ver = req[r].ver /\ db.accounts[g.acct].ver = g.ver
  /\ db.accounts[g.acct].uid # None

(* One batch: a session of the account as it is, and the grant is deleted. *)
PollMint(r) ==
  /\ Stands(r, "browserPoll", "mint")
  /\ \E g \in GrantOf(req[r].id) :
       /\ Redeemable(r, g)
       /\ db' = [db EXCEPT
                   !.sessions = @ \cup {SessionOf(r, g.acct, <<"browser", g.id>>, db.accounts[g.acct].ver,
                                                  req[r].now, g.shown)},
                   !.grants = @ \ {g}]
       /\ minted' = minted \cup {<<<<"browser", g.id>>, r>>}
  /\ Ends(r)
  /\ UNCHANGED <<firebase, clock, mix, revoked>>

CancelBrowserAuth(g) ==
  /\ "browserCancel" \in mix.operations
  /\ db' = [db EXCEPT !.grants = @ \ {g}]
  /\ UNCHANGED req /\ OnlyTables

BrowserNext ==
  \/ \E r \in Made :
       \/ StartBrowserAuth(r)
       \/ \E s \in db.sessions, g \in db.grants : ApproveSession(r, s, g)
       \/ ApproveGrant(r)
       \/ \E g \in db.grants : PollBrowserAuth(r, g)
       \/ PollAccount(r) \/ PollMint(r)
  \/ \E g \in db.grants : CancelBrowserAuth(g)
===============================================================================
