---------------------------- MODULE AccountService ----------------------------
(***************************************************************************)
(* The account service, cloudflare/account-api/src/worker.ts: all its      *)
(* requests over the same tables, and what holds of them.                  *)
(***************************************************************************)
EXTENDS MailCodes, EmailChange, BrowserSignIn, FiniteSets

AccountNext ==
  \/ StoreNext
  \/ PasswordNext
  \/ MailCodesNext
  \/ EmailChangeNext
  \/ BrowserNext

AccountSpec == StoreInit /\ [][AccountNext]_storeVars

(***************************************************************************)
(* Properties                                                              *)
(***************************************************************************)
(* The tables, the identities and the requests have their types.           *)
AccountTypeOK ==
  /\ \A a \in Accounts : db.accounts[a] \in
       [email : Emails \cup {None}, uid : Uids \cup {None}, ver : Nat]
  /\ \A s \in db.sessions : s.acct \in Accounts /\ s.ver \in Nat /\ s.by \in Requests \cup {Past}
  /\ \A c \in db.challenges : c.attempts \in 0 .. MaxAttempts /\ c.acct \in Accounts /\ c.uid \in Uids
  /\ \A c \in db.codes : c.attempts \in 0 .. MaxAttempts /\ c.email \in Emails
  /\ \A g \in db.grants : g.status = "approved" <=> g.acct \in Accounts
  /\ \A change \in db.changes : change.old # change.new /\ change.acct \in Accounts
  /\ \A u \in Uids : firebase.ids[u] \in [email : Emails, pw : Passwords] \cup {NoIdentity}
  /\ \A r \in Requests : req[r].ver \in Nat /\ req[r].acct \in Accounts \cup {None}
  /\ clock \in 0 .. MaxClock

(* The unique columns: an address, an identity, a challenge, a change and  *)
(* a reservation belong to one account each.  Every INSERT and UPDATE of   *)
(* worker.ts relies on it when it takes the first row.                     *)
OneRowEach ==
  /\ \A a, b \in Accounts : a # b =>
       /\ db.accounts[a].email = db.accounts[b].email => db.accounts[a].email = None
       /\ db.accounts[a].uid = db.accounts[b].uid => db.accounts[a].uid = None
  /\ \A c, d \in db.challenges : c.acct = d.acct => c = d
  /\ \A c, d \in db.changes : c.acct = d.acct \/ c.new = d.new => c = d

(* A mailed code, a proof of enrolment and a browser request make at most  *)
(* one session, however many requests submit it at once; and a browser     *)
(* request moves the session that approved it to the application, it does  *)
(* not copy it.                                                            *)
GrantOnce ==
  /\ \A m, n \in minted : m[1] = n[1] => m = n
  /\ \A g \in db.grants : g.status = "approved" => \A s \in db.sessions : s.by # g.used

(* Whoever is signed in with a password and a code, or through a browser   *)
(* that was, showed the password after the last revocation of the          *)
(* account's sessions began: an old sign-in is never bound to a newer      *)
(* credential version.  A session made of a mailed code or a proof alone   *)
(* has no such moment, nor has one that it approves.                       *)
ShownSinceRevoked ==
  \A s \in db.sessions : s.shown # None /\ Usable(s) => s.shown = revoked[s.acct]

(* A code of the old kind never signs in an account that has a password.   *)
CodeNoBypass ==
  \A s \in db.sessions :
    s.grant[1] = "legacyCode" /\ Usable(s) => db.accounts[s.acct].uid = None

(* Callbacks of one e-mail change do not overlap: of two between the       *)
(* invalidation and the end, one no longer has the account's version.      *)
OneCallback ==
  \A q, r \in Requests :
    /\ q # r
    /\ \A x \in {q, r} : req[x].op = "completeChange" /\ req[x].at \in {"apply", "finalize"}
    /\ req[q].acct = req[r].acct
    => req[q].ver # req[r].ver

(* The address of an account with a password is one that Firebase has      *)
(* verified for its identity, whatever is cut off between the two; but one *)
(* that a callback completed on an answer without an identity may have     *)
(* been verified for another one.                                          *)
EmailWasVerified ==
  \A a \in Accounts :
    LET row == db.accounts[a]
    IN  row.uid # None =>
          \/ row.email \in firebase.held[row.uid]
          \/ row.email \in firebase.crossed[row.uid] /\ \E u \in Uids : row.email \in firebase.held[u]
===============================================================================
