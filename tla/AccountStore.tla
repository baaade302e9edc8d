----------------------------- MODULE AccountStore -----------------------------
(***************************************************************************)
(* What the requests of cloudflare/account-api/src/worker.ts share: the D1 *)
(* tables, the identities Firebase keeps, sessions, and a request as a     *)
(* program counter with what it has read so far.                           *)
(*                                                                         *)
(* A request is a Worker invocation of its own, so requests interleave at  *)
(* every await.  One D1 statement, one batch and one call of Firebase is a *)
(* step each.  A request that answers with an error, throws or is cut off  *)
(* takes no further step, and no step is fair: it may be so anywhere.      *)
(* Error paths that change something are actions of their own.             *)
(*                                                                         *)
(* Tokens, codes and hashes are the request that drew them.  Rate limits,  *)
(* the profile (display name, avatar) and request validation are left out, *)
(* and so is the deletion of rows that no statement would select any more. *)
(* Time is a clock of few ticks, because a request judges expiry by the    *)
(* moment it began (now) while others go on.                               *)
(***************************************************************************)
EXTENDS Naturals

CONSTANTS
  Accounts,    \* identifiers of accounts
  Emails,
  Uids,        \* Firebase identities
  Passwords,
  Requests,    \* requests, numbered; each is made once
  Mixes,       \* what the clients of a behaviour ask for, and what was before
  MaxAttempts, \* MAX_CODE_ATTEMPTS
  MaxClock,    \* bound of the clock
  LeaseTicks,  \* PASSWORD_SETUP_LEASE_MS and the lease of an e-mail change
  CodeTicks,   \* CODE_TTL_MS, LOGIN_CHALLENGE_TTL_MS, BROWSER_AUTH_TTL_MS
  ChangeTicks, \* EMAIL_CHANGE_TTL_MS
  None

ASSUME RequestsAssumption == Requests \subseteq Nat \ {0}
ASSUME NoneAssumption == None \notin Accounts \cup Emails \cup Uids \cup Passwords \cup Nat
ASSUME NamesAssumption ==
  Accounts # {} /\ Uids # {} /\ Passwords # {} /\ \E e, f \in Emails : e # f
ASSUME TicksAssumption ==
  /\ LeaseTicks \in Nat \ {0} /\ CodeTicks \in Nat /\ ChangeTicks \in Nat
  /\ MaxClock \in Nat /\ MaxAttempts \in Nat

Couples == {"reserved", "crossed"}  \* two accounts at once
Pasts == {"empty", "legacy", "unlinked", "mailed", "proven", "orphan", "registered", "resetting", "changing",
          "moved"} \cup Couples
Distinct(S) == \E x, y \in S : x # y
ASSUME MixesAssumption ==
  \A m \in Mixes :
    /\ m.past \in Pasts /\ m.emails \subseteq Emails /\ m.passwords \subseteq Passwords
    /\ m.past \in Couples => Distinct(Accounts) /\ Distinct(Uids) /\ \A e \in Emails : Distinct(Emails \ {e})

VARIABLES
  db,        \* the tables
  firebase,  \* identities, outstanding action codes, addresses ever verified; witness: crossed
  req,       \* req[r]: where request r stands
  clock,
  mix,       \* the element of Mixes this behaviour is about
  minted,    \* witness: grants and the requests that made sessions of them
  revoked    \* witness: revoked[a] counts the times the sessions of a were revoked

storeVars == <<db, firebase, req, clock, mix, minted, revoked>>

NoAccount  == [email |-> None, uid |-> None, ver |-> 0]
NoIdentity == [email |-> None, pw |-> None]
Past       == 0  \* stands for the request that made what is there in the beginning
Unstarted  == [op |-> "none", at |-> "unstarted", email |-> None, pw |-> None,
               uid |-> None, acct |-> None, ver |-> 0, old |-> None, id |-> 0,
               n |-> 0, now |-> 0, shown |-> None]
Ended      == [Unstarted EXCEPT !.at = "ended"]

(* SELECT ... FROM accounts WHERE email = ?, and WHERE firebase_uid = ?    *)
OwnerOf(e) ==
  LET owners == {a \in Accounts : db.accounts[a].email = e}
  IN  IF owners = {} THEN None ELSE CHOOSE a \in owners : TRUE
AccountOf(u) ==
  LET linked == {a \in Accounts : db.accounts[a].uid = u}
  IN  IF linked = {} THEN None ELSE CHOOSE a \in linked : TRUE
(* NOT EXISTS ... other.email = ?, and the unique columns email and        *)
(* firebase_uid.  Slip: the statement trusts what was selected before it.  *)
FreeWhenRead(a, e) == TRUE
FreeFor(a, e)      == OwnerOf(e) \in {None, a}
Unlinked(u)        == AccountOf(u) = None
Reserved(e) == {change \in db.changes : change.new = e}

(* accounts:signInWithPassword *)
SignsIn(u, e, p) == firebase.ids[u] = [email |-> e, pw |-> p]

(***************************************************************************)
(* Requests                                                                *)
(***************************************************************************)
Made == {r \in Requests : r <= mix.requests}

(* Requests are numbered as they begin.                                    *)
Begins(r, op) ==
  /\ req[r] = Unstarted
  /\ \A q \in Requests : q < r => req[q] # Unstarted
  /\ op \in mix.operations
New(op, at) == [Unstarted EXCEPT !.op = op, !.at = at, !.now = clock]
Becomes(r, request) == req' = [req EXCEPT ![r] = request]
Stands(r, op, at) == req[r].op = op /\ req[r].at = at
Goes(r, at) == Becomes(r, [req[r] EXCEPT !.at = at])
Ends(r) == Becomes(r, Ended)

OnlyRequests == UNCHANGED <<db, firebase, clock, mix, minted, revoked>>
OnlyTables   == UNCHANGED <<firebase, clock, mix, minted, revoked>>

(***************************************************************************)
(* Sessions                                                                *)
(***************************************************************************)
Usable(s) == s.ver = db.accounts[s.acct].ver

SessionOf(r, a, grant, v, at, shown) ==
  [by |-> r, acct |-> a, grant |-> grant, ver |-> v, at |-> at, shown |-> shown]

(* createSession: it writes the version the handler read earlier.          *)
Mint(r, kind, at) ==
  LET grant == <<kind, req[r].id>>
  IN  /\ db' = [db EXCEPT !.sessions =
                  @ \cup {SessionOf(r, req[r].acct, grant, req[r].ver, at, req[r].shown)}]
      /\ minted' = minted \cup {<<grant, r>>}
      /\ Ends(r)
      /\ UNCHANGED <<firebase, clock, mix, revoked>>

(* authenticate: a session of another credential version is deleted when   *)
(* it is used.                                                             *)
UseStaleSession(s) ==
  /\ ~Usable(s)
  /\ db' = [db EXCEPT !.sessions = @ \ {s}]
  /\ UNCHANGED req /\ OnlyTables

(* signout; rememberWebSession also deletes the session of the cookie.     *)
SignOut(bearer, cookie) ==
  /\ "signout" \in mix.operations
  /\ db' = [db EXCEPT !.sessions = @ \ {bearer, cookie}]
  /\ UNCHANGED req /\ OnlyTables

Tick ==
  /\ "wait" \in mix.operations
  /\ clock < MaxClock
  /\ clock' = clock + 1
  /\ UNCHANGED <<db, firebase, req, mix, minted, revoked>>

StoreNext ==
  \/ \E s \in db.sessions : UseStaleSession(s)
  \/ \E s, t \in db.sessions : SignOut(s, t)
  \/ Tick

(***************************************************************************)
(* The database before the first request: nothing; an account of version   *)
(* 0.5.7, without a password and signed in (legacy); such an account whose *)
(* enrolment stopped after Firebase had the password (unlinked), with a    *)
(* code of the old kind in the mail (mailed) or a proof for a new attempt  *)
(* (proven); that password and no account (orphan); a registered account;  *)
(* one that was sent a link to set a password (resetting) or to change its *)
(* address (changing); one whose identity has another address than the     *)
(* account, with a code and a proof there (moved).  Two accounts: one is   *)
(* changing its address, to which the other was about to change too        *)
(* (reserved), and their identities may have taken each other's address    *)
(* back (crossed).                                                         *)
(* Which account, address, identity and password it has makes no odds.     *)
(***************************************************************************)
Any(S)    == CHOOSE x \in S : TRUE
Second(S) == Any(S \ {Any(S)})
Third(S)  == Second(S \ {Any(S)})

PastRow(past) ==
  CASE past \in {"empty", "orphan"} -> NoAccount
    [] past \in {"legacy", "unlinked", "mailed", "proven"} -> [email |-> Any(Emails), uid |-> None, ver |-> 0]
    [] past \in {"registered", "resetting", "changing", "moved"} \cup Couples ->
         [email |-> Any(Emails), uid |-> Any(Uids), ver |-> 1]
NeighbourRow == [email |-> Third(Emails), uid |-> Second(Uids), ver |-> 1]

(* The address of an identity, and those it ever had.                      *)
PastAddress(u, past) ==
  IF u = Any(Uids)
  THEN CASE past \in {"empty", "legacy"} -> None
         [] past = "moved" -> Second(Emails)
         [] past = "crossed" -> Third(Emails)
         [] OTHER -> Any(Emails)
  ELSE CASE past = "reserved" /\ u = Second(Uids) -> Third(Emails)
         [] past = "crossed" /\ u = Second(Uids) -> Any(Emails)
         [] OTHER -> None
PastIdentity(e) == IF e = None THEN NoIdentity ELSE [email |-> e, pw |-> Any(Passwords)]
PastHeld(u, past) ==
  IF PastAddress(u, past) = None THEN {}
  ELSE CASE u = Any(Uids) -> {Any(Emails), PastAddress(u, past)}
         [] u # Any(Uids) /\ past = "crossed" -> Emails
         [] OTHER -> {PastAddress(u, past)}

PastSession(past) ==
  SessionOf(Past, IF past \in Couples THEN Second(Accounts) ELSE Any(Accounts), <<"past", Past>>, PastRow(past).ver, 0, 0)
PastMailbox(past) == IF past = "moved" THEN Second(Emails) ELSE Any(Emails)
PastCode(past) ==
  [purpose |-> "legacyCode", email |-> PastMailbox(past), id |-> Past, attempts |-> 0, exp |-> CodeTicks]
PastProof(past) == [id |-> Past, email |-> PastMailbox(past), exp |-> CodeTicks, until |-> 0]
PastChange ==
  [acct |-> Any(Accounts), old |-> Any(Emails), new |-> Second(Emails), uid |-> Any(Uids),
   ver |-> 1, exp |-> ChangeTicks, status |-> "pending", until |-> 0]
PastLink(past) ==
  [id |-> Past, uid |-> IF past = "crossed" THEN Second(Uids) ELSE Any(Uids), email |-> Any(Emails),
   kind |-> IF past = "resetting" THEN "reset" ELSE "change",
   new  |-> IF past = "resetting" THEN None ELSE Second(Emails)]

StoreInit ==
  /\ mix \in Mixes
  /\ db = [accounts   |-> [a \in Accounts |-> IF a = Any(Accounts) THEN PastRow(mix.past)
                                           ELSE IF mix.past \in Couples /\ a = Second(Accounts) THEN NeighbourRow
                                           ELSE NoAccount],
           sessions   |-> {PastSession(past) : past \in {mix.past} \ {"empty", "orphan"}},
           challenges |-> {}, codes |-> {PastCode(past) : past \in {mix.past} \cap {"mailed", "moved"}},
           proofs     |-> {PastProof(past) : past \in {mix.past} \cap {"proven", "moved"}}, grants |-> {},
           changes    |-> {PastChange : past \in {mix.past} \cap ({"changing"} \cup Couples)}]
  /\ firebase = [ids     |-> [u \in Uids |-> PastIdentity(PastAddress(u, mix.past))],
                 links   |-> {PastLink(past) : past \in {mix.past} \cap ({"resetting", "changing"} \cup Couples)},
                 held    |-> [u \in Uids |-> PastHeld(u, mix.past)],
                 crossed |-> [u \in Uids |-> {}]]
  /\ req = [r \in Requests |-> Unstarted]
  /\ clock = 0
  /\ minted = {}
  /\ revoked = [a \in Accounts |-> 0]
===============================================================================
