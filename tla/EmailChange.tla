------------------------------ MODULE EmailChange ------------------------------
(***************************************************************************)
(* requestEmailChange and completeEmailChange of worker.ts.  The service   *)
(* and Firebase change the address one after the other: sessions are       *)
(* revoked first, then Firebase consumes its code, then the account gets   *)
(* the address.  Firebase's own page may apply the code instead (Hosted).  *)
(***************************************************************************)
EXTENDS PasswordSignIn

ChangeOf(a) == {change \in db.changes : change.acct = a}

(***************************************************************************)
(* requestEmailChange                                                      *)
(***************************************************************************)
ChangeAuthenticate(r, s, e, p) ==
  LET row == db.accounts[s.acct]
  IN  /\ Begins(r, "changeEmail")
      /\ Usable(s)
      /\ row.uid # None
      /\ e # row.email
      /\ Becomes(r, [New("changeEmail", "reread") EXCEPT !.email = e, !.pw = p, !.acct = s.acct,
                       !.uid = row.uid, !.ver = row.ver, !.old = row.email])
      /\ OnlyRequests

SameAccount(r) == Matches(req[r].acct, req[r].ver, req[r].old) /\ db.accounts[req[r].acct].uid = req[r].uid

ChangeReread(r) ==
  /\ Stands(r, "changeEmail", "reread")
  /\ SameAccount(r)
  /\ Goes(r, "signin")
  /\ OnlyRequests

ChangeSignIn(r) ==
  /\ Stands(r, "changeEmail", "signin")
  /\ SignsIn(req[r].uid, req[r].old, req[r].pw)
  /\ Goes(r, "expired")
  /\ OnlyRequests

ChangeDropExpired(r) ==
  /\ Stands(r, "changeEmail", "expired")
  /\ db' = [db EXCEPT !.changes = {change \in @ : change.new # req[r].email \/ change.exp > req[r].now}]
  /\ Goes(r, "owner")
  /\ OnlyTables

ChangeOwner(r) ==
  /\ Stands(r, "changeEmail", "owner")
  /\ FreeFor(req[r].acct, req[r].email)
  /\ Goes(r, "pending")
  /\ OnlyRequests

ChangePending(r) ==
  /\ Stands(r, "changeEmail", "pending")
  /\ \A change \in ChangeOf(req[r].acct) : change.exp <= req[r].now
  /\ Goes(r, IF ChangeOf(req[r].acct) = {} THEN "insert" ELSE "delete")
  /\ OnlyRequests

ChangeDeleteOwn(r) ==
  /\ Stands(r, "changeEmail", "delete")
  /\ db' = [db EXCEPT !.changes = {change \in @ : change.acct # req[r].acct \/ change.exp > req[r].now}]
  /\ Goes(r, "insert")
  /\ OnlyTables

(* account_id and new_email are unique: D1 throws.                         *)
ChangeInsert(r) ==
  /\ Stands(r, "changeEmail", "insert")
  /\ SameAccount(r)
  /\ ChangeOf(req[r].acct) = {} /\ Reserved(req[r].email) = {}
  /\ db' = [db EXCEPT !.changes = @ \cup
              {[acct |-> req[r].acct, old |-> req[r].old, new |-> req[r].email, uid |-> req[r].uid,
                ver |-> req[r].ver, exp |-> req[r].now + ChangeTicks, status |-> "pending", until |-> 0]}]
  /\ Goes(r, "send")
  /\ OnlyTables

ChangeSend(r) ==
  /\ Stands(r, "changeEmail", "send")
  /\ firebase' = [firebase EXCEPT !.links = @ \cup
                    {[id |-> r, kind |-> "change", uid |-> req[r].uid, email |-> req[r].old, new |-> req[r].email]}]
  /\ Ends(r)
  /\ UNCHANGED <<db, clock, mix, minted, revoked>>

(* Firebase refuses for certain.                                           *)
ChangeRefused(r) ==
  /\ Stands(r, "changeEmail", "send")
  /\ db' = [db EXCEPT !.changes = {change \in @ : change.acct # req[r].acct \/ change.new # req[r].email}]
  /\ Ends(r)
  /\ OnlyTables

(***************************************************************************)
(* completeEmailChange                                                     *)
(***************************************************************************)
CompleteInspect(r, link) ==
  /\ Begins(r, "completeChange")
  /\ link.kind = "change"
  /\ Becomes(r, [New("completeChange", "find") EXCEPT !.id = link.id, !.old = link.email, !.email = link.new])
  /\ OnlyRequests

(* The row must be of the account as it is.                                *)
Completable(change, now) ==
  /\ change.exp > now
  /\ Matches(change.acct, change.ver, change.old) /\ db.accounts[change.acct].uid = change.uid
  /\ change.status = "applying" => change.until <= now

CompleteFind(r) ==
  /\ Stands(r, "completeChange", "find")
  /\ \E change \in Reserved(req[r].email) :
       /\ change.old = req[r].old
       /\ Completable(change, req[r].now)
       /\ Becomes(r, [req[r] EXCEPT !.at = "owner", !.acct = change.acct, !.uid = change.uid, !.ver = change.ver])
  /\ OnlyRequests

CompleteOwner(r) ==
  /\ Stands(r, "completeChange", "owner")
  /\ FreeFor(req[r].acct, req[r].email)
  /\ Goes(r, "invalidate")
  /\ OnlyRequests

TheChange(r) ==
  {change \in ChangeOf(req[r].acct) : change.old = req[r].old /\ change.new = req[r].email /\ change.uid = req[r].uid}

(* Slip: the batch looks at the change but not at its version.             *)
InvalidatableAnyVersion(r, change) ==
  /\ change.exp > req[r].now
  /\ change.status = "pending" \/ change.until <= req[r].now
Invalidatable(r, change) ==
  /\ change.ver = req[r].ver
  /\ SameAccount(r)
  /\ change.exp > req[r].now
  /\ change.status = "pending" \/ change.until <= req[r].now

(* One batch: version, lease, sessions, challenges, browser grants.        *)
CompleteInvalidate(r) ==
  LET a == req[r].acct
  IN  /\ Stands(r, "completeChange", "invalidate")
      /\ \E change \in TheChange(r) :
           /\ Invalidatable(r, change)
           /\ db' = [RevokedTables(a) EXCEPT
                       !.accounts[a].ver = @ + 1,
                       !.changes = (@ \ {change}) \cup
                         {[change EXCEPT !.ver = req[r].ver + 1, !.status = "applying", !.until = req[r].now + LeaseTicks]}]
      /\ revoked' = [revoked EXCEPT ![a] = @ + 1]
      /\ Becomes(r, [req[r] EXCEPT !.at = "apply", !.ver = @ + 1, !.n = req[r].now + LeaseTicks])
      /\ UNCHANGED <<firebase, clock, mix, minted>>

(* accounts:update: the identity takes the address, if no other has it.    *)
Applied(link) ==
  [firebase EXCEPT !.ids[link.uid].email = link.new, !.links = @ \ {link},
                   !.held[link.uid] = @ \cup {link.new}]
Appliable(link) ==
  /\ firebase.ids[link.uid].email = link.email
  /\ \A u \in Uids : firebase.ids[u].email # link.new

(* An answer may name the identity the link was of, and ends the request   *)
(* if that is not the row's.  One that names none is taken for the row's:  *)
(* crossed remembers which addresses an identity's row got that way.       *)
\* Slip: no name is looked at.
TrustedUnnamed(r, link, named) == TRUE
Trusted(r, link, named)        == named => link.uid = req[r].uid
Crossed(r, link, named)        == ~named /\ link.uid # req[r].uid
AppliedFor(r, link, named) ==
  [Applied(link) EXCEPT !.crossed[req[r].uid] = @ \cup {e \in {link.new} : Crossed(r, link, named)}]

CompleteApply(r) ==
  /\ Stands(r, "completeChange", "apply")
  /\ \E link \in firebase.links, named \in BOOLEAN :
       /\ link.id = req[r].id
       /\ Appliable(link)
       /\ firebase' = AppliedFor(r, link, named)
       /\ IF Trusted(r, link, named) THEN Goes(r, "finalize") ELSE Ends(r)
  /\ UNCHANGED <<db, clock, mix, minted, revoked>>

OwnLease(r, change) == change.ver = req[r].ver /\ change.status = "applying" /\ change.until = req[r].n

(* Firebase refuses for certain: the change may be tried again.            *)
CompleteRefused(r) ==
  /\ Stands(r, "completeChange", "apply")
  /\ db' = [db EXCEPT !.changes = {change \in @ : ~(change \in TheChange(r) /\ OwnLease(r, change))} \cup
              {[change EXCEPT !.status = "pending", !.until = 0] : change \in {change \in TheChange(r) : OwnLease(r, change)}}]
  /\ Ends(r)
  /\ OnlyTables

CompleteFinalize(r) ==
  LET a == req[r].acct
  IN  /\ Stands(r, "completeChange", "finalize")
      /\ SameAccount(r)
      /\ FreeFor(a, req[r].email)
      /\ \E change \in TheChange(r) :
           /\ OwnLease(r, change) /\ change.exp > req[r].now
           /\ db' = [RevokedTables(a) EXCEPT !.accounts[a].email = req[r].email, !.changes = @ \ {change}]
      /\ Ends(r)
      /\ OnlyTables

(***************************************************************************)
(* Firebase's own page: it applies a change, or takes one back             *)
(* (recoverEmail), which the service hears of at the next sign-in.         *)
(***************************************************************************)
Hosted(link) ==
  /\ "hosted" \in mix.operations
  /\ link.kind = "change"
  /\ Appliable(link)
  /\ firebase' = Applied(link)
  /\ UNCHANGED <<db, req, clock, mix, minted, revoked>>

Recover(u, e) ==
  /\ "hosted" \in mix.operations
  /\ e \in firebase.held[u]
  /\ \A v \in Uids : firebase.ids[v].email # e
  /\ firebase' = [firebase EXCEPT !.ids[u].email = e]
  /\ UNCHANGED <<db, req, clock, mix, minted, revoked>>

EmailChangeNext ==
  \/ \E r \in Made :
       \/ \E s \in db.sessions, e \in mix.emails, p \in mix.passwords : ChangeAuthenticate(r, s, e, p)
       \/ ChangeReread(r) \/ ChangeSignIn(r) \/ ChangeDropExpired(r) \/ ChangeOwner(r)
       \/ ChangePending(r) \/ ChangeDeleteOwn(r) \/ ChangeInsert(r) \/ ChangeSend(r) \/ ChangeRefused(r)
       \/ \E link \in firebase.links : CompleteInspect(r, link)
       \/ CompleteFind(r) \/ CompleteOwner(r) \/ CompleteInvalidate(r)
       \/ CompleteApply(r) \/ CompleteRefused(r) \/ CompleteFinalize(r)
  \/ \E link \in firebase.links : Hosted(link)
  \/ \E u \in Uids, e \in Emails : Recover(u, e)
===============================================================================
