----------------------------- MODULE NativeSignIn -----------------------------
(***************************************************************************)
(* src-tauri/src/account_auth.rs: the commands by which the dialog signs   *)
(* in through the browser and out again, over one mutex                    *)
(* (BrowserAuthState) and the credential store, against the account        *)
(* service, whose own steps are in BrowserSignIn.  Commands run            *)
(* concurrently; what one does between two awaits, or with the mutex held, *)
(* is a step.  Requests and answers may be lost.                           *)
(*                                                                         *)
(* An attempt is the id the dialog drew for it, the request id the service *)
(* gave it, its verifier, and the session that was made of it.  The        *)
(* service answers what it should (no malformed answers), and refuses a    *)
(* poll for good only when the request is gone.  What a command waits for  *)
(* although it ignores the result (a request cancelled, a session revoked, *)
(* an avatar) is a message that arrives at any time or never.              *)
(***************************************************************************)
EXTENDS Naturals

CONSTANTS
  Attempts,  \* sign-ins the dialog may start, numbered
  Signouts,  \* sign-outs
  Uses,      \* what a behaviour has of dialogs, attempts and sign-outs, of more (the loading
             \* of the session, a visit to the plan, a change of the display name, attempts
             \* that expire), and of requests, messages and uses of the credential store
             \* that fail
  None

ASSUME SignInAssumption ==
  /\ Attempts \subseteq Nat \ {0} /\ Signouts \subseteq Nat /\ None \notin Nat
  /\ Uses \subseteq [dialogs : Nat, attempts : Nat, signouts : Nat, faults : Nat,
               more : SUBSET {"load", "plan", "rename", "expiry"}]

VARIABLES
  use,       \* of Uses
  grant,     \* the service's browser requests
  session,   \* the service's sessions
  expired,   \* the attempts whose ten minutes are over
  native,    \* BrowserAuthState: [generation, client, pending, polling]
  keyring,   \* the stored session
  start, poll, cancels, logout, load, rename,  \* commands, from call to return
  sent,      \* messages without a reader: <<"cancel" or "logout", attempt>>
  left       \* witness: what went wrong, and why a request or a session may stay behind

nativeVars  == <<use, grant, session, expired, native, keyring, start, poll, cancels, logout, load, rename, sent, left>>

Past     == 0   \* the session of an earlier run of the application
Sessions == Attempts \cup {Past}

(* The ten minutes that the service counts from the start, the application *)
(* from the answer and the dialog from the result end together: what runs  *)
(* between the three deadlines may as well run before or after them.       *)
Expired(a) == a \in expired

Failing == left.faults < use.faults /\ left' = [left EXCEPT !.faults = @ + 1]
Losing(messages) ==
  left.faults < use.faults /\ left' = [left EXCEPT !.faults = @ + 1, !.lost = @ \cup messages]

Cancels(ids)    == {<<"cancel", a>> : a \in ids \ {None}}
Revocations(ts) == {<<"logout", t>> : t \in ts \ {None}}

Cleared  == [native EXCEPT !.client = None, !.pending = None, !.polling = FALSE]
Advanced == [Cleared EXCEPT !.generation = @ + 1]

NativeInit ==
  /\ use \in Uses
  /\ grant   = [a \in Attempts |-> "none"]
  /\ expired = {}
  /\ native  = [generation |-> 0, client |-> None, pending |-> None, polling |-> FALSE]
  /\ keyring \in {None, Past}
  /\ session \in {[t \in Sessions |-> IF t = Past THEN state ELSE "none"] :
                   state \in IF keyring = Past THEN {"live", "revoked"} ELSE {"revoked"}}
  /\ start   = [a \in Attempts |-> [at |-> "idle", generation |-> 0]]
  /\ poll    = [a \in Attempts |-> "idle"]
  /\ cancels = {}
  /\ logout  = [n \in Signouts |-> [at |-> "idle", token |-> None, by |-> 0]]
  /\ load    = [at |-> IF "load" \in use.more THEN "call" ELSE "done", token |-> None]
  /\ rename  = [at |-> "idle", token |-> None, by |-> 0]
  /\ sent = {}
  /\ left = [faults |-> 0, lost |-> {}, crossed |-> {}, replaced |-> {}]

(***************************************************************************)
(* account_browser_auth_start                                              *)
(***************************************************************************)
StartLock(a) ==
  /\ start[a].at = "call"
  /\ native' = [Advanced EXCEPT !.client = a]
  /\ start' = [start EXCEPT ![a] = [at |-> "post", generation |-> native.generation + 1]]
  /\ sent' = sent \cup Cancels({native.pending})
  /\ UNCHANGED <<use, grant, session, expired, keyring, poll, cancels, logout, load, rename, left>>

(* v1/auth/browser/start; the request or its answer may be lost.           *)
StartPost(a) ==
  /\ start[a].at = "post"
  /\ \/ grant' = [grant EXCEPT ![a] = "pending"] /\ start' = [start EXCEPT ![a].at = "answered"] /\ UNCHANGED left
     \/ /\ grant' = [grant EXCEPT ![a] = "pending"]
        /\ start' = [start EXCEPT ![a].at = "failed"]
        /\ Losing(Cancels({a}))
     \/ start' = [start EXCEPT ![a].at = "failed"] /\ Failing /\ UNCHANGED grant
  /\ UNCHANGED <<use, session, expired, native, keyring, poll, cancels, logout, load, rename, sent>>

(* Slip: what the service answered is installed whatever has come since.   *)
InstallsAnyway(a) == TRUE
Installs(a)       == native.generation = start[a].generation /\ native.client = a

(* clear_browser_start_if_current                                          *)
StartFails(a) ==
  /\ start[a].at = "failed"
  /\ native' = IF Installs(a) THEN Cleared ELSE native
  /\ start' = [start EXCEPT ![a].at = "error"]
  /\ UNCHANGED <<use, grant, session, expired, keyring, poll, cancels, logout, load, rename, sent, left>>

(* Slip: a start that was overtaken leaves its request with the service.   *)
OvertakenLeft(a)      == {}
OvertakenCancelled(a) == Cancels({a})

StartInstall(a) ==
  /\ start[a].at = "answered"
  /\ IF Installs(a)
     THEN /\ native' = [native EXCEPT !.pending = a, !.polling = FALSE]
          /\ start' = [start EXCEPT ![a].at = "ok"]
          /\ UNCHANGED sent
     ELSE /\ sent' = sent \cup OvertakenCancelled(a)
          /\ start' = [start EXCEPT ![a].at = "error"]
          /\ UNCHANGED native
  /\ UNCHANGED <<use, grant, session, expired, keyring, poll, cancels, logout, load, rename, left>>

(***************************************************************************)
(* account_browser_auth_poll                                               *)
(***************************************************************************)
PollLock(a) ==
  LET p == native.pending
  IN  /\ poll[a] = "call"
      /\ IF p # None /\ Expired(p)
         THEN native' = Cleared /\ poll' = [poll EXCEPT ![a] = "expired"]
         ELSE IF p # a
         THEN poll' = [poll EXCEPT ![a] = "error"] /\ UNCHANGED native
         ELSE IF native.polling
         THEN poll' = [poll EXCEPT ![a] = "pending"] /\ UNCHANGED native
         ELSE native' = [native EXCEPT !.polling = TRUE] /\ poll' = [poll EXCEPT ![a] = "post"]
      /\ UNCHANGED <<use, grant, session, expired, keyring, start, cancels, logout, load, rename, sent, left>>

(* v1/auth/browser/poll                                                    *)
PollPost(a) ==
  LET redeemed == grant[a] = "approved" /\ ~Expired(a)
      answer   == IF redeemed THEN "complete"
                  ELSE IF grant[a] = "pending" /\ ~Expired(a) THEN "waiting" ELSE "gone"
  IN  /\ poll[a] = "post"
      /\ \/ poll' = [poll EXCEPT ![a] = "failed"] /\ Failing /\ UNCHANGED <<use, grant, session>>
         \/ /\ \/ poll' = [poll EXCEPT ![a] = answer] /\ UNCHANGED left
               \/ poll' = [poll EXCEPT ![a] = "failed"] /\ Losing(IF redeemed THEN Revocations({a}) ELSE {})
            /\ grant' = IF redeemed THEN [grant EXCEPT ![a] = "redeemed"] ELSE grant
            /\ session' = IF redeemed THEN [session EXCEPT ![a] = "live"] ELSE session
      /\ UNCHANGED <<use, expired, native, keyring, start, cancels, logout, load, rename, sent>>

(* reset_browser_poll                                                      *)
PollAgain(a) ==
  /\ poll[a] \in {"failed", "waiting"}
  /\ native' = IF native.pending = a THEN [native EXCEPT !.polling = FALSE] ELSE native
  /\ poll' = [poll EXCEPT ![a] = IF @ = "failed" THEN "error" ELSE "pending"]
  /\ UNCHANGED <<use, grant, session, expired, keyring, start, cancels, logout, load, rename, sent, left>>

(* clear_browser_attempt                                                   *)
PollGone(a) ==
  /\ poll[a] = "gone"
  /\ native' = IF native.pending = a THEN Advanced ELSE native
  /\ poll' = [poll EXCEPT ![a] = "expired"]
  /\ UNCHANGED <<use, grant, session, expired, keyring, start, cancels, logout, load, rename, sent, left>>

(* CommitResult: what is not stored is revoked.                            *)
Active(a)      == native.pending = a /\ native.polling /\ native.client = a
SigningOut     == \E n \in Signouts : logout[n].at \notin {"idle", "done"}
CommitStored(a) ==
  /\ Active(a) /\ ~Expired(a)
  /\ native' = Cleared
  /\ keyring' = a
  /\ poll' = [poll EXCEPT ![a] = "signedIn"]
  /\ left' = [left EXCEPT !.crossed = IF SigningOut THEN @ \cup {a} ELSE @,
                          !.replaced = @ \cup ({keyring} \ {None})]
  /\ UNCHANGED sent

(* Slip: only what could not be stored is revoked.                         *)
RevokesUnstored(a) == IF Active(a) THEN Revocations({a}) ELSE {}
Revokes(a)         == Revocations({a})

CommitRefused(a, result) ==
  /\ native' = IF Active(a) THEN Cleared ELSE native
  /\ poll' = [poll EXCEPT ![a] = result]
  /\ sent' = sent \cup Revokes(a)
  /\ UNCHANGED keyring

PollCommit(a) ==
  /\ poll[a] = "complete"
  /\ \/ CommitStored(a)
     \/ ~Active(a) /\ CommitRefused(a, "pending") /\ UNCHANGED left
     \/ Active(a) /\ Expired(a) /\ CommitRefused(a, "expired") /\ UNCHANGED left
     \/ Active(a) /\ ~Expired(a) /\ CommitRefused(a, "error") /\ Failing
  /\ UNCHANGED <<use, grant, session, expired, start, cancels, logout, load, rename>>

(***************************************************************************)
(* account_browser_auth_cancel                                             *)
(***************************************************************************)
(* Slip: whatever is pending is cancelled.                                 *)
CancelsAny(id)  == native.client # None
CancelsOwn(id)  == native.client = id

(* by is the dialog that waits for the result, 0 when nobody does.         *)
CancelLock(c) ==
  /\ c.at = "call"
  /\ IF CancelsOwn(c.id)
     THEN native' = Advanced /\ sent' = sent \cup Cancels({native.pending})
     ELSE UNCHANGED <<native, sent>>
  /\ cancels' = (cancels \ {c}) \cup {r \in {[c EXCEPT !.at = "return"]} : r.by # 0}
  /\ UNCHANGED <<use, grant, session, expired, keyring, start, poll, logout, load, rename, left>>

(***************************************************************************)
(* account_logout, account_load_session, and a change of the profile       *)
(***************************************************************************)
LogoutRead(n) ==
  /\ logout[n].at = "call"
  /\ \/ logout' = [logout EXCEPT ![n].at = "clear", ![n].token = keyring] /\ UNCHANGED left
     \/ logout' = [logout EXCEPT ![n].at = "error"] /\ Failing
  /\ UNCHANGED <<use, grant, session, expired, native, keyring, start, poll, cancels, load, rename, sent>>

(* The credential store may refuse; the session is revoked all the same.   *)
LogoutClear(n) ==
  /\ logout[n].at = "clear"
  /\ \/ keyring' = None /\ logout' = [logout EXCEPT ![n].at = "ok"] /\ UNCHANGED left
     \/ UNCHANGED keyring /\ logout' = [logout EXCEPT ![n].at = "error"] /\ Failing
  /\ sent' = sent \cup Revocations({logout[n].token})
  /\ UNCHANGED <<use, grant, session, expired, native, start, poll, cancels, load, rename>>

LoadRead ==
  /\ load.at = "call"
  /\ load' = [at |-> IF keyring = None THEN "nobody" ELSE "ask", token |-> keyring]
  /\ UNCHANGED <<use, grant, session, expired, native, keyring, start, poll, cancels, logout, rename, sent, left>>

(* v1/me                                                                   *)
LoadAsk ==
  /\ load.at = "ask"
  /\ \/ /\ load' = [load EXCEPT !.at = IF session[load.token] = "live" THEN "profile" ELSE "unauthorized"]
        /\ UNCHANGED left
     \/ load' = [load EXCEPT !.at = "error"] /\ Failing
  /\ UNCHANGED <<use, grant, session, expired, native, keyring, start, poll, cancels, logout, rename, sent>>

LoadClear ==
  /\ load.at = "unauthorized"
  /\ \/ keyring' = None /\ load' = [load EXCEPT !.at = "nobody"] /\ UNCHANGED left
     \/ UNCHANGED keyring /\ load' = [load EXCEPT !.at = "error"] /\ Failing
  /\ UNCHANGED <<use, grant, session, expired, native, start, poll, cancels, logout, rename, sent>>

RenameRead ==
  /\ rename.at = "call"
  /\ rename' = [rename EXCEPT !.at = IF keyring = None THEN "error" ELSE "ask", !.token = keyring]
  /\ UNCHANGED <<use, grant, session, expired, native, keyring, start, poll, cancels, logout, load, sent, left>>

(* v1/me/display-name, v1/me/avatar                                        *)
RenameAsk ==
  /\ rename.at = "ask"
  /\ \/ /\ rename' = [rename EXCEPT !.at = IF session[rename.token] = "live" THEN "ok" ELSE "error"]
        /\ UNCHANGED left
     \/ rename' = [rename EXCEPT !.at = "error"] /\ Failing
  /\ UNCHANGED <<use, grant, session, expired, native, keyring, start, poll, cancels, logout, load, sent>>

(***************************************************************************)
(* The service receives a message or it is lost, the user approves in the  *)
(* browser, and time passes.                                               *)
(***************************************************************************)
Receive(message) ==
  LET t == message[2]
  IN  /\ IF message[1] = "cancel"
         THEN /\ grant' = IF grant[t] \in {"pending", "approved"} /\ ~Expired(t)
                          THEN [grant EXCEPT ![t] = "cancelled"] ELSE grant
              /\ UNCHANGED session
         ELSE session' = [session EXCEPT ![t] = "revoked"] /\ UNCHANGED grant
      /\ sent' = sent \ {message}
      /\ UNCHANGED <<use, expired, native, keyring, start, poll, cancels, logout, load, rename, left>>

Lose(message) ==
  /\ sent' = sent \ {message}
  /\ Losing({message})
  /\ UNCHANGED <<use, grant, session, expired, native, keyring, start, poll, cancels, logout, load, rename>>

Approve(a) ==
  /\ start[a].at = "opened"
  /\ grant[a] = "pending" /\ ~Expired(a)
  /\ grant' = [grant EXCEPT ![a] = "approved"]
  /\ UNCHANGED <<use, session, expired, native, keyring, start, poll, cancels, logout, load, rename, sent, left>>

(* A session is ended from elsewhere, say by a password reset.             *)
EndPast ==
  /\ "plan" \in use.more /\ session[Past] = "live"
  /\ session' = [session EXCEPT ![Past] = "revoked"]
  /\ UNCHANGED <<use, grant, expired, native, keyring, start, poll, cancels, logout, load, rename, sent, left>>

Expire(a) ==
  /\ "expiry" \in use.more
  /\ start[a].at \in {"opened", "ended"} /\ ~Expired(a)
  /\ expired' = expired \cup {a}
  /\ UNCHANGED <<use, grant, session, native, keyring, start, poll, cancels, logout, load, rename, sent, left>>

CommandStep ==
  \/ \E a \in Attempts :
       \/ StartLock(a) \/ StartPost(a) \/ StartFails(a) \/ StartInstall(a)
       \/ PollLock(a) \/ PollPost(a) \/ PollAgain(a) \/ PollGone(a) \/ PollCommit(a)
  \/ \E c \in cancels : CancelLock(c)
  \/ \E n \in Signouts : LogoutRead(n) \/ LogoutClear(n)
  \/ LoadRead \/ LoadAsk \/ LoadClear \/ RenameRead \/ RenameAsk

NativeNext ==
  \/ CommandStep
  \/ \E message \in sent : Receive(message) \/ Lose(message)
  \/ EndPast
  \/ \E a \in Attempts : Approve(a) \/ Expire(a)
===============================================================================
