----------------------------- MODULE SignInDialog -----------------------------
(***************************************************************************)
(* src/components/AccountDialog.tsx as src/App.tsx mounts it, over the     *)
(* native commands of NativeSignIn.  A callback of the dialog (a click, a  *)
(* timer, a command's result) runs to its next await, renders, and is a    *)
(* step together with the effects that the render triggers.  The dialog    *)
(* may be closed and opened again while commands of the earlier one are    *)
(* under way; their callbacks run all the same.                            *)
(*                                                                         *)
(* Left out: a change of the language while a poll is under way, the       *)
(* avatar (its callbacks are those of the display name), and the texts     *)
(* shown.  The tabs "profile" and "security" are the view "profile".       *)
(*                                                                         *)
(* The plan is a panel of the dialog and of the settings, which asks for a *)
(* sign-in when it is answered that nobody is signed in; the answer is as  *)
(* old as its question.                                                    *)
(***************************************************************************)
EXTENDS NativeSignIn

VARIABLES
  dialog,    \* [mount, open, ref, started, paused, view, back, to, busy]
  app,       \* [shown, touched, loaded, asked, settings]: App's profile, how it got
             \* there, and whether the settings show the plan
  belongs,   \* the dialog an attempt began in
  panel      \* the plan, where it is shown: [place, at, token, doubted]

dialogVars == <<dialog, app, belongs>>
signVars   == <<nativeVars, dialogVars>>
appVars    == <<signVars, panel>>

Closed(mount) ==
  [mount |-> mount, open |-> FALSE, ref |-> None, started |-> FALSE, paused |-> FALSE,
   view |-> "login", back |-> "login", to |-> "profile", busy |-> FALSE]

SignInInit ==
  /\ NativeInit
  /\ dialog  = Closed(0)
  /\ app     = IF "load" \in use.more
               THEN [shown |-> None, touched |-> FALSE, loaded |-> FALSE, asked |-> FALSE, settings |-> FALSE]
               ELSE [shown |-> keyring, touched |-> TRUE, loaded |-> TRUE, asked |-> FALSE, settings |-> FALSE]
  /\ belongs = [a \in Attempts |-> 0]
  /\ panel   = [place |-> "none", at |-> "none", token |-> None, doubted |-> {}]

Mine(mount)  == dialog.open /\ dialog.mount = mount
Unasked(ids) == {[id |-> a, by |-> 0, at |-> "call"] : a \in ids \ {None}}
Issue(ids)   == cancels' = cancels \cup Unasked(ids)

(***************************************************************************)
(* publishProfile and updateAccountProfile; the dialog then follows the    *)
(* profile it is given, or is closed for the settings that asked for a     *)
(* sign-in, which cancels what it was waiting for.                         *)
(***************************************************************************)
Following(d, p) ==
  [d EXCEPT !.view = IF app.shown = None /\ p # None THEN "profile"
                     ELSE IF app.shown # None /\ p = None /\ app.loaded THEN "login" ELSE @]

Publish(p, d) ==
  LET closes == p # None /\ app.asked
  IN  /\ app' = [app EXCEPT !.shown = p, !.touched = TRUE, !.asked = @ /\ p = None, !.settings = @ \/ closes]
      /\ dialog' = IF closes \/ ~d.open THEN Closed(d.mount) ELSE Following(d, p)
      /\ Issue(IF closes THEN {d.ref} ELSE {})

(***************************************************************************)
(* SupporterBenefitsPanel.  It asks account_billing_status when it is      *)
(* mounted, when the membership changes, on a refresh, and before a click  *)
(* opens the shop, and keeps what it was answered while it is mounted.     *)
(* Its other question (useMembership) is asked and answered alike; the one *)
(* whose answer is acted on is the one modelled.  A question that another  *)
(* one supersedes is that other one, begun late.                           *)
(***************************************************************************)
Place == IF dialog.open /\ dialog.view = "plan" /\ app.shown # None THEN "dialog"
         ELSE IF app.settings THEN "settings" ELSE "none"

PanelAsks ==
  /\ panel.at \in {"in", "out", "failed"}
  /\ panel' = [panel EXCEPT !.at = "call", !.token = None]

PanelRead ==
  /\ panel.at = "call"
  /\ panel' = [panel EXCEPT !.at = "ask", !.token = keyring]

(* v1/billing/status, unless no session is stored                          *)
PanelAsk ==
  /\ panel.at = "ask"
  /\ panel' = [panel EXCEPT !.at = IF panel.token # None /\ session[panel.token] = "live"
                                   THEN "recheck" ELSE "out"]

PanelRecheck ==
  /\ panel.at = "recheck"
  /\ panel' = [panel EXCEPT !.at = IF keyring = panel.token THEN "in" ELSE "out"]

PanelFails ==
  /\ panel.at \in {"call", "ask", "recheck"}
  /\ panel' = [panel EXCEPT !.at = "failed"]

PanelNext == PanelAsks \/ PanelRead \/ PanelAsk \/ PanelRecheck \/ PanelFails

(* It is mounted and unmounted with what shows it.  doubted is a witness:  *)
(* the sessions stored after a question was begun whose answer is still to *)
(* come, or is kept and says that nobody is signed in.                     *)
Doubts == panel.at \in {"ask", "recheck", "out"}
PanelFollows ==
  LET stored == IF Doubts /\ keyring' # keyring THEN {keyring'} \ {None} ELSE {}
      begins == [place |-> Place', at |-> IF Place' = "none" THEN "none" ELSE "call", token |-> None,
                 doubted |-> panel.doubted \cup stored]
  IN  panel' = IF Place' = panel.place THEN [panel EXCEPT !.doubted = @ \cup stored] ELSE begins

(* The panels ask for a sign-in when they were told that nobody is signed  *)
(* in, however long ago.                                                   *)
SignedOut == panel.at = "out"

Open ==
  /\ ~dialog.open /\ ~app.settings /\ dialog.mount < use.dialogs
  /\ dialog' = [Closed(dialog.mount + 1) EXCEPT
                  !.open = TRUE,
                  !.view = IF ~app.loaded THEN "checking" ELSE IF app.shown = None THEN "login" ELSE "profile"]
  /\ UNCHANGED <<nativeVars, app, belongs>>

(* openAccountForBilling                                                   *)
OpenForBilling ==
  /\ Place = "settings" /\ SignedOut /\ ~dialog.open /\ dialog.mount < use.dialogs
  /\ app' = [app EXCEPT !.shown = None, !.touched = TRUE, !.asked = TRUE, !.settings = FALSE]
  /\ dialog' = [Closed(dialog.mount + 1) EXCEPT
                  !.open = TRUE, !.view = IF app.loaded THEN "login" ELSE "checking"]
  /\ UNCHANGED <<nativeVars, belongs>>

Close ==
  /\ dialog.open
  /\ dialog' = Closed(dialog.mount)
  /\ Issue({dialog.ref})
  /\ UNCHANGED <<use, grant, session, expired, native, keyring, start, poll, logout, load, rename, sent, left, app, belongs>>

ShowPlan ==
  /\ "plan" \in use.more /\ dialog.open /\ dialog.view = "profile" /\ app.shown # None
  /\ dialog' = [dialog EXCEPT !.view = "plan"]
  /\ UNCHANGED <<nativeVars, app, belongs>>

(* The settings, over which no account dialog is opened.                   *)
ShowSettings ==
  /\ "plan" \in use.more /\ ~dialog.open /\ ~app.settings
  /\ app' = [app EXCEPT !.settings = TRUE]
  /\ UNCHANGED <<nativeVars, dialog, belongs>>

CloseSettings ==
  /\ app.settings
  /\ app' = [app EXCEPT !.settings = FALSE]
  /\ UNCHANGED <<nativeVars, dialog, belongs>>

(***************************************************************************)
(* startBrowserAuth: from the login view, or from the profile of an        *)
(* account that has no password yet.                                       *)
(***************************************************************************)
Start(a) ==
  /\ dialog.open /\ app.loaded /\ ~dialog.busy
  /\ dialog.ref = None
  /\ dialog.view = "login" \/ (dialog.view = "profile" /\ app.shown = Past)
  /\ a <= use.attempts
  /\ \A b \in Attempts : belongs[b] = 0 <=> b >= a
  /\ dialog' = [dialog EXCEPT !.ref = a, !.started = FALSE, !.paused = FALSE, !.busy = TRUE, !.view = "login",
                              !.back = IF app.shown = None THEN "login" ELSE "profile"]
  /\ belongs' = [belongs EXCEPT ![a] = dialog.mount]
  /\ start' = [start EXCEPT ![a].at = "call"]
  /\ UNCHANGED <<use, grant, session, expired, native, keyring, poll, cancels, logout, load, rename, sent, left, app>>

Abandoned == [dialog EXCEPT !.ref = None, !.started = FALSE, !.paused = FALSE,
                            !.view = dialog.back, !.back = "login"]

StartReturns(a) ==
  LET current == dialog.ref = a
      ok      == start[a].at = "ok"
  IN  /\ start[a].at \in {"ok", "error"}
      /\ dialog' = IF ~current THEN dialog
                   ELSE IF ok THEN [dialog EXCEPT !.started = TRUE, !.busy = FALSE]
                   ELSE [Abandoned EXCEPT !.busy = FALSE]
      /\ start' = [start EXCEPT ![a].at = IF ok /\ current THEN "opened" ELSE "ended"]
      /\ Issue(IF ok /\ current THEN {} ELSE {a})
      /\ UNCHANGED <<use, grant, session, expired, native, keyring, poll, logout, load, rename, sent, left, app, belongs>>

(* cancelBrowserAuth                                                       *)
ClickCancel ==
  /\ dialog.ref # None /\ dialog.view = "login"
  /\ cancels' = cancels \cup {[id |-> dialog.ref, by |-> dialog.mount, at |-> "call"]}
  /\ dialog' = [Abandoned EXCEPT !.busy = TRUE]
  /\ UNCHANGED <<use, grant, session, expired, native, keyring, start, poll, logout, load, rename, sent, left, app, belongs>>

Idle(mount) == [dialog EXCEPT !.busy = @ /\ ~Mine(mount)]

CancelReturns(c) ==
  /\ c.at = "return"
  /\ cancels' = cancels \ {c}
  /\ dialog' = Idle(c.by)
  /\ UNCHANGED <<use, grant, session, expired, native, keyring, start, poll, logout, load, rename, sent, left, app, belongs>>

(***************************************************************************)
(* The effects that poll and that count down.                              *)
(***************************************************************************)
PollBegins(a) ==
  /\ dialog.ref = a /\ dialog.started /\ ~dialog.paused
  /\ poll[a] = "idle"
  /\ poll' = [poll EXCEPT ![a] = "call"]
  /\ UNCHANGED <<use, grant, session, expired, native, keyring, start, cancels, logout, load, rename, sent, left, dialogVars>>

(* Slip: who is signed in is told only by the attempt the dialog waits for. *)
ToldIfCurrent(a, d) == IF dialog.ref = a THEN Publish(a, d) ELSE UNCHANGED <<app, dialog, cancels>>
Told(a, d)          == Publish(a, d)

PollSignedIn(a) ==
  /\ poll[a] = "signedIn"
  /\ Told(a, IF ~Mine(belongs[a]) THEN dialog
             ELSE [dialog EXCEPT !.ref = None, !.started = FALSE, !.paused = FALSE,
                                 !.view = dialog.to, !.back = "login"])

PollAnswered(a) ==
  /\ poll[a] \in {"pending", "expired", "error"}
  /\ dialog' = IF dialog.ref # a \/ poll[a] = "pending" THEN dialog
               ELSE IF poll[a] = "expired" THEN Abandoned ELSE [dialog EXCEPT !.paused = TRUE]
  /\ UNCHANGED <<app, cancels>>

PollReturns(a) ==
  /\ PollSignedIn(a) \/ PollAnswered(a)
  /\ poll' = [poll EXCEPT ![a] = "idle"]
  /\ UNCHANGED <<use, grant, session, expired, native, keyring, start, logout, load, rename, sent, left, belongs>>

(* retryBrowserAuthPoll                                                    *)
Retry ==
  /\ dialog.ref # None /\ dialog.paused /\ dialog.view = "login"
  /\ dialog' = [dialog EXCEPT !.paused = FALSE]
  /\ UNCHANGED <<nativeVars, app, belongs>>

CountDown(a) ==
  /\ dialog.ref = a /\ dialog.started /\ Expired(a)
  /\ dialog' = Abandoned
  /\ Issue({a})
  /\ UNCHANGED <<use, grant, session, expired, native, keyring, start, poll, logout, load, rename, sent, left, app, belongs>>

(***************************************************************************)
(* Signing out, a sign-in required by the plan, a change of the display    *)
(* name, and the session loaded when the application starts.               *)
(***************************************************************************)
SignOut(n) ==
  /\ dialog.open /\ dialog.view = "profile" /\ app.shown # None /\ ~dialog.busy
  /\ n <= use.signouts /\ logout[n].at = "idle"
  /\ logout' = [logout EXCEPT ![n].at = "call", ![n].by = dialog.mount]
  /\ dialog' = [dialog EXCEPT !.busy = TRUE]
  /\ UNCHANGED <<use, grant, session, expired, native, keyring, start, poll, cancels, load, rename, sent, left, app, belongs>>

LogoutReturns(n) ==
  /\ \/ /\ logout[n].at = "ok"
        /\ Publish(None, IF Mine(logout[n].by) THEN [dialog EXCEPT !.busy = FALSE, !.view = "login"] ELSE dialog)
     \/ /\ logout[n].at = "error"
        /\ dialog' = Idle(logout[n].by)
        /\ UNCHANGED <<app, cancels>>
  /\ logout' = [logout EXCEPT ![n] = [at |-> "done", token |-> None, by |-> 0]]
  /\ UNCHANGED <<use, grant, session, expired, native, keyring, start, poll, load, rename, sent, left, belongs>>

(* onRequireLogin                                                          *)
RequireLogin ==
  /\ Place = "dialog" /\ SignedOut
  /\ Publish(None, [dialog EXCEPT !.to = "plan", !.view = "login"])
  /\ UNCHANGED <<use, grant, session, expired, native, keyring, start, poll, logout, load, rename, sent, left, belongs>>

(* updateDisplayName                                                       *)
Rename ==
  /\ "rename" \in use.more /\ rename.at = "idle"
  /\ dialog.open /\ dialog.view = "profile" /\ app.shown # None /\ ~dialog.busy
  /\ rename' = [rename EXCEPT !.at = "call", !.by = dialog.mount]
  /\ dialog' = [dialog EXCEPT !.busy = TRUE]
  /\ UNCHANGED <<use, grant, session, expired, native, keyring, start, poll, cancels, logout, load, sent, left, app, belongs>>

RenameReturns ==
  /\ \/ rename.at = "ok" /\ Publish(rename.token, Idle(rename.by))
     \/ rename.at = "error" /\ dialog' = Idle(rename.by) /\ UNCHANGED <<app, cancels>>
  /\ rename' = [at |-> "done", token |-> None, by |-> 0]
  /\ UNCHANGED <<use, grant, session, expired, native, keyring, start, poll, logout, load, sent, left, belongs>>

LoadReturns ==
  /\ load.at \in {"nobody", "profile", "error"}
  /\ LET p == IF load.at = "profile" /\ ~app.touched THEN load.token ELSE app.shown
     IN  /\ app' = [app EXCEPT !.shown = p, !.touched = TRUE, !.loaded = TRUE]
         /\ dialog' = IF ~dialog.open THEN dialog
                      ELSE [dialog EXCEPT !.view = IF p = None THEN "login"
                                                   ELSE IF app.shown = None THEN "profile" ELSE @]
  /\ load' = [at |-> "done", token |-> None]
  /\ UNCHANGED <<use, grant, session, expired, native, keyring, start, poll, cancels, logout, rename, sent, left, belongs>>

DialogNext ==
  \/ Open \/ OpenForBilling \/ ShowSettings \/ CloseSettings \/ Close \/ ShowPlan \/ ClickCancel \/ Retry \/ RequireLogin
  \/ Rename \/ RenameReturns \/ LoadReturns
  \/ \E a \in Attempts : Start(a) \/ StartReturns(a) \/ PollBegins(a) \/ PollReturns(a) \/ CountDown(a)
  \/ \E c \in cancels : CancelReturns(c)
  \/ \E n \in Signouts : SignOut(n) \/ LogoutReturns(n)

SignInNext == DialogNext \/ (NativeNext /\ UNCHANGED dialogVars)

AppNext == (SignInNext /\ PanelFollows) \/ (PanelNext /\ UNCHANGED signVars)

(* The application may be left alone at any time.                          *)
SignInSpec == SignInInit /\ [][AppNext]_appVars

(***************************************************************************)
(* Properties                                                              *)
(***************************************************************************)
(* Every variable has its type; the mutex never holds a request of another *)
(* attempt than the current one (BrowserAuthState, account_auth.rs:839).   *)
SignInTypeOK ==
  /\ grant \in [Attempts -> {"none", "pending", "approved", "redeemed", "cancelled"}]
  /\ session \in [Sessions -> {"none", "live", "revoked"}]
  /\ expired \subseteq Attempts
  /\ native \in [generation : Nat, client : Attempts \cup {None}, pending : Attempts \cup {None}, polling : BOOLEAN]
  /\ native.pending \in {None, native.client}
  /\ keyring \in Sessions \cup {None}
  /\ dialog \in [mount : 0..use.dialogs, open : BOOLEAN, ref : Attempts \cup {None}, started : BOOLEAN, paused : BOOLEAN,
                 view : {"checking", "login", "profile", "plan"}, back : {"login", "profile"},
                 to : {"profile", "plan"}, busy : BOOLEAN]
  /\ app \in [shown : Sessions \cup {None}, touched : BOOLEAN, loaded : BOOLEAN, asked : BOOLEAN,
               settings : BOOLEAN]
  /\ panel.place = Place /\ panel.token \in Sessions \cup {None} /\ panel.doubted \subseteq Sessions
  /\ panel.at \in IF Place = "none" THEN {"none"} ELSE {"call", "ask", "recheck", "in", "out", "failed"}

(* No command of an attempt, and nothing sent for it, is under way.        *)
Settled(a) ==
  /\ start[a].at \in {"idle", "opened", "ended"}
  /\ poll[a] = "idle"
  /\ \A c \in cancels : c.id # a \/ c.at = "return"
  /\ <<"cancel", a>> \notin sent

(* However starts, cancels and the closing of dialogs cross, a request     *)
(* that a browser could still approve is the one the application holds and *)
(* the dialog waits for, unless the message that cancels it was lost or    *)
(* another attempt has signed in meanwhile (the cancels of                 *)
(* AccountDialog.tsx:75, :161 and :179 and of account_auth.rs:754 and      *)
(* :869).                                                                  *)
NoOrphanGrant ==
  \A a \in Attempts :
    (Settled(a) /\ grant[a] \in {"pending", "approved"} /\ ~Expired(a))
      => \/ native.pending = a /\ (dialog.ref = a \/ \E b \in Attempts \ {a} : session[b] # "none")
         \/ <<"cancel", a>> \in left.lost

(* Every session that the service keeps alive is stored here, or being     *)
(* stored or revoked, unless a message was lost, another session replaced  *)
(* it or a sign-out was under way when it was stored                       *)
(* (account_auth.rs:1094-1113).                                            *)
NoStraySession ==
  \A t \in Sessions :
    session[t] = "live" =>
      \/ keyring = t
      \/ t \in Attempts /\ poll[t] = "complete"
      \/ \E n \in Signouts : logout[n].at = "clear" /\ logout[n].token = t
      \/ <<"logout", t>> \in sent \cup left.lost
      \/ t \in left.crossed \cup left.replaced

(* When no command is under way, a session made by an attempt and stored   *)
(* is shown as signed in, also when the dialog that began it is gone: a    *)
(* sign-in is never completed behind the user's back.  What may hide it is *)
(* a sign-out that was under way when it was stored                        *)
(* (AccountDialog.tsx:267-277 publishes before it compares), or a panel    *)
(* that had begun to ask by then who is signed in, or still shows what it  *)
(* was told before (SupporterBenefitsPanel.tsx:45, :63-66).                *)
AtRest == cancels = {} /\ load.at = "done" /\ rename.at \in {"idle", "done"}
          /\ panel.at \notin {"call", "ask", "recheck"}
          /\ (\A a \in Attempts : Settled(a)) /\ (\A n \in Signouts : logout[n].at \in {"idle", "done"})
Shows  == app.shown # None \/ session[keyring] # "live"

SignedInIsShown ==
  (AtRest /\ keyring \in Attempts \ (left.crossed \cup panel.doubted)) => Shows

(* What App.tsx:177 says a panel clears is the profile that remains after  *)
(* an expired session: it never hides a stored one that is alive.          *)
ClearedIsExpired == (AtRest /\ keyring \in Attempts \ left.crossed) => Shows

(* What the dialog says it waits for can still be answered: the            *)
(* application holds that request until it expires, whatever commands of   *)
(* earlier dialogs arrive late.  It is gone only if it was redeemed and    *)
(* the session could not be stored, or if a start reached the mutex after  *)
(* a later one (account_auth.rs:1131, :704).                               *)
Overtaken(a) == \E b \in Attempts : start[b].generation > start[a].generation

WaitingIsBacked ==
  \A a \in Attempts :
    (dialog.ref = a /\ dialog.started /\ ~dialog.paused /\ poll[a] = "idle" /\ ~Overtaken(a))
      => native.pending = a \/ Expired(a) \/ grant[a] = "redeemed"
===============================================================================
