------------------------- MODULE SignInDialog_proofs -------------------------
(***************************************************************************)
(* Proofs about SignInDialog over NativeSignIn, for any numbers of         *)
(* dialogs, attempts, sign-outs and failures. The inductive invariants:    *)
(* TypesInv, the types and what a record must hold where it is; CourseInv, *)
(* the course of each attempt through the dialog, the mutex and the        *)
(* service; and over these StrayInv (where a session that is alive is to   *)
(* be found), PanelTypes and AsksSoundly (what the plan's panel knows of   *)
(* the stored session), ShownInv (a stored session is shown, or its poll   *)
(* is about to say so), BackedInv (the attempt that the dialog waits for   *)
(* is the one the mutex holds) and OrphanInv (who is still to answer for a *)
(* request that a browser could approve). What an action does to the       *)
(* variables is stated once, in the lemma named after it; a step lemma     *)
(* then takes the actions one by one.                                      *)
(***************************************************************************)
EXTENDS SignInDialog, TLAPS

(* The places of the commands, and the types of the variables.             *)
GrantStates  == {"none", "pending", "approved", "redeemed", "cancelled"}
StartPlaces  == {"idle", "call", "post", "answered", "failed", "error", "ok", "opened", "ended"}
PollPlaces   == {"idle", "call", "post", "complete", "waiting", "gone", "failed",
                 "pending", "expired", "error", "signedIn"}
LogoutPlaces == {"idle", "call", "clear", "ok", "error", "done"}
LoadPlaces   == {"call", "ask", "unauthorized", "nobody", "profile", "error", "done"}
RenamePlaces == {"idle", "call", "ask", "ok", "error", "done"}
Tokens       == Sessions \cup {None}
Usages   == [dialogs : Nat, attempts : Nat, signouts : Nat, faults : Nat,
             more : SUBSET {"load", "plan", "rename", "expiry"}]
Grants   == [Attempts -> GrantStates]
Lives    == [Sessions -> {"none", "live", "revoked"}]
Natives  == [generation : Nat, client : Attempts \cup {None}, pending : Attempts \cup {None},
             polling : BOOLEAN]
Starts   == [Attempts -> [at : StartPlaces, generation : Nat]]
Polls    == [Attempts -> PollPlaces]
Calls    == [id : Attempts, by : Nat, at : {"call", "return"}]
Logouts  == [Signouts -> [at : LogoutPlaces, token : Tokens, by : Nat]]
Loads    == [at : LoadPlaces, token : Tokens]
Renames  == [at : RenamePlaces, token : Tokens, by : Nat]
Messages == ({"cancel"} \X Attempts) \cup ({"logout"} \X Sessions)
Losses   == SUBSET Messages
Traces   == [faults : Nat, lost : Losses, crossed : SUBSET Attempts, replaced : SUBSET Sessions]
Dialogs  == [mount : Nat, open : BOOLEAN, ref : Attempts \cup {None}, started : BOOLEAN,
             paused : BOOLEAN,
             view : {"checking", "login", "profile", "plan"}, back : {"login", "profile"},
             to : {"profile", "plan"}, busy : BOOLEAN]
Apps     == [shown : Tokens, touched : BOOLEAN, loaded : BOOLEAN, asked : BOOLEAN,
             settings : BOOLEAN]
Panels   == [place : {"none", "dialog", "settings"},
             at : {"none", "call", "ask", "recheck", "in", "out", "failed"},
             token : Tokens, doubted : SUBSET Sessions]
Mounts   == [Attempts -> Nat]

(* The types, that the mutex holds no request of another attempt than the  *)
(* current one, that a closed dialog waits for nothing, and what a command *)
(* has read where it is.                                                   *)
StateTypes ==
  /\ use \in Usages /\ grant \in Grants /\ session \in Lives /\ expired \subseteq Attempts
  /\ native \in Natives /\ keyring \in Tokens
  /\ start \in Starts /\ poll \in Polls /\ cancels \subseteq Calls
  /\ logout \in Logouts /\ load \in Loads /\ rename \in Renames
  /\ sent \subseteq Messages /\ left \in Traces
  /\ dialog \in Dialogs /\ app \in Apps /\ belongs \in Mounts

TypesInv ==
  /\ StateTypes
  /\ native.pending \in {None, native.client}
  /\ dialog.mount <= use.dialogs
  /\ dialog.open \/ (dialog.ref = None /\ dialog.started = FALSE)
  /\ dialog.open => dialog.mount # 0
  /\ load.at \in {"ask", "unauthorized", "profile"} => load.token # None
  /\ rename.at \in {"ask", "ok"} => rename.token # None

(* The course of an attempt: it is started once, polled while the dialog   *)
(* has its result, and the service knows of it what was asked for.         *)
Sound(a) ==
  /\ belongs[a] = 0 => start[a].at = "idle"
  /\ start[a].generation <= native.generation
  /\ native.pending = a => start[a].at \in {"ok", "opened", "ended"}
  /\ poll[a] # "idle" => start[a].at = "opened"
  /\ start[a].at \in {"idle", "call", "post"} => grant[a] = "none"
  /\ start[a].at = "answered" => grant[a] = "pending"
  /\ start[a].at \in {"ok", "opened"} => grant[a] # "none"
  /\ start[a].at \in {"idle", "call", "post", "answered"} => <<"cancel", a>> \notin sent
  /\ poll[a] \in {"complete", "signedIn"} => grant[a] = "redeemed" /\ session[a] # "none"
  /\ poll[a] = "gone" => Expired(a) \/ grant[a] \in {"redeemed", "cancelled"}
  /\ poll[a] = "expired" => native.pending # a
  /\ keyring = a => grant[a] = "redeemed"
(* The dialog that waits, and the cancels it has issued.                   *)
WaitsSoundly ==
  /\ dialog.ref # None => belongs[dialog.ref] # 0
  /\ dialog.started => dialog.ref # None /\ start[dialog.ref].at = "opened"
  /\ \A c \in cancels : belongs[c.id] # 0 /\ (c.at = "call" => dialog.ref # c.id)
(* Nothing is signed in or out while the stored session is loaded.         *)
LoadsAlone ==
  load.at # "done" =>
    /\ ~app.loaded
    /\ dialog.ref = None
    /\ \A a \in Attempts : start[a].at = "idle" /\ poll[a] = "idle"
    /\ load.at \in {"ask", "unauthorized", "profile"} => keyring \in {None, load.token}
    /\ load.at = "unauthorized" => session[load.token] # "live"
CourseInv == (\A a \in Attempts : Sound(a)) /\ WaitsSoundly /\ LoadsAlone

(* A sign-out that has read its session finds no other one in the store,   *)
(* and where each session that is alive is to be found.                    *)
Forgets(n) ==
  /\ logout[n].at = "clear" => keyring \in {None, logout[n].token} \cup left.crossed
  /\ logout[n].at = "ok" => keyring \in {None} \cup left.crossed
Kept(t) ==
  \/ keyring = t
  \/ t \in Attempts /\ poll[t] = "complete"
  \/ \E n \in Signouts : logout[n].at = "clear" /\ logout[n].token = t
  \/ <<"logout", t>> \in sent \cup left.lost
  \/ t \in left.crossed \cup left.replaced
StrayInv == (\A n \in Signouts : Forgets(n)) /\ (\A t \in Sessions : session[t] = "live" => Kept(t))

(* The panel is where it is shown; unless the stored session is doubted,   *)
(* the panel's question is about it, and an answer that nobody is signed   *)
(* in is true of it.                                                       *)
PanelTypes ==
  /\ panel \in Panels
  /\ panel.place = Place
  /\ panel.at = "none" <=> panel.place = "none"
AsksSoundly ==
  keyring \in Attempts \ panel.doubted =>
    /\ panel.at \in {"ask", "recheck"} => panel.token = keyring
    /\ panel.at = "out" => session[keyring] # "live"

(* A session that an attempt has stored is shown, or the poll that stored  *)
(* it is about to return.                                                  *)
ShownInv ==
  keyring \in Attempts \ (left.crossed \cup panel.doubted) =>
    app.shown # None \/ session[keyring] # "live" \/ poll[keyring] = "signedIn"

(* The attempt that the dialog waits for, unless a later start has taken   *)
(* the mutex (a new one advances the generation), can still be answered.   *)
Awaited(a) == dialog.ref = a /\ (dialog.started \/ start[a].at = "ok") /\ ~Overtaken(a)
Backed(a) ==
  /\ native.pending = a \/ Expired(a) \/ grant[a] = "redeemed"
  /\ grant[a] # "cancelled" /\ <<"cancel", a>> \notin sent
BackedInv == \A a \in Attempts : Awaited(a) => Backed(a)

(* A request that a browser could approve is about to be installed or      *)
(* cancelled, or is held by the mutex while the dialog waits for it, is    *)
(* about to be told of it, cancels it, or another attempt has made a       *)
(* session.                                                                *)
Elsewhere(a) == \E b \in Attempts \ {a} : session[b] # "none"
Accounted(a) ==
  \/ start[a].at = "answered"
  \/ <<"cancel", a>> \in sent \cup left.lost
  \/ /\ native.pending = a
     /\ \/ start[a].at = "ok"
        \/ dialog.ref = a
        \/ \E c \in cancels : c.id = a /\ c.at = "call"
        \/ Elsewhere(a)
Answerable(a) == grant[a] \in {"pending", "approved"} /\ ~Expired(a)
OrphanInv == \A a \in Attempts : Answerable(a) => Accounted(a)

(* What a step does to the attempt that the dialog waits for.              *)
KeepsWaiting   == dialog'.ref = dialog.ref /\ dialog'.started = dialog.started /\ cancels' = cancels
StopsWaiting   == dialog'.ref = None /\ dialog'.started = FALSE /\ cancels' = cancels
CancelsWaiting ==
  /\ dialog'.ref = None
  /\ dialog'.started = FALSE
  /\ cancels' = cancels \cup Unasked({dialog.ref})

(***************************************************************************)
(* Types                                                                   *)
(***************************************************************************)
(* What the mutex holds after a command has let go of it.                  *)
LEMMA NativeRecords ==
  ASSUME native \in Natives
  PROVE  /\ Cleared \in Natives /\ Cleared.pending = None /\ Cleared.client = None
         /\ Cleared.generation = native.generation
         /\ Advanced \in Natives /\ Advanced.pending = None /\ Advanced.client = None
         /\ Advanced.generation = native.generation + 1
<1>1. Cleared \in Natives /\ Cleared.pending = None /\ Cleared.client = None
      /\ Cleared.generation = native.generation
  BY DEF Natives, Cleared
<1>2. Advanced \in Natives
  BY <1>1 DEF Natives, Advanced
<1>3. /\ Advanced.pending = None
      /\ Advanced.client = None
      /\ Advanced.generation = native.generation + 1
  BY <1>1 DEF Natives, Advanced
<1> QED BY <1>1, <1>2, <1>3

(* A fault is counted; what it loses is remembered.                        *)
LEMMA FaultRecords ==
  ASSUME left \in Traces
  PROVE  /\ Failing => /\ left' \in Traces
                       /\ left'.lost = left.lost
                       /\ left'.crossed = left.crossed
                       /\ left'.replaced = left.replaced
         /\ \A S \in SUBSET Messages : Losing(S) =>
              /\ left' \in Traces
              /\ left'.lost = left.lost \cup S
              /\ left'.crossed = left.crossed /\ left'.replaced = left.replaced
<1>1. ASSUME Failing
      PROVE  /\ left' \in Traces
             /\ left'.lost = left.lost
             /\ left'.crossed = left.crossed
             /\ left'.replaced = left.replaced
  BY <1>1 DEF Failing, Traces
<1>2. ASSUME NEW S \in SUBSET Messages, Losing(S)
      PROVE  /\ left' \in Traces
             /\ left'.lost = left.lost \cup S
             /\ left'.crossed = left.crossed /\ left'.replaced = left.replaced
  <2> DEFINE lost == left.lost \cup S
  <2>1. left.lost \in Losses
    BY DEF Traces
  <2>2. lost \in Losses
    BY <2>1 DEF Losses
  <2>3. left' = [left EXCEPT !.faults = left.faults + 1, !.lost = lost]
    BY <1>2 DEF Losing
  <2> HIDE DEF lost
  <2>4. left' = [faults |-> left.faults + 1, lost |-> lost, crossed |-> left.crossed,
                    replaced |-> left.replaced]
    BY <2>3 DEF Traces
  <2>5. left' \in Traces
    BY <2>2, <2>4 DEF Traces
  <2>6. /\ left'.lost = lost
        /\ left'.crossed = left.crossed /\ left'.replaced = left.replaced
    BY <2>4
  <2> QED BY <2>5, <2>6 DEF lost
<1> QED BY <1>1, <1>2

(* The messages that the commands send are messages.                       *)
LEMMA MessageSets ==
  /\ \A S \in SUBSET (Attempts \cup {None}) : Cancels(S) \subseteq Messages
  /\ \A S \in SUBSET (Sessions \cup {None}) : Revocations(S) \subseteq Messages
  BY DEF Cancels, Revocations, Messages

(* A cancel without a dialog is a call.                                    *)
LEMMA CallSets ==
  \A S \in SUBSET (Attempts \cup {None}) : Unasked(S) \subseteq Calls
  BY DEF Unasked, Calls

(* What the dialog becomes.                                                *)
LEMMA ClosedTyped ==
  ASSUME NEW m \in Nat
  PROVE  /\ Closed(m) \in Dialogs
         /\ Closed(m).mount = m
         /\ ~Closed(m).open
         /\ Closed(m).ref = None
         /\ Closed(m).started = FALSE
  BY DEF Dialogs, Closed

(* What the dialog becomes when it gives up its attempt.                   *)
LEMMA AbandonedTyped ==
  ASSUME dialog \in Dialogs
  PROVE  /\ Abandoned \in Dialogs
         /\ Abandoned.mount = dialog.mount /\ Abandoned.open = dialog.open
         /\ Abandoned.ref = None /\ Abandoned.started = FALSE
  BY DEF Dialogs, Abandoned

(* ... when it follows the profile it is given.                            *)
LEMMA FollowingTyped ==
  ASSUME NEW d \in Dialogs, NEW p
  PROVE  /\ Following(d, p) \in Dialogs
         /\ Following(d, p).mount = d.mount /\ Following(d, p).open = d.open
         /\ Following(d, p).ref = d.ref /\ Following(d, p).started = d.started
         /\ Following(d, p).paused = d.paused
  BY DEF Dialogs, Following

(* ... when a command of it returns.                                       *)
LEMMA IdleTyped ==
  ASSUME dialog \in Dialogs, NEW m
  PROVE  /\ Idle(m) \in Dialogs
         /\ Idle(m).mount = dialog.mount /\ Idle(m).open = dialog.open
         /\ Idle(m).ref = dialog.ref /\ Idle(m).started = dialog.started
         /\ Idle(m).paused = dialog.paused
  BY DEF Dialogs, Idle, Mine

(* Publishing a profile keeps the dialog, or closes it and cancels what it *)
(* waited for.                                                             *)
LEMMA PublishFacts ==
  ASSUME app \in Apps, cancels \subseteq Calls, NEW p \in Tokens, NEW d \in Dialogs,
         d.open \/ (d.ref = None /\ d.started = FALSE), Publish(p, d)
  PROVE  /\ app' \in Apps /\ app'.shown = p /\ app'.loaded = app.loaded
         /\ dialog' \in Dialogs /\ dialog'.mount = d.mount /\ (dialog'.open => d.open)
         /\ dialog'.open \/ (dialog'.ref = None /\ dialog'.started = FALSE)
         /\ cancels' \subseteq Calls
         /\ \/ /\ dialog'.ref = d.ref /\ dialog'.started = d.started /\ cancels' = cancels
            \/ /\ dialog'.ref = None /\ dialog'.started = FALSE
               /\ cancels' = cancels \cup Unasked({d.ref})
<1>1. app' \in Apps /\ app'.shown = p /\ app'.loaded = app.loaded
  BY DEF Publish, Apps
<1> DEFINE closes == p # None /\ app.asked
<1>2. CASE closes
  <2>1. dialog' = Closed(d.mount) /\ cancels' = cancels \cup Unasked({d.ref})
    BY <1>2 DEF Publish, Issue
  <2>2. d.mount \in Nat /\ {d.ref} \in SUBSET (Attempts \cup {None})
    BY DEF Dialogs
  <2>3. /\ dialog' \in Dialogs
        /\ dialog'.mount = d.mount /\ ~dialog'.open /\ dialog'.ref = None /\ dialog'.started = FALSE
    BY <2>1, <2>2, ClosedTyped
  <2>4. cancels' \subseteq Calls
    BY <2>1, <2>2, CallSets
  <2> QED BY <1>1, <2>1, <2>3, <2>4
<1>3. CASE ~closes
  <2>1. Unasked({}) = {}
    BY DEF Unasked
  <2>2. cancels' = cancels
    BY <1>3, <2>1 DEF Publish, Issue
  <2>3. CASE d.open
    <3>1. dialog' = Following(d, p)
      BY <1>3, <2>3 DEF Publish
    <3> QED BY <1>1, <2>2, <2>3, <3>1, FollowingTyped
  <2>4. CASE ~d.open
    <3>1. dialog' = Closed(d.mount)
      BY <1>3, <2>4 DEF Publish
    <3>2. d.mount \in Nat /\ d.started = FALSE
      BY <2>4 DEF Dialogs
    <3> QED BY <1>1, <2>2, <2>4, <3>1, <3>2, ClosedTyped
  <2> QED BY <2>3, <2>4
<1> QED BY <1>2, <1>3

(* No step breaks the types.                                               *)
LEMMA TypesStep ==
  ASSUME TypesInv, [SignInNext]_signVars
  PROVE  TypesInv'
<1>1. ASSUME Open
     PROVE  TypesInv'
  <2>1. Closed(dialog.mount + 1) \in Dialogs
    <3>1. dialog.mount + 1 \in Nat
      BY DEF TypesInv, StateTypes, Dialogs
    <3> QED BY <3>1, ClosedTyped
  <2>2. dialog' \in Dialogs /\ dialog'.mount = dialog.mount + 1 /\ dialog'.open = TRUE
    BY <1>1, <2>1 DEF Open, Dialogs, Closed
  <2>3. dialog'.mount <= use.dialogs /\ dialog'.mount # 0
    BY <1>1, <2>2 DEF TypesInv, StateTypes, Open, Dialogs, Usages
  <2> QED
    BY <1>1, <2>1, <2>2, <2>3 DEF TypesInv, StateTypes, Open, nativeVars, dialogVars
<1>2. ASSUME OpenForBilling
     PROVE  TypesInv'
  <2>1. Closed(dialog.mount + 1) \in Dialogs
    <3>1. dialog.mount + 1 \in Nat
      BY DEF TypesInv, StateTypes, Dialogs
    <3> QED BY <3>1, ClosedTyped
  <2>2. dialog' \in Dialogs /\ dialog'.mount = dialog.mount + 1 /\ dialog'.open = TRUE
    BY <1>2, <2>1 DEF OpenForBilling, Dialogs, Closed
  <2>3. dialog'.mount <= use.dialogs /\ dialog'.mount # 0
    BY <1>2, <2>2 DEF TypesInv, StateTypes, OpenForBilling, Dialogs, Usages
  <2>4. app' \in Apps
    BY <1>2 DEF TypesInv, StateTypes, OpenForBilling, Apps, Tokens
  <2> QED
    BY <1>2, <2>1, <2>2, <2>3, <2>4 DEF TypesInv, StateTypes, OpenForBilling, nativeVars, dialogVars
<1>3. ASSUME Close
     PROVE  TypesInv'
  BY <1>3, SignInAssumption DEF TypesInv, StateTypes, Dialogs, Calls, Close, Closed, Issue, Unasked,
        nativeVars, dialogVars
<1>4. ASSUME ShowPlan
     PROVE  TypesInv'
  BY <1>4, SignInAssumption DEF TypesInv, StateTypes, Dialogs, ShowPlan, nativeVars, dialogVars
<1>5. ASSUME ClickCancel
     PROVE  TypesInv'
  <2>1. dialog' = [Abandoned EXCEPT !.busy = TRUE] /\ Abandoned \in Dialogs
    BY <1>5, AbandonedTyped DEF TypesInv, StateTypes, ClickCancel
  <2>2. /\ dialog' \in Dialogs
        /\ dialog'.mount = dialog.mount
        /\ dialog'.open = dialog.open
        /\ dialog'.ref = None
        /\ dialog'.started = FALSE
    BY <2>1, AbandonedTyped DEF TypesInv, StateTypes, Dialogs
  <2>3. cancels' \subseteq Calls
    BY <1>5 DEF TypesInv, StateTypes, ClickCancel, Calls, Dialogs
  <2> QED
    BY <1>5, <2>1, <2>2, <2>3 DEF TypesInv, StateTypes, ClickCancel, nativeVars, dialogVars
<1>6. ASSUME Retry
     PROVE  TypesInv'
  BY <1>6, SignInAssumption DEF TypesInv, StateTypes, Dialogs, Retry, nativeVars, dialogVars
<1>7. ASSUME RequireLogin
     PROVE  TypesInv'
  <2> DEFINE d == [dialog EXCEPT !.to = "plan", !.view = "login"]
  <2>1. /\ d \in Dialogs /\ d.open = dialog.open /\ d.ref = dialog.ref /\ d.started = dialog.started
        /\ d.mount = dialog.mount
    BY DEF TypesInv, StateTypes, Dialogs
  <2>2. Publish(None, d) /\ None \in Tokens
    BY <1>7 DEF RequireLogin, Tokens
  <2>3. /\ app \in Apps /\ cancels \subseteq Calls
        /\ d.open \/ (d.ref = None /\ d.started = FALSE)
    BY <2>1 DEF TypesInv, StateTypes
  <2>4. dialog.open
    BY <1>7 DEF RequireLogin, Place
  <2> HIDE DEF d
  <2>5. /\ app' \in Apps /\ dialog' \in Dialogs /\ dialog'.mount = d.mount
        /\ dialog'.open \/ (dialog'.ref = None /\ dialog'.started = FALSE)
        /\ cancels' \subseteq Calls
    BY <2>1, <2>2, <2>3, PublishFacts
  <2>6. dialog.mount # 0
    BY <2>4 DEF TypesInv
  <2> QED BY <1>7, <2>1, <2>5, <2>6 DEF TypesInv, StateTypes, RequireLogin
<1>8. ASSUME Rename
     PROVE  TypesInv'
  BY <1>8, SignInAssumption DEF TypesInv, StateTypes, Dialogs, Renames, RenamePlaces, Tokens,
        Rename, nativeVars, dialogVars
<1>9. ASSUME RenameReturns
     PROVE  TypesInv'
  <2>1. /\ Idle(rename.by) \in Dialogs
        /\ Idle(rename.by).mount = dialog.mount
        /\ Idle(rename.by).open \/ (Idle(rename.by).ref = None /\ Idle(rename.by).started = FALSE)
        /\ Idle(rename.by).open => dialog.open
    BY IdleTyped DEF TypesInv, StateTypes
  <2>2. /\ app' \in Apps
        /\ cancels' \subseteq Calls
        /\ dialog' \in Dialogs
        /\ dialog'.mount = dialog.mount
        /\ (dialog'.open \/ (dialog'.ref = None /\ dialog'.started = FALSE))
        /\ (dialog'.open => dialog.open)
    BY <1>9, <2>1, PublishFacts DEF TypesInv, StateTypes, RenameReturns, Renames
  <2>3. rename' \in Renames /\ rename'.at = "done"
    BY <1>9 DEF RenameReturns, Renames, RenamePlaces, Tokens
  <2> QED
    BY <1>9, <2>1, <2>2, <2>3 DEF TypesInv, StateTypes, RenameReturns, nativeVars, dialogVars
<1>10. ASSUME LoadReturns
     PROVE  TypesInv'
  BY <1>10, SignInAssumption DEF TypesInv, StateTypes, Dialogs, Apps, Tokens, Loads, LoadPlaces,
        LoadReturns, nativeVars, dialogVars
<1>11. ASSUME NEW a \in Attempts, Start(a)
     PROVE  TypesInv'
  <2>1. dialog' \in Dialogs /\ dialog'.mount = dialog.mount /\ dialog'.open = TRUE /\ dialog.open
    BY <1>11 DEF TypesInv, StateTypes, Start, Dialogs
  <2>2. belongs' \in Mounts
    BY <1>11 DEF TypesInv, StateTypes, Start, Mounts, Dialogs
  <2>3. start' \in Starts
    BY <1>11 DEF TypesInv, StateTypes, Start, Starts, StartPlaces
  <2> QED
    BY <1>11, <2>1, <2>2, <2>3 DEF TypesInv, StateTypes, Start, nativeVars, dialogVars
<1>12. ASSUME NEW a \in Attempts, StartReturns(a)
     PROVE  TypesInv'
  <2>1. /\ [Abandoned EXCEPT !.busy = FALSE] \in Dialogs
        /\ [Abandoned EXCEPT !.busy = FALSE].mount = dialog.mount
        /\ [Abandoned EXCEPT !.busy = FALSE].open = dialog.open
        /\ [Abandoned EXCEPT !.busy = FALSE].ref = None
        /\ [Abandoned EXCEPT !.busy = FALSE].started = FALSE
    BY AbandonedTyped DEF TypesInv, StateTypes, Dialogs
  <2>2. dialog.ref = a => dialog.open
    BY SignInAssumption DEF TypesInv
  <2>3. /\ dialog' \in Dialogs
        /\ dialog'.mount = dialog.mount
        /\ (dialog'.open \/ (dialog'.ref = None /\ dialog'.started = FALSE))
        /\ (dialog'.open => dialog.open)
    <3>1. [dialog EXCEPT !.started = TRUE, !.busy = FALSE] \in Dialogs
          /\ [dialog EXCEPT !.started = TRUE, !.busy = FALSE].mount = dialog.mount
          /\ [dialog EXCEPT !.started = TRUE, !.busy = FALSE].open = dialog.open
      BY DEF TypesInv, StateTypes, Dialogs
    <3>2. \/ dialog' = dialog
          \/ dialog.ref = a /\ dialog' = [dialog EXCEPT !.started = TRUE, !.busy = FALSE]
          \/ dialog' = [Abandoned EXCEPT !.busy = FALSE]
      BY <1>12 DEF StartReturns
    <3> QED BY <2>1, <2>2, <3>1, <3>2 DEF TypesInv, StateTypes
  <2>4. start' \in Starts
    BY <1>12 DEF TypesInv, StateTypes, StartReturns, Starts, StartPlaces
  <2>5. cancels' \subseteq Calls
    BY <1>12, CallSets DEF TypesInv, StateTypes, StartReturns, Issue
  <2> QED
    BY <1>12, <2>1, <2>2, <2>3, <2>4, <2>5 DEF TypesInv, StateTypes, StartReturns, nativeVars,
          dialogVars
<1>13. ASSUME NEW a \in Attempts, PollBegins(a)
     PROVE  TypesInv'
  BY <1>13, SignInAssumption DEF TypesInv, StateTypes, Polls, PollPlaces, PollBegins, nativeVars,
        dialogVars
<1>14. ASSUME NEW a \in Attempts, PollReturns(a)
     PROVE  TypesInv'
  <2>1. poll' \in Polls
    BY <1>14 DEF TypesInv, StateTypes, PollReturns, Polls, PollPlaces
  <2>2. a \in Tokens
    BY DEF Tokens, Sessions
  <2>3. ASSUME PollSignedIn(a)
       PROVE  /\ app' \in Apps
              /\ cancels' \subseteq Calls
              /\ dialog' \in Dialogs
              /\ dialog'.mount = dialog.mount
              /\ (dialog'.open \/ (dialog'.ref = None /\ dialog'.started = FALSE))
              /\ (dialog'.open => dialog.open)
    <3> DEFINE after == [dialog EXCEPT !.ref = None, !.started = FALSE, !.paused = FALSE,
                                       !.view = dialog.to, !.back = "login"]
    <3> DEFINE d == IF ~Mine(belongs[a]) THEN dialog ELSE after
    <3>1. /\ after \in Dialogs
          /\ after.mount = dialog.mount
          /\ after.open = dialog.open
          /\ after.ref = None
          /\ after.started = FALSE
      BY DEF TypesInv, StateTypes, Dialogs
    <3>2. /\ d \in Dialogs /\ d.mount = dialog.mount
          /\ d.open \/ (d.ref = None /\ d.started = FALSE)
          /\ d.open => dialog.open
      BY <3>1 DEF TypesInv, StateTypes
    <3>3. Publish(a, d)
      BY <2>3 DEF PollSignedIn, Told
    <3> HIDE DEF d
    <3> QED BY <2>2, <3>2, <3>3, PublishFacts DEF TypesInv, StateTypes
  <2>4. ASSUME PollAnswered(a)
       PROVE  /\ app' \in Apps
              /\ cancels' \subseteq Calls
              /\ dialog' \in Dialogs
              /\ dialog'.mount = dialog.mount
              /\ (dialog'.open \/ (dialog'.ref = None /\ dialog'.started = FALSE))
              /\ (dialog'.open => dialog.open)
    <3>1. dialog' = dialog \/ dialog' = Abandoned \/ dialog' = [dialog EXCEPT !.paused = TRUE]
      BY <2>4 DEF PollAnswered
    <3>2. [dialog EXCEPT !.paused = TRUE] \in Dialogs
          /\ [dialog EXCEPT !.paused = TRUE].mount = dialog.mount
          /\ [dialog EXCEPT !.paused = TRUE].open = dialog.open
          /\ [dialog EXCEPT !.paused = TRUE].ref = dialog.ref
          /\ [dialog EXCEPT !.paused = TRUE].started = dialog.started
      BY DEF TypesInv, StateTypes, Dialogs
    <3>3. /\ dialog' \in Dialogs
          /\ dialog'.mount = dialog.mount
          /\ (dialog'.open \/ (dialog'.ref = None /\ dialog'.started = FALSE))
          /\ (dialog'.open => dialog.open)
      BY <3>1, <3>2, AbandonedTyped DEF TypesInv, StateTypes
    <3> QED BY <2>4, <3>3 DEF PollAnswered, TypesInv, StateTypes
  <2> QED
    BY <1>14, <2>1, <2>2, <2>3, <2>4 DEF TypesInv, StateTypes, PollReturns, PollSignedIn,
          PollAnswered, nativeVars, dialogVars
<1>15. ASSUME NEW a \in Attempts, CountDown(a)
     PROVE  TypesInv'
  <2>1. dialog' = Abandoned /\ cancels' = cancels \cup Unasked({a})
    BY <1>15 DEF CountDown, Issue
  <2>2. /\ dialog' \in Dialogs
        /\ dialog'.mount = dialog.mount
        /\ (dialog'.open \/ (dialog'.ref = None /\ dialog'.started = FALSE))
        /\ (dialog'.open => dialog.open)
    BY <2>1, AbandonedTyped DEF TypesInv, StateTypes
  <2>3. cancels' \subseteq Calls
    BY <2>1, CallSets DEF TypesInv, StateTypes
  <2> QED
    BY <1>15, <2>1, <2>2, <2>3 DEF TypesInv, StateTypes, CountDown, nativeVars, dialogVars
<1>16. ASSUME NEW c \in cancels, CancelReturns(c)
     PROVE  TypesInv'
  <2>1. /\ dialog' \in Dialogs
        /\ dialog'.mount = dialog.mount
        /\ (dialog'.open \/ (dialog'.ref = None /\ dialog'.started = FALSE))
        /\ (dialog'.open => dialog.open)
    BY <1>16, IdleTyped DEF CancelReturns, TypesInv, StateTypes
  <2>2. cancels' \subseteq Calls
    BY <1>16 DEF CancelReturns, TypesInv, StateTypes
  <2> QED
    BY <1>16, <2>1, <2>2 DEF TypesInv, StateTypes, CancelReturns, nativeVars, dialogVars
<1>17. ASSUME NEW n \in Signouts, SignOut(n)
     PROVE  TypesInv'
  <2>1. /\ dialog' \in Dialogs
        /\ dialog'.mount = dialog.mount
        /\ dialog'.open = dialog.open
        /\ dialog'.ref = dialog.ref
        /\ dialog'.started = dialog.started
    BY <1>17 DEF SignOut, TypesInv, StateTypes, Dialogs
  <2>2. [logout[n] EXCEPT !.at = "call", !.by = dialog.mount]
          \in [at : LogoutPlaces, token : Tokens, by : Nat]
    <3>1. logout[n] \in [at : LogoutPlaces, token : Tokens, by : Nat] /\ dialog.mount \in Nat
      BY DEF TypesInv, StateTypes, Logouts, Dialogs
    <3> QED BY <3>1 DEF LogoutPlaces
  <2>3. logout' \in Logouts
    BY <1>17, <2>2 DEF TypesInv, StateTypes, SignOut, Logouts
  <2> QED
    BY <1>17, <2>1, <2>2, <2>3 DEF TypesInv, StateTypes, SignOut, nativeVars, dialogVars
<1>18. ASSUME NEW n \in Signouts, LogoutReturns(n)
     PROVE  TypesInv'
  <2>1. logout' \in Logouts
    BY <1>18 DEF TypesInv, StateTypes, LogoutReturns, Logouts, LogoutPlaces, Tokens
  <2>2. /\ app' \in Apps
        /\ cancels' \subseteq Calls
        /\ dialog' \in Dialogs
        /\ dialog'.mount = dialog.mount
        /\ (dialog'.open \/ (dialog'.ref = None /\ dialog'.started = FALSE))
        /\ (dialog'.open => dialog.open)
    <3> DEFINE after == [dialog EXCEPT !.busy = FALSE, !.view = "login"]
    <3> DEFINE d == IF Mine(logout[n].by) THEN after ELSE dialog
    <3>1. /\ after \in Dialogs
          /\ after.mount = dialog.mount
          /\ after.open = dialog.open
          /\ after.ref = dialog.ref
          /\ after.started = dialog.started
      BY DEF TypesInv, StateTypes, Dialogs
    <3>2. /\ d \in Dialogs /\ d.mount = dialog.mount
          /\ d.open \/ (d.ref = None /\ d.started = FALSE)
          /\ d.open => dialog.open
      BY <3>1 DEF TypesInv, StateTypes
    <3>3. Publish(None, d) \/ (dialog' = Idle(logout[n].by) /\ UNCHANGED <<app, cancels>>)
      BY <1>18 DEF LogoutReturns
    <3> HIDE DEF d
    <3>4. None \in Tokens
      BY DEF Tokens
    <3>5. CASE Publish(None, d)
      BY <3>2, <3>4, <3>5, PublishFacts DEF TypesInv, StateTypes
    <3> QED BY <3>3, <3>5, IdleTyped DEF TypesInv, StateTypes
  <2> QED
    BY <1>18, <2>1, <2>2 DEF TypesInv, StateTypes, LogoutReturns, nativeVars, dialogVars
<1>19. ASSUME NEW a \in Attempts, StartLock(a), UNCHANGED dialogVars
     PROVE  TypesInv'
  <2>1. native' \in Natives /\ native'.pending = None
    BY <1>19, NativeRecords DEF StartLock, TypesInv, StateTypes, Natives
  <2>2. start' \in Starts
    BY <1>19 DEF TypesInv, StateTypes, StartLock, Starts, StartPlaces, Natives
  <2>3. sent' \subseteq Messages
    BY <1>19, MessageSets DEF StartLock, TypesInv, StateTypes, Natives
  <2> QED
    BY <1>19, <2>1, <2>2, <2>3 DEF TypesInv, StateTypes, StartLock, dialogVars
<1>20. ASSUME NEW a \in Attempts, StartPost(a), UNCHANGED dialogVars
     PROVE  TypesInv'
  <2>1. left' \in Traces
    BY <1>20, FaultRecords, MessageSets DEF StartPost, TypesInv, StateTypes
  <2>2. start' \in Starts /\ grant' \in Grants
    BY <1>20 DEF TypesInv, StateTypes, StartPost, Starts, StartPlaces, Grants, GrantStates
  <2> QED
    BY <1>20, <2>1, <2>2 DEF TypesInv, StateTypes, StartPost, dialogVars
<1>21. ASSUME NEW a \in Attempts, StartFails(a), UNCHANGED dialogVars
     PROVE  TypesInv'
  <2>1. native' \in Natives /\ native'.pending \in {None, native'.client}
    BY <1>21, NativeRecords DEF StartFails, TypesInv, StateTypes
  <2>2. start' \in Starts
    BY <1>21 DEF TypesInv, StateTypes, StartFails, Starts, StartPlaces
  <2> QED
    BY <1>21, <2>1, <2>2 DEF TypesInv, StateTypes, StartFails, dialogVars
<1>22. ASSUME NEW a \in Attempts, StartInstall(a), UNCHANGED dialogVars
     PROVE  TypesInv'
  <2>1. \/ native' = native
        \/ native.client = a /\ native' = [native EXCEPT !.pending = a, !.polling = FALSE]
    BY <1>22 DEF StartInstall, Installs
  <2>2. native' \in Natives /\ native'.pending \in {None, native'.client}
    BY <2>1 DEF TypesInv, StateTypes, Natives
  <2>3. start' \in Starts
    BY <1>22 DEF TypesInv, StateTypes, StartInstall, Starts, StartPlaces
  <2>4. sent' \subseteq Messages
    BY <1>22, MessageSets DEF StartInstall, OvertakenCancelled, TypesInv, StateTypes
  <2> QED
    BY <1>22, <2>1, <2>2, <2>3, <2>4 DEF TypesInv, StateTypes, StartInstall, dialogVars
<1>23. ASSUME NEW a \in Attempts, PollLock(a), UNCHANGED dialogVars
     PROVE  TypesInv'
  <2>1. native' = native \/ native' = Cleared \/ native' = [native EXCEPT !.polling = TRUE]
    BY <1>23 DEF PollLock
  <2>2. native' \in Natives /\ native'.pending \in {None, native'.client}
    BY <2>1, NativeRecords DEF TypesInv, StateTypes, Natives
  <2>3. poll' \in Polls
    BY <1>23 DEF TypesInv, StateTypes, PollLock, Polls, PollPlaces
  <2> QED
    BY <1>23, <2>1, <2>2, <2>3 DEF TypesInv, StateTypes, PollLock, dialogVars
<1>24. ASSUME NEW a \in Attempts, PollPost(a), UNCHANGED dialogVars
     PROVE  TypesInv'
  <2>1. left' \in Traces
    BY <1>24, FaultRecords, MessageSets DEF PollPost, TypesInv, StateTypes, Sessions
  <2>2. poll' \in Polls
    BY <1>24 DEF TypesInv, StateTypes, PollPost, Polls, PollPlaces
  <2>3. session' \in Lives /\ grant' \in Grants
    BY <1>24 DEF TypesInv, StateTypes, PollPost, Lives, Grants, GrantStates
  <2> QED
    BY <1>24, <2>1, <2>2, <2>3 DEF TypesInv, StateTypes, PollPost, dialogVars
<1>25. ASSUME NEW a \in Attempts, PollAgain(a), UNCHANGED dialogVars
     PROVE  TypesInv'
  BY <1>25, SignInAssumption DEF TypesInv, StateTypes, Natives, Polls, PollPlaces, PollAgain,
        dialogVars
<1>26. ASSUME NEW a \in Attempts, PollGone(a), UNCHANGED dialogVars
     PROVE  TypesInv'
  <2>1. native' \in Natives /\ native'.pending \in {None, native'.client}
    BY <1>26, NativeRecords DEF PollGone, TypesInv, StateTypes, Natives
  <2>2. poll' \in Polls
    BY <1>26 DEF TypesInv, StateTypes, PollGone, Polls, PollPlaces
  <2> QED
    BY <1>26, <2>1, <2>2 DEF TypesInv, StateTypes, PollGone, dialogVars
<1>27. ASSUME NEW a \in Attempts, PollCommit(a), UNCHANGED dialogVars
     PROVE  TypesInv'
  <2>1. native' \in Natives /\ native'.pending \in {None, native'.client}
    BY <1>27, NativeRecords DEF PollCommit, CommitStored, CommitRefused, TypesInv, StateTypes
  <2>2. keyring' \in Tokens /\ poll' \in Polls
    BY <1>27 DEF PollCommit, CommitStored, CommitRefused, TypesInv, StateTypes, Polls, PollPlaces,
          Tokens, Sessions
  <2>3. sent' \subseteq Messages
    BY <1>27, MessageSets DEF PollCommit, CommitStored, CommitRefused, Revokes, TypesInv,
          StateTypes, Sessions
  <2>4. left' \in Traces
    <3> DEFINE crossed == IF SigningOut THEN left.crossed \cup {a} ELSE left.crossed
    <3> DEFINE replaced == left.replaced \cup ({keyring} \ {None})
    <3>1. CASE left' = [left EXCEPT !.crossed = crossed, !.replaced = replaced]
      <4>1. left.crossed \in SUBSET Attempts /\ left.replaced \in SUBSET Sessions
        BY DEF TypesInv, StateTypes, Traces
      <4>2. crossed \in SUBSET Attempts /\ replaced \in SUBSET Sessions
        BY <4>1 DEF TypesInv, StateTypes, Tokens
      <4> HIDE DEF crossed, replaced
      <4>3. left' = [faults |-> left.faults, lost |-> left.lost, crossed |-> crossed,
                      replaced |-> replaced]
        BY <3>1 DEF TypesInv, StateTypes, Traces
      <4> QED BY <4>2, <4>3 DEF TypesInv, StateTypes, Traces
    <3>2. CASE UNCHANGED left \/ Failing
      BY <3>2, FaultRecords DEF TypesInv, StateTypes
    <3> QED BY <1>27, <3>1, <3>2 DEF PollCommit, CommitStored
  <2> QED
    BY <1>27, <2>1, <2>2, <2>3, <2>4 DEF TypesInv, StateTypes, PollCommit, CommitStored,
          CommitRefused, dialogVars
<1>28. ASSUME NEW c \in cancels, CancelLock(c), UNCHANGED dialogVars
     PROVE  TypesInv'
  <2>1. native' \in Natives /\ native'.pending \in {None, native'.client}
    BY <1>28, NativeRecords DEF CancelLock, TypesInv, StateTypes
  <2>2. sent' \subseteq Messages
    BY <1>28, MessageSets DEF CancelLock, TypesInv, StateTypes, Natives
  <2>3. [c EXCEPT !.at = "return"] \in Calls
    BY DEF TypesInv, StateTypes, Calls
  <2>4. cancels' \subseteq Calls
    BY <1>28, <2>3 DEF CancelLock, TypesInv, StateTypes
  <2> QED
    BY <1>28, <2>1, <2>2, <2>3, <2>4 DEF TypesInv, StateTypes, CancelLock, dialogVars
<1>29. ASSUME NEW n \in Signouts, LogoutRead(n), UNCHANGED dialogVars
     PROVE  TypesInv'
  BY <1>29, SignInAssumption, FaultRecords DEF TypesInv, StateTypes, Logouts, LogoutPlaces, Tokens,
        Traces, Messages, LogoutRead, dialogVars
<1>30. ASSUME NEW n \in Signouts, LogoutClear(n), UNCHANGED dialogVars
     PROVE  TypesInv'
  BY <1>30, SignInAssumption, MessageSets, FaultRecords DEF TypesInv, StateTypes, Tokens, Sessions,
        Past, Logouts, LogoutPlaces, Traces, Messages, LogoutClear, Revocations, dialogVars
<1>31. ASSUME LoadRead, UNCHANGED dialogVars
     PROVE  TypesInv'
  BY <1>31, SignInAssumption DEF TypesInv, StateTypes, Loads, LoadPlaces, Tokens, LoadRead,
        dialogVars
<1>32. ASSUME LoadAsk, UNCHANGED dialogVars
     PROVE  TypesInv'
  BY <1>32, SignInAssumption, FaultRecords DEF TypesInv, StateTypes, Loads, LoadPlaces, Tokens,
        Traces, Messages, LoadAsk, dialogVars
<1>33. ASSUME LoadClear, UNCHANGED dialogVars
     PROVE  TypesInv'
  BY <1>33, SignInAssumption, FaultRecords DEF TypesInv, StateTypes, Loads, LoadPlaces, Tokens,
        Sessions, Past, Traces, Messages, LoadClear, dialogVars
<1>34. ASSUME RenameRead, UNCHANGED dialogVars
     PROVE  TypesInv'
  BY <1>34, SignInAssumption DEF TypesInv, StateTypes, Renames, RenamePlaces, Tokens, RenameRead,
        dialogVars
<1>35. ASSUME RenameAsk, UNCHANGED dialogVars
     PROVE  TypesInv'
  BY <1>35, SignInAssumption, FaultRecords DEF TypesInv, StateTypes, Renames, RenamePlaces, Tokens,
        Traces, Messages, RenameAsk, dialogVars
<1>36. ASSUME NEW m \in sent, Receive(m), UNCHANGED dialogVars
     PROVE  TypesInv'
  BY <1>36, SignInAssumption DEF TypesInv, StateTypes, Grants, GrantStates, Lives, Sessions,
        Messages, Receive, Expired, dialogVars
<1>37. ASSUME NEW m \in sent, Lose(m), UNCHANGED dialogVars
     PROVE  TypesInv'
  <2>1. left' \in Traces
    BY <1>37, FaultRecords DEF Lose, TypesInv, StateTypes
  <2>2. sent' \subseteq Messages
    BY <1>37 DEF Lose, TypesInv, StateTypes
  <2> QED
    BY <1>37, <2>1, <2>2 DEF TypesInv, StateTypes, Lose, dialogVars
<1>38. ASSUME EndPast, UNCHANGED dialogVars
     PROVE  TypesInv'
  BY <1>38, SignInAssumption DEF TypesInv, StateTypes, Lives, Sessions, Tokens, Past, EndPast,
        dialogVars
<1>39. ASSUME NEW a \in Attempts, Approve(a), UNCHANGED dialogVars
     PROVE  TypesInv'
  BY <1>39, SignInAssumption DEF TypesInv, StateTypes, Grants, GrantStates, Approve, Expired,
        dialogVars
<1>40. ASSUME NEW a \in Attempts, Expire(a), UNCHANGED dialogVars
     PROVE  TypesInv'
  BY <1>40, SignInAssumption DEF TypesInv, StateTypes, Expire, Expired, dialogVars
<1>41. ASSUME ShowSettings \/ CloseSettings
       PROVE  TypesInv'
  BY <1>41 DEF TypesInv, StateTypes, Apps, ShowSettings, CloseSettings, nativeVars
<1>42. CASE UNCHANGED signVars
  BY <1>42 DEF TypesInv, StateTypes, signVars, nativeVars, dialogVars
<1> QED
  BY <1>1, <1>2, <1>3, <1>4, <1>5, <1>6, <1>7, <1>8, <1>9, <1>10, <1>11, <1>12, <1>13, <1>14, <1>15,
     <1>16, <1>17, <1>18, <1>19, <1>20, <1>21, <1>22, <1>23, <1>24, <1>25, <1>26, <1>27, <1>28,
     <1>29, <1>30, <1>31, <1>32, <1>33, <1>34, <1>35, <1>36, <1>37, <1>38, <1>39, <1>40, <1>41, <1>42 DEF
        SignInNext, DialogNext, NativeNext, CommandStep

(***************************************************************************)
(* What the commands do.                                                   *)
(***************************************************************************)
(* account_browser_auth_start takes the mutex.                             *)
LEMMA StartLockEffect ==
  ASSUME TypesInv, NEW a \in Attempts, StartLock(a), UNCHANGED dialogVars
  PROVE  /\ start[a].at = "call"
         /\ native'.pending = None
         /\ native'.client = a
         /\ native'.generation = native.generation + 1
         /\ start'[a].at = "post" /\ start'[a].generation = native.generation + 1
         /\ \A b \in Attempts \ {a} : start'[b] = start[b]
         /\ sent \subseteq sent'
         /\ (native.pending # None => <<"cancel", native.pending>> \in sent')
         /\ \A x \in sent' : x \in sent \/ x = <<"cancel", native.pending>>
         /\ UNCHANGED <<use, grant, session, expired, keyring, poll, cancels, logout, load, rename,
                        left, dialog, app, belongs>>
<1>1. start[a].at = "call"
  BY NativeRecords DEF TypesInv, StateTypes, StartLock, Starts, Natives, Cancels, dialogVars
<1>2. native'.pending = None /\ native'.client = a /\ native'.generation = native.generation + 1
  BY NativeRecords DEF TypesInv, StateTypes, StartLock, Starts, Natives, Cancels, dialogVars
<1>3. start'[a].at = "post" /\ start'[a].generation = native.generation + 1
  BY NativeRecords DEF TypesInv, StateTypes, StartLock, Starts, Natives, Cancels, dialogVars
<1>4. \A b \in Attempts \ {a} : start'[b] = start[b]
  BY NativeRecords DEF TypesInv, StateTypes, StartLock, Starts, Natives, Cancels, dialogVars
<1>5. sent \subseteq sent' /\ (native.pending # None => <<"cancel", native.pending>> \in sent')
  BY NativeRecords DEF TypesInv, StateTypes, StartLock, Starts, Natives, Cancels, dialogVars
<1>6. \A x \in sent' : x \in sent \/ x = <<"cancel", native.pending>>
  BY NativeRecords DEF TypesInv, StateTypes, StartLock, Starts, Natives, Cancels, dialogVars
<1>7. UNCHANGED <<use, grant, session, expired, keyring, poll, cancels, logout, load, rename, left,
                  dialog, app, belongs>>
  BY NativeRecords DEF TypesInv, StateTypes, StartLock, Starts, Natives, Cancels, dialogVars
<1> QED BY <1>1, <1>2, <1>3, <1>4, <1>5, <1>6, <1>7

(* The service is asked for a request.                                     *)
LEMMA StartPostEffect ==
  ASSUME TypesInv, NEW a \in Attempts, StartPost(a), UNCHANGED dialogVars
  PROVE  /\ start[a].at = "post"
         /\ start'[a].at \in {"answered", "failed"} /\ start'[a].generation = start[a].generation
         /\ \A b \in Attempts \ {a} : start'[b] = start[b]
         /\ \A b \in Attempts \ {a} : grant'[b] = grant[b]
         /\ grant'[a] = "pending" \/ (start'[a].at = "failed" /\ grant'[a] = grant[a])
         /\ left.lost \subseteq left'.lost
         /\ left'.crossed = left.crossed
         /\ left'.replaced = left.replaced
         /\ grant'[a] = "pending" =>
              start'[a].at = "answered" \/ <<"cancel", a>> \in left'.lost \/ grant[a] = "pending"
         /\ UNCHANGED <<use, session, expired, native, keyring, poll, cancels, logout, load, rename,
                        sent, dialog, app, belongs>>
<1>1. start[a].at = "post"
  BY FaultRecords, MessageSets, SignInAssumption DEF TypesInv, StateTypes, StartPost, Starts,
        Grants, Cancels, dialogVars
<1>2. start'[a].at \in {"answered", "failed"} /\ start'[a].generation = start[a].generation
  BY FaultRecords, MessageSets, SignInAssumption DEF TypesInv, StateTypes, StartPost, Starts,
        Grants, Cancels, dialogVars
<1>3. \A b \in Attempts \ {a} : start'[b] = start[b]
  BY FaultRecords, MessageSets, SignInAssumption DEF TypesInv, StateTypes, StartPost, Starts,
        Grants, Cancels, dialogVars
<1>4. \A b \in Attempts \ {a} : grant'[b] = grant[b]
  BY FaultRecords, MessageSets, SignInAssumption DEF TypesInv, StateTypes, StartPost, Starts,
        Grants, Cancels, dialogVars
<1>5. grant'[a] = "pending" \/ (start'[a].at = "failed" /\ grant'[a] = grant[a])
  BY FaultRecords, MessageSets, SignInAssumption DEF TypesInv, StateTypes, StartPost, Starts,
        Grants, Cancels, dialogVars
<1>6. /\ left.lost \subseteq left'.lost
      /\ left'.crossed = left.crossed
      /\ left'.replaced = left.replaced
  BY FaultRecords, MessageSets, SignInAssumption DEF TypesInv, StateTypes, StartPost, Starts,
        Grants, Cancels, dialogVars
<1>7. grant'[a] = "pending" =>
        start'[a].at = "answered" \/ <<"cancel", a>> \in left'.lost \/ grant[a] = "pending"
  BY FaultRecords, MessageSets, SignInAssumption DEF TypesInv, StateTypes, StartPost, Starts,
        Grants, Cancels, dialogVars
<1>8. UNCHANGED <<use, session, expired, native, keyring, poll, cancels, logout, load, rename, sent,
                  dialog, app, belongs>>
  BY FaultRecords, MessageSets, SignInAssumption DEF TypesInv, StateTypes, StartPost, Starts,
        Grants, Cancels, dialogVars
<1> QED BY <1>1, <1>2, <1>3, <1>4, <1>5, <1>6, <1>7, <1>8

(* A start that failed leaves the mutex, if it is still its own.           *)
LEMMA StartFailsEffect ==
  ASSUME TypesInv, NEW a \in Attempts, StartFails(a), UNCHANGED dialogVars
  PROVE  /\ start[a].at = "failed"
         /\ start'[a].at = "error"
         /\ start'[a].generation = start[a].generation
         /\ \A b \in Attempts \ {a} : start'[b] = start[b]
         /\ \/ native' = native
            \/ /\ native.client = a /\ native'.pending = None /\ native'.client = None
               /\ native'.generation = native.generation
         /\ UNCHANGED <<use, grant, session, expired, keyring, poll, cancels, logout, load, rename,
                        sent, left, dialog, app, belongs>>
<1>1. start[a].at = "failed" /\ start'[a].at = "error" /\ start'[a].generation = start[a].generation
  BY NativeRecords DEF TypesInv, StateTypes, StartFails, Starts, Installs, dialogVars
<1>2. \A b \in Attempts \ {a} : start'[b] = start[b]
  BY NativeRecords DEF TypesInv, StateTypes, StartFails, Starts, Installs, dialogVars
<1>3. \/ native' = native
      \/ /\ native.client = a /\ native'.pending = None /\ native'.client = None
         /\ native'.generation = native.generation
  BY NativeRecords DEF TypesInv, StateTypes, StartFails, Starts, Installs, dialogVars
<1>4. UNCHANGED <<use, grant, session, expired, keyring, poll, cancels, logout, load, rename, sent,
                  left, dialog, app, belongs>>
  BY NativeRecords DEF TypesInv, StateTypes, StartFails, Starts, Installs, dialogVars
<1> QED BY <1>1, <1>2, <1>3, <1>4

(* The answer of a start is installed, or its request is cancelled.        *)
LEMMA StartInstallEffect ==
  ASSUME TypesInv, NEW a \in Attempts, StartInstall(a), UNCHANGED dialogVars
  PROVE  /\ start[a].at = "answered" /\ start'[a].generation = start[a].generation
         /\ \A b \in Attempts \ {a} : start'[b] = start[b]
         /\ \/ /\ native.client = a /\ start'[a].at = "ok" /\ sent' = sent
               /\ native'.pending = a
               /\ native'.client = a
               /\ native'.generation = native.generation
            \/ /\ start'[a].at = "error" /\ native' = native
               /\ sent' = sent \cup {<<"cancel", a>>}
         /\ UNCHANGED <<use, grant, session, expired, keyring, poll, cancels, logout, load, rename,
                        left, dialog, app, belongs>>
<1>1. start[a].at = "answered" /\ start'[a].generation = start[a].generation
  BY SignInAssumption DEF TypesInv, StateTypes, StartInstall, Starts, Natives, Installs,
        OvertakenCancelled, Cancels, dialogVars
<1>2. \A b \in Attempts \ {a} : start'[b] = start[b]
  BY SignInAssumption DEF TypesInv, StateTypes, StartInstall, Starts, Natives, Installs,
        OvertakenCancelled, Cancels, dialogVars
<1>3. \/ /\ native.client = a /\ start'[a].at = "ok" /\ sent' = sent
         /\ native'.pending = a /\ native'.client = a /\ native'.generation = native.generation
      \/ /\ start'[a].at = "error" /\ native' = native
         /\ sent' = sent \cup {<<"cancel", a>>}
  <2>1. Cancels({a}) = {<<"cancel", a>>}
    BY SignInAssumption DEF Cancels
  <2>2. CASE Installs(a)
    <3>1. /\ native' = [native EXCEPT !.pending = a, !.polling = FALSE]
          /\ native.client = a
          /\ sent' = sent
      BY <2>2 DEF StartInstall, Installs
    <3>2. start'[a].at = "ok"
      BY <2>2 DEF TypesInv, StateTypes, StartInstall, Starts
    <3> QED BY <3>1, <3>2 DEF TypesInv, StateTypes, Natives
  <2>3. CASE ~Installs(a)
    <3>1. native' = native /\ sent' = sent \cup {<<"cancel", a>>}
      BY <2>1, <2>3 DEF StartInstall, OvertakenCancelled
    <3>2. start'[a].at = "error"
      BY <2>3 DEF TypesInv, StateTypes, StartInstall, Starts
    <3> QED BY <3>1, <3>2
  <2> QED BY <2>2, <2>3
<1>4. UNCHANGED <<use, grant, session, expired, keyring, poll, cancels, logout, load, rename, left,
                  dialog, app, belongs>>
  BY SignInAssumption DEF TypesInv, StateTypes, StartInstall, Starts, Natives, Installs,
        OvertakenCancelled, Cancels, dialogVars
<1> QED BY <1>1, <1>2, <1>3, <1>4

(* account_browser_auth_poll looks at what the mutex holds.                *)
LEMMA PollLockEffect ==
  ASSUME TypesInv, NEW a \in Attempts, PollLock(a), UNCHANGED dialogVars
  PROVE  /\ poll[a] = "call" /\ poll'[a] \in {"expired", "error", "pending", "post"}
         /\ \A b \in Attempts \ {a} : poll'[b] = poll[b]
         /\ native'.generation = native.generation
         /\ \/ native'.pending = native.pending /\ poll'[a] # "expired"
            \/ native'.pending = None /\ native.pending # None /\ Expired(native.pending)
         /\ UNCHANGED <<use, grant, session, expired, keyring, start, cancels, logout, load, rename,
                        sent, left, dialog, app, belongs>>
<1>1. poll[a] = "call" /\ poll'[a] \in {"expired", "error", "pending", "post"}
  BY NativeRecords DEF TypesInv, StateTypes, PollLock, Polls, Natives, dialogVars
<1>2. \A b \in Attempts \ {a} : poll'[b] = poll[b]
  BY NativeRecords DEF TypesInv, StateTypes, PollLock, Polls, Natives, dialogVars
<1>3. native'.generation = native.generation
  BY NativeRecords DEF TypesInv, StateTypes, PollLock, Polls, Natives, dialogVars
<1>4. \/ native'.pending = native.pending /\ poll'[a] # "expired"
      \/ native'.pending = None /\ native.pending # None /\ Expired(native.pending)
  BY NativeRecords DEF TypesInv, StateTypes, PollLock, Polls, Natives, dialogVars
<1>5. UNCHANGED <<use, grant, session, expired, keyring, start, cancels, logout, load, rename, sent,
                  left, dialog, app, belongs>>
  BY NativeRecords DEF TypesInv, StateTypes, PollLock, Polls, Natives, dialogVars
<1> QED BY <1>1, <1>2, <1>3, <1>4, <1>5

(* The service is polled.                                                  *)
LEMMA PollPostEffect ==
  ASSUME TypesInv, NEW a \in Attempts, PollPost(a), UNCHANGED dialogVars
  PROVE  /\ poll[a] = "post" /\ poll'[a] \in {"failed", "complete", "waiting", "gone"}
         /\ \A b \in Attempts \ {a} : poll'[b] = poll[b]
         /\ \A b \in Attempts \ {a} : grant'[b] = grant[b]
         /\ \A t \in Sessions \ {a} : session'[t] = session[t]
         /\ \/ /\ grant[a] = "approved" /\ grant'[a] = "redeemed" /\ session'[a] = "live"
               /\ poll'[a] = "complete" \/ (poll'[a] = "failed" /\ <<"logout", a>> \in left'.lost)
            \/ /\ grant'[a] = grant[a] /\ session'[a] = session[a] /\ poll'[a] # "complete"
               /\ poll'[a] = "gone" => Expired(a) \/ grant[a] \notin {"pending", "approved"}
         /\ left.lost \subseteq left'.lost
         /\ left'.crossed = left.crossed
         /\ left'.replaced = left.replaced
         /\ UNCHANGED <<use, expired, native, keyring, start, cancels, logout, load, rename, sent,
                        dialog, app, belongs>>
<1>1. poll[a] = "post" /\ poll'[a] \in {"failed", "complete", "waiting", "gone"}
  BY FaultRecords, MessageSets, SignInAssumption DEF TypesInv, StateTypes, PollPost, Polls, Grants,
        Lives, Sessions, Revocations, dialogVars
<1>2. \A b \in Attempts \ {a} : poll'[b] = poll[b]
  BY FaultRecords, MessageSets, SignInAssumption DEF TypesInv, StateTypes, PollPost, Polls, Grants,
        Lives, Sessions, Revocations, dialogVars
<1>3. \A b \in Attempts \ {a} : grant'[b] = grant[b]
  BY FaultRecords, MessageSets, SignInAssumption DEF TypesInv, StateTypes, PollPost, Polls, Grants,
        Lives, Sessions, Revocations, dialogVars
<1>4. \A t \in Sessions \ {a} : session'[t] = session[t]
  BY FaultRecords, MessageSets, SignInAssumption DEF TypesInv, StateTypes, PollPost, Polls, Grants,
        Lives, Sessions, Revocations, dialogVars
<1>5. \/ /\ grant[a] = "approved" /\ grant'[a] = "redeemed" /\ session'[a] = "live"
         /\ poll'[a] = "complete" \/ (poll'[a] = "failed" /\ <<"logout", a>> \in left'.lost)
      \/ /\ grant'[a] = grant[a] /\ session'[a] = session[a] /\ poll'[a] # "complete"
         /\ poll'[a] = "gone" => Expired(a) \/ grant[a] \notin {"pending", "approved"}
  BY FaultRecords, MessageSets, SignInAssumption DEF TypesInv, StateTypes, PollPost, Polls, Grants,
        Lives, Sessions, Revocations, dialogVars
<1>6. /\ left.lost \subseteq left'.lost
      /\ left'.crossed = left.crossed
      /\ left'.replaced = left.replaced
  BY FaultRecords, MessageSets, SignInAssumption DEF TypesInv, StateTypes, PollPost, Polls, Grants,
        Lives, Sessions, Revocations, dialogVars
<1>7. UNCHANGED <<use, expired, native, keyring, start, cancels, logout, load, rename, sent, dialog,
                  app, belongs>>
  BY FaultRecords, MessageSets, SignInAssumption DEF TypesInv, StateTypes, PollPost, Polls, Grants,
        Lives, Sessions, Revocations, dialogVars
<1> QED BY <1>1, <1>2, <1>3, <1>4, <1>5, <1>6, <1>7

(* A poll that has to wait lets go of the mutex.                           *)
LEMMA PollAgainEffect ==
  ASSUME TypesInv, NEW a \in Attempts, PollAgain(a), UNCHANGED dialogVars
  PROVE  /\ poll[a] \in {"failed", "waiting"} /\ poll'[a] \in {"error", "pending"}
         /\ \A b \in Attempts \ {a} : poll'[b] = poll[b]
         /\ native'.pending = native.pending /\ native'.generation = native.generation
         /\ UNCHANGED <<use, grant, session, expired, keyring, start, cancels, logout, load, rename,
                        sent, left, dialog, app, belongs>>
<1>1. poll[a] \in {"failed", "waiting"} /\ poll'[a] \in {"error", "pending"}
  BY DEF TypesInv, StateTypes, PollAgain, Polls, Natives, dialogVars
<1>2. \A b \in Attempts \ {a} : poll'[b] = poll[b]
  BY DEF TypesInv, StateTypes, PollAgain, Polls, Natives, dialogVars
<1>3. native'.pending = native.pending /\ native'.generation = native.generation
  BY DEF TypesInv, StateTypes, PollAgain, Polls, Natives, dialogVars
<1>4. UNCHANGED <<use, grant, session, expired, keyring, start, cancels, logout, load, rename, sent,
                  left, dialog, app, belongs>>
  BY DEF TypesInv, StateTypes, PollAgain, Polls, Natives, dialogVars
<1> QED BY <1>1, <1>2, <1>3, <1>4

(* The service no longer knows the request.                                *)
LEMMA PollGoneEffect ==
  ASSUME TypesInv, NEW a \in Attempts, PollGone(a), UNCHANGED dialogVars
  PROVE  /\ poll[a] = "gone" /\ poll'[a] = "expired"
         /\ \A b \in Attempts \ {a} : poll'[b] = poll[b]
         /\ \/ native.pending # a /\ native' = native
            \/ /\ native.pending = a
               /\ native'.pending = None
               /\ native'.generation = native.generation + 1
         /\ UNCHANGED <<use, grant, session, expired, keyring, start, cancels, logout, load, rename,
                        sent, left, dialog, app, belongs>>
<1>1. poll[a] = "gone" /\ poll'[a] = "expired"
  BY NativeRecords DEF TypesInv, StateTypes, PollGone, Polls, Natives, dialogVars
<1>2. \A b \in Attempts \ {a} : poll'[b] = poll[b]
  BY NativeRecords DEF TypesInv, StateTypes, PollGone, Polls, Natives, dialogVars
<1>3. \/ native.pending # a /\ native' = native
      \/ native.pending = a /\ native'.pending = None /\ native'.generation = native.generation + 1
  BY NativeRecords DEF TypesInv, StateTypes, PollGone, Polls, Natives, dialogVars
<1>4. UNCHANGED <<use, grant, session, expired, keyring, start, cancels, logout, load, rename, sent,
                  left, dialog, app, belongs>>
  BY NativeRecords DEF TypesInv, StateTypes, PollGone, Polls, Natives, dialogVars
<1> QED BY <1>1, <1>2, <1>3, <1>4

(* The session is stored, or refused and revoked.                          *)
LEMMA PollCommitEffect ==
  ASSUME TypesInv, NEW a \in Attempts, PollCommit(a), UNCHANGED dialogVars
  PROVE  /\ poll[a] = "complete" /\ poll'[a] \in {"signedIn", "pending", "expired", "error"}
         /\ \A b \in Attempts \ {a} : poll'[b] = poll[b]
         /\ native'.generation = native.generation
         /\ native'.pending = native.pending \/ (native.pending = a /\ native'.pending = None)
         /\ poll'[a] = "expired" => native'.pending # a
         /\ left'.lost = left.lost
         /\ \/ /\ poll'[a] = "signedIn" /\ keyring' = a /\ sent' = sent
               /\ left'.crossed = left.crossed \cup (IF SigningOut THEN {a} ELSE {})
               /\ left'.replaced = left.replaced \cup ({keyring} \ {None})
            \/ /\ poll'[a] # "signedIn" /\ keyring' = keyring /\ sent' = sent \cup {<<"logout", a>>}
               /\ left'.crossed = left.crossed /\ left'.replaced = left.replaced
         /\ UNCHANGED <<use, grant, session, expired, start, cancels, logout, load, rename, dialog,
                        app, belongs>>
<1>1. poll[a] = "complete" /\ poll'[a] \in {"signedIn", "pending", "expired", "error"}
  BY FaultRecords, NativeRecords, SignInAssumption DEF TypesInv, StateTypes, PollCommit,
        CommitStored, CommitRefused, Active, Revokes, Revocations, Polls, Natives, Traces,
        dialogVars
<1>2. \A b \in Attempts \ {a} : poll'[b] = poll[b]
  BY FaultRecords, NativeRecords, SignInAssumption DEF TypesInv, StateTypes, PollCommit,
        CommitStored, CommitRefused, Active, Revokes, Revocations, Polls, Natives, Traces,
        dialogVars
<1>3. native'.generation = native.generation
  BY FaultRecords, NativeRecords, SignInAssumption DEF TypesInv, StateTypes, PollCommit,
        CommitStored, CommitRefused, Active, Revokes, Revocations, Polls, Natives, Traces,
        dialogVars
<1>4. native'.pending = native.pending \/ (native.pending = a /\ native'.pending = None)
  BY FaultRecords, NativeRecords, SignInAssumption DEF TypesInv, StateTypes, PollCommit,
        CommitStored, CommitRefused, Active, Revokes, Revocations, Polls, Natives, Traces,
        dialogVars
<1>5. poll'[a] = "expired" => native'.pending # a
  BY FaultRecords, NativeRecords, SignInAssumption DEF TypesInv, StateTypes, PollCommit,
        CommitStored, CommitRefused, Active, Revokes, Revocations, Polls, Natives, Traces,
        dialogVars
<1>6. left'.lost = left.lost
  BY FaultRecords, NativeRecords, SignInAssumption DEF TypesInv, StateTypes, PollCommit,
        CommitStored, CommitRefused, Active, Revokes, Revocations, Polls, Natives, Traces,
        dialogVars
<1>7. \/ /\ poll'[a] = "signedIn" /\ keyring' = a /\ sent' = sent
         /\ left'.crossed = left.crossed \cup (IF SigningOut THEN {a} ELSE {})
         /\ left'.replaced = left.replaced \cup ({keyring} \ {None})
      \/ /\ poll'[a] # "signedIn" /\ keyring' = keyring /\ sent' = sent \cup {<<"logout", a>>}
         /\ left'.crossed = left.crossed /\ left'.replaced = left.replaced
  <2>1. Revokes(a) = {<<"logout", a>>}
    BY SignInAssumption DEF Revokes, Revocations
  <2>2. CASE CommitStored(a)
    <3>1. /\ keyring' = a /\ sent' = sent /\ poll'[a] = "signedIn"
      BY <2>2 DEF TypesInv, StateTypes, CommitStored, Polls
    <3>2. left'.crossed = IF SigningOut THEN left.crossed \cup {a} ELSE left.crossed
      BY <2>2 DEF TypesInv, StateTypes, CommitStored, Traces
    <3>3. left'.replaced = left.replaced \cup ({keyring} \ {None})
      BY <2>2 DEF TypesInv, StateTypes, CommitStored, Traces
    <3> QED BY <3>1, <3>2, <3>3
  <2>3. ASSUME NEW r \in {"pending", "expired", "error"}, CommitRefused(a, r),
               UNCHANGED left \/ Failing
        PROVE  /\ poll'[a] # "signedIn" /\ keyring' = keyring /\ sent' = sent \cup {<<"logout", a>>}
               /\ left'.crossed = left.crossed /\ left'.replaced = left.replaced
    BY <2>1, <2>3, FaultRecords DEF TypesInv, StateTypes, CommitRefused, Polls
  <2> QED BY <2>2, <2>3 DEF PollCommit
<1>8. UNCHANGED <<use, grant, session, expired, start, cancels, logout, load, rename, dialog, app,
                  belongs>>
  BY FaultRecords, NativeRecords, SignInAssumption DEF TypesInv, StateTypes, PollCommit,
        CommitStored, CommitRefused, Active, Revokes, Revocations, Polls, Natives, Traces,
        dialogVars
<1> QED BY <1>1, <1>2, <1>3, <1>4, <1>5, <1>6, <1>7, <1>8

(* account_browser_auth_cancel takes the mutex.                            *)
LEMMA CancelLockEffect ==
  ASSUME TypesInv, NEW c \in cancels, CancelLock(c), UNCHANGED dialogVars
  PROVE  /\ c.at = "call"
         /\ \/ native' = native /\ sent' = sent /\ native.client # c.id
            \/ /\ native.client = c.id
               /\ native'.pending = None
               /\ native'.generation = native.generation + 1
               /\ sent \subseteq sent'
               /\ (native.pending # None => <<"cancel", native.pending>> \in sent')
               /\ \A x \in sent' : x \in sent \/ x = <<"cancel", native.pending>>
         /\ \A r \in cancels' : r \in cancels \/ (r.id = c.id /\ r.at = "return")
         /\ \A r \in cancels : r \in cancels' \/ r = c
         /\ UNCHANGED <<use, grant, session, expired, keyring, start, poll, logout, load, rename,
                        left, dialog, app, belongs>>
<1>1. c.at = "call"
  BY NativeRecords DEF TypesInv, StateTypes, CancelLock, CancelsOwn, Calls, Cancels, dialogVars
<1>2. \/ native' = native /\ sent' = sent /\ native.client # c.id
      \/ /\ native.client = c.id
         /\ native'.pending = None
         /\ native'.generation = native.generation + 1
         /\ sent \subseteq sent'
         /\ (native.pending # None => <<"cancel", native.pending>> \in sent')
         /\ \A x \in sent' : x \in sent \/ x = <<"cancel", native.pending>>
  BY NativeRecords DEF TypesInv, StateTypes, CancelLock, CancelsOwn, Calls, Cancels, dialogVars
<1>3. \A r \in cancels' : r \in cancels \/ (r.id = c.id /\ r.at = "return")
  BY NativeRecords DEF TypesInv, StateTypes, CancelLock, CancelsOwn, Calls, Cancels, dialogVars
<1>4. \A r \in cancels : r \in cancels' \/ r = c
  BY NativeRecords DEF TypesInv, StateTypes, CancelLock, CancelsOwn, Calls, Cancels, dialogVars
<1>5. UNCHANGED <<use, grant, session, expired, keyring, start, poll, logout, load, rename, left,
                  dialog, app, belongs>>
  BY NativeRecords DEF TypesInv, StateTypes, CancelLock, CancelsOwn, Calls, Cancels, dialogVars
<1> QED BY <1>1, <1>2, <1>3, <1>4, <1>5

(* account_logout reads the stored session.                                *)
LEMMA LogoutReadEffect ==
  ASSUME TypesInv, NEW n \in Signouts, LogoutRead(n), UNCHANGED dialogVars
  PROVE  /\ logout[n].at = "call" /\ logout'[n].at \in {"clear", "error"}
         /\ \A k \in Signouts \ {n} : logout'[k] = logout[k]
         /\ logout'[n].at = "clear" => logout'[n].token = keyring
         /\ left'.lost = left.lost /\ left'.crossed = left.crossed /\ left'.replaced = left.replaced
         /\ UNCHANGED <<use, grant, session, expired, native, keyring, start, poll, cancels, load,
                        rename, sent, dialog, app, belongs>>
<1>1. logout[n].at = "call" /\ logout'[n].at \in {"clear", "error"}
  BY FaultRecords DEF TypesInv, StateTypes, LogoutRead, Logouts, dialogVars
<1>2. \A k \in Signouts \ {n} : logout'[k] = logout[k]
  BY FaultRecords DEF TypesInv, StateTypes, LogoutRead, Logouts, dialogVars
<1>3. logout'[n].at = "clear" => logout'[n].token = keyring
  BY FaultRecords DEF TypesInv, StateTypes, LogoutRead, Logouts, dialogVars
<1>4. left'.lost = left.lost /\ left'.crossed = left.crossed /\ left'.replaced = left.replaced
  BY FaultRecords DEF TypesInv, StateTypes, LogoutRead, Logouts, dialogVars
<1>5. UNCHANGED <<use, grant, session, expired, native, keyring, start, poll, cancels, load, rename,
                  sent, dialog, app, belongs>>
  BY FaultRecords DEF TypesInv, StateTypes, LogoutRead, Logouts, dialogVars
<1> QED BY <1>1, <1>2, <1>3, <1>4, <1>5

(* It clears the store if the session is still there.                      *)
LEMMA LogoutClearEffect ==
  ASSUME TypesInv, NEW n \in Signouts, LogoutClear(n), UNCHANGED dialogVars
  PROVE  /\ logout[n].at = "clear" /\ logout'[n].at \in {"ok", "error"}
         /\ \A k \in Signouts \ {n} : logout'[k] = logout[k]
         /\ logout[n].token # None => <<"logout", logout[n].token>> \in sent'
         /\ sent \subseteq sent'
         /\ \A a \in Attempts : <<"cancel", a>> \in sent' => <<"cancel", a>> \in sent
         /\ keyring' = None \/ (keyring' = keyring /\ logout'[n].at = "error")
         /\ left'.lost = left.lost /\ left'.crossed = left.crossed /\ left'.replaced = left.replaced
         /\ UNCHANGED <<use, grant, session, expired, native, start, poll, cancels, load, rename,
                        dialog, app, belongs>>
<1>1. logout[n].at = "clear" /\ logout'[n].at \in {"ok", "error"}
  BY FaultRecords DEF TypesInv, StateTypes, LogoutClear, Logouts, Revocations, dialogVars
<1>2. \A k \in Signouts \ {n} : logout'[k] = logout[k]
  BY FaultRecords DEF TypesInv, StateTypes, LogoutClear, Logouts, Revocations, dialogVars
<1>3. logout[n].token # None => <<"logout", logout[n].token>> \in sent'
  BY FaultRecords DEF TypesInv, StateTypes, LogoutClear, Logouts, Revocations, dialogVars
<1>4. /\ sent \subseteq sent'
      /\ \A a \in Attempts : <<"cancel", a>> \in sent' => <<"cancel", a>> \in sent
  BY FaultRecords DEF TypesInv, StateTypes, LogoutClear, Logouts, Revocations, dialogVars
<1>5. keyring' = None \/ (keyring' = keyring /\ logout'[n].at = "error")
  BY FaultRecords DEF TypesInv, StateTypes, LogoutClear, Logouts, Revocations, dialogVars
<1>6. left'.lost = left.lost /\ left'.crossed = left.crossed /\ left'.replaced = left.replaced
  BY FaultRecords DEF TypesInv, StateTypes, LogoutClear, Logouts, Revocations, dialogVars
<1>7. UNCHANGED <<use, grant, session, expired, native, start, poll, cancels, load, rename, dialog,
                  app, belongs>>
  BY FaultRecords DEF TypesInv, StateTypes, LogoutClear, Logouts, Revocations, dialogVars
<1> QED BY <1>1, <1>2, <1>3, <1>4, <1>5, <1>6, <1>7

(* account_load_session reads the stored session.                          *)
LEMMA LoadReadEffect ==
  ASSUME TypesInv, LoadRead, UNCHANGED dialogVars
  PROVE  /\ load.at = "call"
         /\ load'.at \in {"nobody", "ask"}
         /\ (load'.at = "ask" => load'.token = keyring)
         /\ UNCHANGED <<use, grant, session, expired, native, keyring, start, poll, cancels, logout,
                        rename, sent, left, dialog, app, belongs>>
<1>1. /\ load.at = "call"
      /\ load'.at \in {"nobody", "ask"}
      /\ (load'.at = "ask" => load'.token = keyring)
  BY DEF TypesInv, StateTypes, LoadRead, dialogVars
<1>2. UNCHANGED <<use, grant, session, expired, native, keyring, start, poll, cancels, logout,
                  rename, sent, left, dialog, app, belongs>>
  BY DEF TypesInv, StateTypes, LoadRead, dialogVars
<1> QED BY <1>1, <1>2

(* The service is asked for its profile.                                   *)
LEMMA LoadAskEffect ==
  ASSUME TypesInv, LoadAsk, UNCHANGED dialogVars
  PROVE  /\ load.at = "ask"
         /\ load'.at \in {"profile", "unauthorized", "error"}
         /\ load'.token = load.token
         /\ load'.at = "unauthorized" => session[load.token] # "live"
         /\ left'.lost = left.lost /\ left'.crossed = left.crossed /\ left'.replaced = left.replaced
         /\ UNCHANGED <<use, grant, session, expired, native, keyring, start, poll, cancels, logout,
                        rename, sent, dialog, app, belongs>>
<1>1. /\ load.at = "ask"
      /\ load'.at \in {"profile", "unauthorized", "error"}
      /\ load'.token = load.token
  BY FaultRecords DEF TypesInv, StateTypes, LoadAsk, Loads, dialogVars
<1>2. load'.at = "unauthorized" => session[load.token] # "live"
  BY FaultRecords DEF TypesInv, StateTypes, LoadAsk, Loads, dialogVars
<1>3. left'.lost = left.lost /\ left'.crossed = left.crossed /\ left'.replaced = left.replaced
  BY FaultRecords DEF TypesInv, StateTypes, LoadAsk, Loads, dialogVars
<1>4. UNCHANGED <<use, grant, session, expired, native, keyring, start, poll, cancels, logout,
                  rename, sent, dialog, app, belongs>>
  BY FaultRecords DEF TypesInv, StateTypes, LoadAsk, Loads, dialogVars
<1> QED BY <1>1, <1>2, <1>3, <1>4

(* A session that the service does not know is cleared.                    *)
LEMMA LoadClearEffect ==
  ASSUME TypesInv, LoadClear, UNCHANGED dialogVars
  PROVE  /\ load.at = "unauthorized" /\ load'.at \in {"nobody", "error"}
         /\ keyring' = None \/ keyring' = keyring
         /\ left'.lost = left.lost /\ left'.crossed = left.crossed /\ left'.replaced = left.replaced
         /\ UNCHANGED <<use, grant, session, expired, native, start, poll, cancels, logout, rename,
                        sent, dialog, app, belongs>>
<1>1. load.at = "unauthorized" /\ load'.at \in {"nobody", "error"}
  BY FaultRecords DEF TypesInv, StateTypes, LoadClear, Loads, dialogVars
<1>2. keyring' = None \/ keyring' = keyring
  BY FaultRecords DEF TypesInv, StateTypes, LoadClear, Loads, dialogVars
<1>3. left'.lost = left.lost /\ left'.crossed = left.crossed /\ left'.replaced = left.replaced
  BY FaultRecords DEF TypesInv, StateTypes, LoadClear, Loads, dialogVars
<1>4. UNCHANGED <<use, grant, session, expired, native, start, poll, cancels, logout, rename, sent,
                  dialog, app, belongs>>
  BY FaultRecords DEF TypesInv, StateTypes, LoadClear, Loads, dialogVars
<1> QED BY <1>1, <1>2, <1>3, <1>4

(* The service is asked to change the name.                                *)
LEMMA RenameAskEffect ==
  ASSUME TypesInv, RenameAsk, UNCHANGED dialogVars
  PROVE  /\ left'.lost = left.lost /\ left'.crossed = left.crossed /\ left'.replaced = left.replaced
         /\ UNCHANGED <<use, grant, session, expired, native, keyring, start, poll, cancels, logout,
                        load, sent, dialog, app, belongs>>
<1>1. left'.lost = left.lost /\ left'.crossed = left.crossed /\ left'.replaced = left.replaced
  BY FaultRecords DEF TypesInv, StateTypes, RenameAsk, dialogVars
<1>2. UNCHANGED <<use, grant, session, expired, native, keyring, start, poll, cancels, logout, load,
                  sent, dialog, app, belongs>>
  BY FaultRecords DEF TypesInv, StateTypes, RenameAsk, dialogVars
<1> QED BY <1>1, <1>2

(* A message arrives.                                                      *)
LEMMA ReceiveEffect ==
  ASSUME TypesInv, NEW m \in sent, Receive(m), UNCHANGED dialogVars
  PROVE  /\ sent' = sent \ {m}
         /\ \/ /\ m = <<"cancel", m[2]>> /\ m[2] \in Attempts /\ session' = session
               /\ \A b \in Attempts :
                    \/ grant'[b] = grant[b]
                    \/ b = m[2] /\ grant[b] \in {"pending", "approved"} /\ grant'[b] = "cancelled"
               /\ grant'[m[2]] \in {"pending", "approved"} => Expired(m[2])
            \/ /\ m = <<"logout", m[2]>>
               /\ m[2] \in Sessions
               /\ grant' = grant
               /\ session'[m[2]] = "revoked"
               /\ \A t \in Sessions \ {m[2]} : session'[t] = session[t]
         /\ UNCHANGED <<use, expired, native, keyring, start, poll, cancels, logout, load, rename,
                        left, dialog, app, belongs>>
<1>1. sent' = sent \ {m}
  BY DEF TypesInv, StateTypes, Receive, Messages, Grants, Lives, dialogVars
<1>2. \/ /\ m = <<"cancel", m[2]>> /\ m[2] \in Attempts /\ session' = session
         /\ \A b \in Attempts :
              \/ grant'[b] = grant[b]
              \/ b = m[2] /\ grant[b] \in {"pending", "approved"} /\ grant'[b] = "cancelled"
         /\ grant'[m[2]] \in {"pending", "approved"} => Expired(m[2])
      \/ /\ m = <<"logout", m[2]>>
         /\ m[2] \in Sessions
         /\ grant' = grant
         /\ session'[m[2]] = "revoked"
         /\ \A t \in Sessions \ {m[2]} : session'[t] = session[t]
  BY DEF TypesInv, StateTypes, Receive, Messages, Grants, Lives, dialogVars
<1>3. UNCHANGED <<use, expired, native, keyring, start, poll, cancels, logout, load, rename, left,
                  dialog, app, belongs>>
  BY DEF TypesInv, StateTypes, Receive, Messages, Grants, Lives, dialogVars
<1> QED BY <1>1, <1>2, <1>3

(* A message is lost.                                                      *)
LEMMA LoseEffect ==
  ASSUME TypesInv, NEW m \in sent, Lose(m), UNCHANGED dialogVars
  PROVE  /\ sent' = sent \ {m} /\ left'.lost = left.lost \cup {m}
         /\ left'.crossed = left.crossed /\ left'.replaced = left.replaced
         /\ UNCHANGED <<use, grant, session, expired, native, keyring, start, poll, cancels, logout,
                        load, rename, dialog, app, belongs>>
<1>1. sent' = sent \ {m} /\ left'.lost = left.lost \cup {m}
  BY FaultRecords DEF TypesInv, StateTypes, Lose, dialogVars
<1>2. left'.crossed = left.crossed /\ left'.replaced = left.replaced
  BY FaultRecords DEF TypesInv, StateTypes, Lose, dialogVars
<1>3. UNCHANGED <<use, grant, session, expired, native, keyring, start, poll, cancels, logout, load,
                  rename, dialog, app, belongs>>
  BY FaultRecords DEF TypesInv, StateTypes, Lose, dialogVars
<1> QED BY <1>1, <1>2, <1>3

(* The earlier session ends elsewhere.                                     *)
LEMMA EndPastEffect ==
  ASSUME TypesInv, EndPast, UNCHANGED dialogVars
  PROVE  /\ session'[Past] = "revoked"
         /\ \A t \in Sessions \ {Past} : session'[t] = session[t]
         /\ UNCHANGED <<use, grant, expired, native, keyring, start, poll, cancels, logout, load,
                        rename, sent, left, dialog, app, belongs>>
<1>1. session'[Past] = "revoked"
  BY DEF TypesInv, StateTypes, EndPast, Lives, Sessions, dialogVars
<1>2. \A t \in Sessions \ {Past} : session'[t] = session[t]
  BY DEF TypesInv, StateTypes, EndPast, Lives, Sessions, dialogVars
<1>3. UNCHANGED <<use, grant, expired, native, keyring, start, poll, cancels, logout, load, rename,
                  sent, left, dialog, app, belongs>>
  BY DEF TypesInv, StateTypes, EndPast, Lives, Sessions, dialogVars
<1> QED BY <1>1, <1>2, <1>3

(* A browser approves a request.                                           *)
LEMMA ApproveEffect ==
  ASSUME TypesInv, NEW a \in Attempts, Approve(a), UNCHANGED dialogVars
  PROVE  /\ grant[a] = "pending" /\ grant'[a] = "approved" /\ start[a].at = "opened"
         /\ \A b \in Attempts \ {a} : grant'[b] = grant[b]
         /\ UNCHANGED <<use, session, expired, native, keyring, start, poll, cancels, logout, load,
                        rename, sent, left, dialog, app, belongs>>
<1>1. grant[a] = "pending" /\ grant'[a] = "approved" /\ start[a].at = "opened"
  BY DEF TypesInv, StateTypes, Approve, Grants, dialogVars
<1>2. \A b \in Attempts \ {a} : grant'[b] = grant[b]
  BY DEF TypesInv, StateTypes, Approve, Grants, dialogVars
<1>3. UNCHANGED <<use, session, expired, native, keyring, start, poll, cancels, logout, load,
                  rename, sent, left, dialog, app, belongs>>
  BY DEF TypesInv, StateTypes, Approve, Grants, dialogVars
<1> QED BY <1>1, <1>2, <1>3

(* A request's ten minutes are over.                                       *)
LEMMA ExpireEffect ==
  ASSUME TypesInv, NEW a \in Attempts, Expire(a), UNCHANGED dialogVars
  PROVE  /\ expired' = expired \cup {a}
         /\ start[a].at \in {"opened", "ended"}
         /\ UNCHANGED <<use, grant, session, native, keyring, start, poll, cancels, logout, load,
                        rename, sent, left, dialog, app, belongs>>
<1>1. expired' = expired \cup {a}
  BY DEF TypesInv, StateTypes, Expire, dialogVars
<1>2. start[a].at \in {"opened", "ended"}
  BY DEF TypesInv, StateTypes, Expire, dialogVars
<1>3. UNCHANGED <<use, grant, session, native, keyring, start, poll, cancels, logout, load, rename,
                  sent, left, dialog, app, belongs>>
  BY DEF TypesInv, StateTypes, Expire, dialogVars
<1> QED BY <1>1, <1>2, <1>3

(***************************************************************************)
(* What the dialog does.                                                   *)
(***************************************************************************)
(* A dialog begins an attempt.                                             *)
LEMMA StartEffect ==
  ASSUME TypesInv, NEW a \in Attempts, Start(a)
  PROVE  /\ start'[a].at = "call" /\ start'[a].generation = start[a].generation
         /\ \A b \in Attempts \ {a} : start'[b] = start[b]
         /\ belongs[a] = 0 /\ belongs'[a] = dialog.mount
         /\ \A b \in Attempts \ {a} : belongs'[b] = belongs[b]
         /\ app.loaded /\ dialog.open /\ dialog.mount # 0
         /\ dialog.ref = None /\ dialog'.ref = a /\ dialog'.started = FALSE
         /\ UNCHANGED <<use, grant, session, expired, native, keyring, poll, cancels, logout, load,
                        rename, sent, left, app>>
<1>1. start'[a].at = "call" /\ start'[a].generation = start[a].generation
  BY SignInAssumption DEF TypesInv, StateTypes, Start, Starts, Mounts, Dialogs, nativeVars,
        dialogVars
<1>2. \A b \in Attempts \ {a} : start'[b] = start[b]
  BY SignInAssumption DEF TypesInv, StateTypes, Start, Starts, Mounts, Dialogs, nativeVars,
        dialogVars
<1>3. belongs[a] = 0 /\ belongs'[a] = dialog.mount
  BY SignInAssumption DEF TypesInv, StateTypes, Start, Starts, Mounts, Dialogs, nativeVars,
        dialogVars
<1>4. \A b \in Attempts \ {a} : belongs'[b] = belongs[b]
  BY SignInAssumption DEF TypesInv, StateTypes, Start, Starts, Mounts, Dialogs, nativeVars,
        dialogVars
<1>5. app.loaded /\ dialog.open /\ dialog.mount # 0
  BY SignInAssumption DEF TypesInv, StateTypes, Start, Starts, Mounts, Dialogs, nativeVars,
        dialogVars
<1>6. dialog.ref = None /\ dialog'.ref = a /\ dialog'.started = FALSE
  BY SignInAssumption DEF TypesInv, StateTypes, Start, Starts, Mounts, Dialogs, nativeVars,
        dialogVars
<1>7. UNCHANGED <<use, grant, session, expired, native, keyring, poll, cancels, logout, load,
                  rename, sent, left, app>>
  BY SignInAssumption DEF TypesInv, StateTypes, Start, Starts, Mounts, Dialogs, nativeVars,
        dialogVars
<1> QED BY <1>1, <1>2, <1>3, <1>4, <1>5, <1>6, <1>7

(* The dialog learns the result of its start.                              *)
LEMMA StartReturnsEffect ==
  ASSUME TypesInv, NEW a \in Attempts, StartReturns(a)
  PROVE  /\ start'[a].generation = start[a].generation
         /\ \A b \in Attempts \ {a} : start'[b] = start[b]
         /\ \/ /\ dialog.ref = a /\ start[a].at = "ok" /\ start'[a].at = "opened"
               /\ dialog'.ref = a /\ dialog'.started = TRUE /\ cancels' = cancels
            \/ /\ dialog.ref # a
               /\ start[a].at \in {"ok", "error"}
               /\ start'[a].at = "ended"
               /\ dialog' = dialog
               /\ cancels' = cancels \cup Unasked({a})
            \/ /\ dialog.ref = a /\ start[a].at = "error" /\ start'[a].at = "ended"
               /\ dialog'.ref = None
               /\ dialog'.started = FALSE
               /\ cancels' = cancels \cup Unasked({a})
         /\ UNCHANGED <<use, grant, session, expired, native, keyring, poll, logout, load, rename,
                        sent, left, app, belongs>>
<1>1. start'[a].generation = start[a].generation
  BY AbandonedTyped DEF TypesInv, StateTypes, StartReturns, Starts, Dialogs, Issue, Unasked,
        nativeVars, dialogVars
<1>2. \A b \in Attempts \ {a} : start'[b] = start[b]
  BY AbandonedTyped DEF TypesInv, StateTypes, StartReturns, Starts, Dialogs, Issue, Unasked,
        nativeVars, dialogVars
<1>3. \/ /\ dialog.ref = a /\ start[a].at = "ok" /\ start'[a].at = "opened"
         /\ dialog'.ref = a /\ dialog'.started = TRUE /\ cancels' = cancels
      \/ /\ dialog.ref # a
         /\ start[a].at \in {"ok", "error"}
         /\ start'[a].at = "ended"
         /\ dialog' = dialog
         /\ cancels' = cancels \cup Unasked({a})
      \/ /\ dialog.ref = a /\ start[a].at = "error" /\ start'[a].at = "ended"
         /\ dialog'.ref = None /\ dialog'.started = FALSE /\ cancels' = cancels \cup Unasked({a})
  BY AbandonedTyped DEF TypesInv, StateTypes, StartReturns, Starts, Dialogs, Issue, Unasked,
        nativeVars, dialogVars
<1>4. UNCHANGED <<use, grant, session, expired, native, keyring, poll, logout, load, rename, sent,
                  left, app, belongs>>
  BY AbandonedTyped DEF TypesInv, StateTypes, StartReturns, Starts, Dialogs, Issue, Unasked,
        nativeVars, dialogVars
<1> QED BY <1>1, <1>2, <1>3, <1>4

(* The dialog polls.                                                       *)
LEMMA PollBeginsEffect ==
  ASSUME TypesInv, NEW a \in Attempts, PollBegins(a)
  PROVE  /\ poll[a] = "idle" /\ poll'[a] = "call" /\ dialog.ref = a /\ dialog.started
         /\ \A b \in Attempts \ {a} : poll'[b] = poll[b]
         /\ UNCHANGED <<use, grant, session, expired, native, keyring, start, cancels, logout, load,
                        rename, sent, left, dialog, app, belongs>>
<1>1. poll[a] = "idle" /\ poll'[a] = "call" /\ dialog.ref = a /\ dialog.started
  BY DEF TypesInv, StateTypes, PollBegins, Polls, nativeVars, dialogVars
<1>2. \A b \in Attempts \ {a} : poll'[b] = poll[b]
  BY DEF TypesInv, StateTypes, PollBegins, Polls, nativeVars, dialogVars
<1>3. UNCHANGED <<use, grant, session, expired, native, keyring, start, cancels, logout, load,
                  rename, sent, left, dialog, app, belongs>>
  BY DEF TypesInv, StateTypes, PollBegins, Polls, nativeVars, dialogVars
<1> QED BY <1>1, <1>2, <1>3

(* A dialog is opened,                                                     *)
LEMMA OpenEffect ==
  ASSUME TypesInv, Open
  PROVE  /\ KeepsWaiting
         /\ UNCHANGED <<use, grant, session, expired, native, keyring, start, poll, cancels, logout,
                        load, rename, sent, left, app, belongs>>
<1>1. KeepsWaiting
  <2>1. dialog.mount + 1 \in Nat
    BY DEF TypesInv, StateTypes, Dialogs
  <2>2. /\ Closed(dialog.mount + 1) \in Dialogs
        /\ Closed(dialog.mount + 1).ref = None /\ Closed(dialog.mount + 1).started = FALSE
    BY <2>1, ClosedTyped
  <2>3. dialog'.ref = None /\ dialog'.started = FALSE
    BY <2>2 DEF Open, Dialogs
  <2>4. ~dialog.open
    BY DEF Open
  <2> QED BY <2>3, <2>4 DEF TypesInv, Open, nativeVars, KeepsWaiting
<1>2. UNCHANGED <<use, grant, session, expired, native, keyring, start, poll, cancels, logout, load,
                  rename, sent, left, app, belongs>>
  BY ClosedTyped DEF TypesInv, StateTypes, Open, KeepsWaiting, StopsWaiting, CancelsWaiting,
        Dialogs, nativeVars, dialogVars
<1> QED BY <1>1, <1>2

(* ... or opened to sign in for the plan,                                  *)
LEMMA OpenForBillingEffect ==
  ASSUME TypesInv, OpenForBilling
  PROVE  /\ SignedOut /\ KeepsWaiting /\ app'.shown = None /\ app'.loaded = app.loaded
         /\ UNCHANGED <<use, grant, session, expired, native, keyring, start, poll, cancels, logout,
                        load, rename, sent, left, belongs>>
<1>1. SignedOut /\ KeepsWaiting /\ app'.shown = None /\ app'.loaded = app.loaded
  <2>1. dialog.mount + 1 \in Nat
    BY DEF TypesInv, StateTypes, Dialogs
  <2>2. /\ Closed(dialog.mount + 1) \in Dialogs
        /\ Closed(dialog.mount + 1).ref = None /\ Closed(dialog.mount + 1).started = FALSE
    BY <2>1, ClosedTyped
  <2>3. dialog'.ref = None /\ dialog'.started = FALSE
    BY <2>2 DEF OpenForBilling, Dialogs
  <2>4. ~dialog.open
    BY DEF OpenForBilling
  <2>5. app'.shown = None /\ app'.loaded = app.loaded
    BY DEF TypesInv, StateTypes, OpenForBilling, Apps
  <2> QED BY <2>3, <2>4, <2>5 DEF TypesInv, OpenForBilling, nativeVars, KeepsWaiting
<1>2. UNCHANGED <<use, grant, session, expired, native, keyring, start, poll, cancels, logout, load,
                  rename, sent, left, belongs>>
  BY ClosedTyped DEF TypesInv, StateTypes, OpenForBilling, Apps, KeepsWaiting, StopsWaiting,
        CancelsWaiting, Dialogs, nativeVars, dialogVars
<1> QED BY <1>1, <1>2

(* ... or the settings are,                                                *)
LEMMA SettingsEffect ==
  ASSUME TypesInv, ShowSettings \/ CloseSettings
  PROVE  app'.shown = app.shown /\ app'.loaded = app.loaded /\ UNCHANGED <<nativeVars, dialog, belongs>>
BY DEF TypesInv, StateTypes, Apps, ShowSettings, CloseSettings

(* ... and closed.                                                         *)
LEMMA CloseEffect ==
  ASSUME TypesInv, Close
  PROVE  /\ CancelsWaiting
         /\ UNCHANGED <<use, grant, session, expired, native, keyring, start, poll, logout, load,
                        rename, sent, left, app, belongs>>
<1>1. CancelsWaiting
  BY DEF TypesInv, StateTypes, Close, Issue, Closed, KeepsWaiting, StopsWaiting, CancelsWaiting,
        Dialogs, nativeVars, dialogVars
<1>2. UNCHANGED <<use, grant, session, expired, native, keyring, start, poll, logout, load, rename,
                  sent, left, app, belongs>>
  BY DEF TypesInv, StateTypes, Close, Issue, Closed, KeepsWaiting, StopsWaiting, CancelsWaiting,
        Dialogs, nativeVars, dialogVars
<1> QED BY <1>1, <1>2

(* The plan is shown.                                                      *)
LEMMA ShowPlanEffect ==
  ASSUME TypesInv, ShowPlan
  PROVE  /\ KeepsWaiting
         /\ UNCHANGED <<use, grant, session, expired, native, keyring, start, poll, cancels, logout,
                        load, rename, sent, left, app, belongs>>
<1>1. KeepsWaiting
  BY DEF TypesInv, StateTypes, ShowPlan, KeepsWaiting, StopsWaiting, CancelsWaiting, Dialogs,
        nativeVars, dialogVars
<1>2. UNCHANGED <<use, grant, session, expired, native, keyring, start, poll, cancels, logout, load,
                  rename, sent, left, app, belongs>>
  BY DEF TypesInv, StateTypes, ShowPlan, KeepsWaiting, StopsWaiting, CancelsWaiting, Dialogs,
        nativeVars, dialogVars
<1> QED BY <1>1, <1>2

(* The attempt is cancelled by the user.                                   *)
LEMMA ClickCancelEffect ==
  ASSUME TypesInv, ClickCancel
  PROVE  /\ dialog.ref # None /\ dialog'.ref = None /\ dialog'.started = FALSE
         /\ cancels' = cancels \cup {[id |-> dialog.ref, by |-> dialog.mount, at |-> "call"]}
         /\ UNCHANGED <<use, grant, session, expired, native, keyring, start, poll, logout, load,
                        rename, sent, left, app, belongs>>
<1>1. dialog.ref # None /\ dialog'.ref = None /\ dialog'.started = FALSE
  BY DEF TypesInv, StateTypes, ClickCancel, Abandoned, KeepsWaiting, StopsWaiting, CancelsWaiting,
        Dialogs, nativeVars, dialogVars
<1>2. cancels' = cancels \cup {[id |-> dialog.ref, by |-> dialog.mount, at |-> "call"]}
  BY DEF TypesInv, StateTypes, ClickCancel, Abandoned, KeepsWaiting, StopsWaiting, CancelsWaiting,
        Dialogs, nativeVars, dialogVars
<1>3. UNCHANGED <<use, grant, session, expired, native, keyring, start, poll, logout, load, rename,
                  sent, left, app, belongs>>
  BY DEF TypesInv, StateTypes, ClickCancel, Abandoned, KeepsWaiting, StopsWaiting, CancelsWaiting,
        Dialogs, nativeVars, dialogVars
<1> QED BY <1>1, <1>2, <1>3

(* A paused dialog polls again.                                            *)
LEMMA RetryEffect ==
  ASSUME TypesInv, Retry
  PROVE  /\ KeepsWaiting
         /\ UNCHANGED <<use, grant, session, expired, native, keyring, start, poll, cancels, logout,
                        load, rename, sent, left, app, belongs>>
<1>1. KeepsWaiting
  BY DEF TypesInv, StateTypes, Retry, KeepsWaiting, StopsWaiting, CancelsWaiting, Dialogs,
        nativeVars, dialogVars
<1>2. UNCHANGED <<use, grant, session, expired, native, keyring, start, poll, cancels, logout, load,
                  rename, sent, left, app, belongs>>
  BY DEF TypesInv, StateTypes, Retry, KeepsWaiting, StopsWaiting, CancelsWaiting, Dialogs,
        nativeVars, dialogVars
<1> QED BY <1>1, <1>2

(* The plan requires a sign-in.                                            *)
LEMMA RequireLoginEffect ==
  ASSUME TypesInv, RequireLogin
  PROVE  /\ SignedOut /\ KeepsWaiting /\ app'.shown = None /\ app'.loaded = app.loaded
         /\ UNCHANGED <<use, grant, session, expired, native, keyring, start, poll, logout, load,
                        rename, sent, left, belongs>>
<1>1. SignedOut /\ KeepsWaiting /\ app'.shown = None /\ app'.loaded = app.loaded
  <2> DEFINE d == [dialog EXCEPT !.to = "plan", !.view = "login"]
  <2>1. /\ d \in Dialogs /\ d.ref = dialog.ref /\ d.started = dialog.started /\ d.open = dialog.open
    BY DEF TypesInv, StateTypes, Dialogs
  <2>2. Publish(None, d) /\ SignedOut
    BY DEF RequireLogin
  <2>3. cancels' = cancels
    BY <2>2 DEF Publish, Issue, Unasked
  <2>4. dialog.open /\ dialog' = Following(d, None)
    BY <2>1, <2>2 DEF RequireLogin, Place, Publish
  <2>5. app'.shown = None /\ app'.loaded = app.loaded
    BY <2>2 DEF TypesInv, StateTypes, Publish, Apps
  <2> HIDE DEF d
  <2> QED BY <2>1, <2>2, <2>3, <2>4, <2>5, FollowingTyped DEF KeepsWaiting
<1>2. UNCHANGED <<use, grant, session, expired, native, keyring, start, poll, logout, load, rename,
                  sent, left, belongs>>
  BY PublishFacts DEF TypesInv, StateTypes, RequireLogin, KeepsWaiting, StopsWaiting,
        CancelsWaiting, Dialogs, nativeVars, dialogVars
<1> QED BY <1>1, <1>2

(* The name is being changed,                                              *)
LEMMA RenameEffect ==
  ASSUME TypesInv, Rename
  PROVE  /\ KeepsWaiting /\ rename'.at = "call" /\ rename'.token = rename.token
         /\ UNCHANGED <<use, grant, session, expired, native, keyring, start, poll, cancels, logout,
                        load, sent, left, app, belongs>>
<1>1. KeepsWaiting /\ rename'.at = "call" /\ rename'.token = rename.token
  BY DEF TypesInv, StateTypes, Rename, Renames, KeepsWaiting, StopsWaiting, CancelsWaiting,
        Dialogs, nativeVars, dialogVars
<1>2. UNCHANGED <<use, grant, session, expired, native, keyring, start, poll, cancels, logout, load,
                  sent, left, app, belongs>>
  BY DEF TypesInv, StateTypes, Rename, Renames, KeepsWaiting, StopsWaiting, CancelsWaiting,
        Dialogs, nativeVars, dialogVars
<1> QED BY <1>1, <1>2

(* ... and has been.                                                       *)
LEMMA RenameReturnsEffect ==
  ASSUME TypesInv, RenameReturns
  PROVE  /\ KeepsWaiting \/ CancelsWaiting
         /\ app'.shown # None \/ app' = app
         /\ app'.loaded = app.loaded
         /\ UNCHANGED <<use, grant, session, expired, native, keyring, start, poll, logout, load,
                        sent, left, belongs>>
<1>1. KeepsWaiting \/ CancelsWaiting
  <2> DEFINE d == Idle(rename.by)
  <2>1. /\ d \in Dialogs /\ d.ref = dialog.ref /\ d.started = dialog.started
        /\ d.open \/ (d.ref = None /\ d.started = FALSE)
    BY IdleTyped DEF TypesInv, StateTypes
  <2>2. rename.token \in Tokens
    BY DEF TypesInv, StateTypes, Renames
  <2>3. \/ Publish(rename.token, d)
        \/ dialog' = d /\ UNCHANGED <<app, cancels>>
    BY DEF RenameReturns
  <2> HIDE DEF d
  <2> QED BY <2>1, <2>2, <2>3, PublishFacts DEF TypesInv, StateTypes, KeepsWaiting, CancelsWaiting
<1>2. app'.shown # None \/ app' = app
  <2>1. app \in Apps
    BY DEF TypesInv, StateTypes
  <2>2. ASSUME NEW d, Publish(rename.token, d)
        PROVE  app'.shown = rename.token
    BY <2>1, <2>2 DEF Publish, Apps
  <2> QED BY <2>2 DEF RenameReturns, TypesInv
<1>3. app'.loaded = app.loaded
  <2>1. app \in Apps
    BY DEF TypesInv, StateTypes
  <2>2. ASSUME NEW d, Publish(rename.token, d)
        PROVE  app'.loaded = app.loaded
    BY <2>1, <2>2 DEF Publish, Apps
  <2> QED BY <2>2 DEF RenameReturns
<1>4. UNCHANGED <<use, grant, session, expired, native, keyring, start, poll, logout, load, sent,
                  left, belongs>>
  BY IdleTyped, PublishFacts DEF TypesInv, StateTypes, RenameReturns, KeepsWaiting, StopsWaiting,
        CancelsWaiting, Dialogs, nativeVars, dialogVars
<1> QED BY <1>1, <1>2, <1>3, <1>4

(* The stored session has been loaded.                                     *)
LEMMA LoadReturnsEffect ==
  ASSUME TypesInv, LoadReturns
  PROVE  /\ load.at \in {"nobody", "profile", "error"} /\ load'.at = "done"
         /\ KeepsWaiting
         /\ app'.shown # None \/ app.shown = None
         /\ UNCHANGED <<use, grant, session, expired, native, keyring, start, poll, cancels, logout,
                        rename, sent, left, belongs>>
<1>1. load.at \in {"nobody", "profile", "error"} /\ load'.at = "done"
  BY DEF TypesInv, StateTypes, LoadReturns, Apps, KeepsWaiting, StopsWaiting, CancelsWaiting,
        Dialogs, nativeVars, dialogVars
<1>2. KeepsWaiting
  BY DEF TypesInv, StateTypes, LoadReturns, Apps, KeepsWaiting, StopsWaiting, CancelsWaiting,
        Dialogs, nativeVars, dialogVars
<1>3. app'.shown # None \/ app.shown = None
  BY DEF TypesInv, StateTypes, LoadReturns, Apps, KeepsWaiting, StopsWaiting, CancelsWaiting,
        Dialogs, nativeVars, dialogVars
<1>4. UNCHANGED <<use, grant, session, expired, native, keyring, start, poll, cancels, logout,
                  rename, sent, left, belongs>>
  BY DEF TypesInv, StateTypes, LoadReturns, Apps, KeepsWaiting, StopsWaiting, CancelsWaiting,
        Dialogs, nativeVars, dialogVars
<1> QED BY <1>1, <1>2, <1>3, <1>4

(* The dialog's countdown ends its attempt.                                *)
LEMMA CountDownEffect ==
  ASSUME TypesInv, NEW a \in Attempts, CountDown(a)
  PROVE  /\ dialog.ref = a /\ CancelsWaiting
         /\ UNCHANGED <<use, grant, session, expired, native, keyring, start, poll, logout, load,
                        rename, sent, left, app, belongs>>
<1>1. dialog.ref = a /\ CancelsWaiting
  BY AbandonedTyped DEF TypesInv, StateTypes, CountDown, Issue, KeepsWaiting, StopsWaiting,
        CancelsWaiting, Dialogs, nativeVars, dialogVars
<1>2. UNCHANGED <<use, grant, session, expired, native, keyring, start, poll, logout, load, rename,
                  sent, left, app, belongs>>
  BY AbandonedTyped DEF TypesInv, StateTypes, CountDown, Issue, KeepsWaiting, StopsWaiting,
        CancelsWaiting, Dialogs, nativeVars, dialogVars
<1> QED BY <1>1, <1>2

(* A cancel returns.                                                       *)
LEMMA CancelReturnsEffect ==
  ASSUME TypesInv, NEW c \in cancels, CancelReturns(c)
  PROVE  /\ dialog'.ref = dialog.ref /\ dialog'.started = dialog.started
         /\ cancels' = cancels \ {c} /\ c.at = "return"
         /\ UNCHANGED <<use, grant, session, expired, native, keyring, start, poll, logout, load,
                        rename, sent, left, app, belongs>>
<1>1. dialog'.ref = dialog.ref /\ dialog'.started = dialog.started
  BY IdleTyped DEF TypesInv, StateTypes, CancelReturns, nativeVars, dialogVars
<1>2. cancels' = cancels \ {c} /\ c.at = "return"
  BY IdleTyped DEF TypesInv, StateTypes, CancelReturns, nativeVars, dialogVars
<1>3. UNCHANGED <<use, grant, session, expired, native, keyring, start, poll, logout, load, rename,
                  sent, left, app, belongs>>
  BY IdleTyped DEF TypesInv, StateTypes, CancelReturns, nativeVars, dialogVars
<1> QED BY <1>1, <1>2, <1>3

(* The dialog signs out,                                                   *)
LEMMA SignOutEffect ==
  ASSUME TypesInv, NEW n \in Signouts, SignOut(n)
  PROVE  /\ KeepsWaiting
         /\ logout[n].at = "idle" /\ logout'[n].at = "call"
         /\ \A k \in Signouts \ {n} : logout'[k] = logout[k]
         /\ UNCHANGED <<use, grant, session, expired, native, keyring, start, poll, cancels, load,
                        rename, sent, left, app, belongs>>
<1>1. KeepsWaiting
  BY DEF TypesInv, StateTypes, SignOut, Logouts, KeepsWaiting, StopsWaiting, CancelsWaiting,
        Dialogs, nativeVars, dialogVars
<1>2. logout[n].at = "idle" /\ logout'[n].at = "call"
  BY DEF TypesInv, StateTypes, SignOut, Logouts, KeepsWaiting, StopsWaiting, CancelsWaiting,
        Dialogs, nativeVars, dialogVars
<1>3. \A k \in Signouts \ {n} : logout'[k] = logout[k]
  BY DEF TypesInv, StateTypes, SignOut, Logouts, KeepsWaiting, StopsWaiting, CancelsWaiting,
        Dialogs, nativeVars, dialogVars
<1>4. UNCHANGED <<use, grant, session, expired, native, keyring, start, poll, cancels, load, rename,
                  sent, left, app, belongs>>
  BY DEF TypesInv, StateTypes, SignOut, Logouts, KeepsWaiting, StopsWaiting, CancelsWaiting,
        Dialogs, nativeVars, dialogVars
<1> QED BY <1>1, <1>2, <1>3, <1>4

(* ... and has done so.                                                    *)
LEMMA LogoutReturnsEffect ==
  ASSUME TypesInv, NEW n \in Signouts, LogoutReturns(n)
  PROVE  /\ logout'[n].at = "done"
         /\ \A k \in Signouts \ {n} : logout'[k] = logout[k]
         /\ app'.loaded = app.loaded
         /\ \/ logout[n].at = "ok" /\ app'.shown = None /\ (KeepsWaiting \/ CancelsWaiting)
            \/ logout[n].at = "error" /\ app' = app /\ KeepsWaiting
         /\ UNCHANGED <<use, grant, session, expired, native, keyring, start, poll, load, rename,
                        sent, left, belongs>>
<1>1. logout'[n].at = "done"
  BY DEF TypesInv, StateTypes, LogoutReturns, Logouts
<1>2. \A k \in Signouts \ {n} : logout'[k] = logout[k]
  BY DEF TypesInv, StateTypes, LogoutReturns, Logouts
<1>3. app'.loaded = app.loaded
  <2>1. app \in Apps
    BY DEF TypesInv, StateTypes
  <2>2. ASSUME NEW d, Publish(None, d)
        PROVE  app'.loaded = app.loaded
    BY <2>1, <2>2 DEF Publish, Apps
  <2> QED BY <2>2 DEF LogoutReturns
<1>4. \/ logout[n].at = "ok" /\ app'.shown = None /\ (KeepsWaiting \/ CancelsWaiting)
      \/ logout[n].at = "error" /\ app' = app /\ KeepsWaiting
  <2> DEFINE after == [dialog EXCEPT !.busy = FALSE, !.view = "login"]
  <2> DEFINE d == IF Mine(logout[n].by) THEN after ELSE dialog
  <2>1. /\ after \in Dialogs /\ after.mount = dialog.mount /\ after.open = dialog.open
        /\ after.ref = dialog.ref /\ after.started = dialog.started
    BY DEF TypesInv, StateTypes, Dialogs
  <2>2. /\ d \in Dialogs /\ d.ref = dialog.ref /\ d.started = dialog.started
        /\ d.open \/ (d.ref = None /\ d.started = FALSE)
    BY <2>1 DEF TypesInv, StateTypes
  <2>3. \/ logout[n].at = "ok" /\ Publish(None, d)
        \/ logout[n].at = "error" /\ dialog' = Idle(logout[n].by) /\ UNCHANGED <<app, cancels>>
    BY DEF LogoutReturns
  <2>4. None \in Tokens
    BY DEF Tokens
  <2> HIDE DEF d
  <2>5. CASE logout[n].at = "ok" /\ Publish(None, d)
    BY <2>2, <2>3, <2>4, <2>5, PublishFacts DEF TypesInv, StateTypes, KeepsWaiting, CancelsWaiting
  <2>6. CASE dialog' = Idle(logout[n].by) /\ UNCHANGED <<app, cancels>> /\ logout[n].at = "error"
    BY <2>6, IdleTyped DEF TypesInv, StateTypes, KeepsWaiting
  <2> QED BY <2>3, <2>5, <2>6
<1>5. UNCHANGED <<use, grant, session, expired, native, keyring, start, poll, load, rename, sent,
                  left, belongs>>
  BY DEF TypesInv, StateTypes, LogoutReturns, KeepsWaiting, StopsWaiting, CancelsWaiting, Dialogs,
        nativeVars, dialogVars
<1> QED BY <1>1, <1>2, <1>3, <1>4, <1>5

(* A poll returns to the dialog.                                           *)
LEMMA PollReturnsEffect ==
  ASSUME TypesInv, NEW a \in Attempts, PollReturns(a)
  PROVE  /\ poll'[a] = "idle"
         /\ \A b \in Attempts \ {a} : poll'[b] = poll[b]
         /\ \/ /\ poll[a] = "signedIn" /\ app'.shown = a /\ app'.loaded = app.loaded
               /\ KeepsWaiting \/ StopsWaiting \/ CancelsWaiting
            \/ /\ poll[a] \in {"pending", "expired", "error"} /\ app' = app
               /\ KeepsWaiting \/ (poll[a] = "expired" /\ dialog.ref = a /\ StopsWaiting)
         /\ UNCHANGED <<use, grant, session, expired, native, keyring, start, logout, load, rename,
                        sent, left, belongs>>
<1>1. poll'[a] = "idle"
  BY DEF TypesInv, StateTypes, PollReturns, Polls
<1>2. \A b \in Attempts \ {a} : poll'[b] = poll[b]
  BY DEF TypesInv, StateTypes, PollReturns, Polls
<1>3. \/ /\ poll[a] = "signedIn" /\ app'.shown = a /\ app'.loaded = app.loaded
         /\ KeepsWaiting \/ StopsWaiting \/ CancelsWaiting
      \/ /\ poll[a] \in {"pending", "expired", "error"} /\ app' = app
         /\ KeepsWaiting \/ (poll[a] = "expired" /\ dialog.ref = a /\ StopsWaiting)
  <2>1. ASSUME PollSignedIn(a)
        PROVE  /\ poll[a] = "signedIn" /\ app'.shown = a /\ app'.loaded = app.loaded
               /\ KeepsWaiting \/ StopsWaiting \/ CancelsWaiting
    <3> DEFINE after == [dialog EXCEPT !.ref = None, !.started = FALSE, !.paused = FALSE,
                                       !.view = dialog.to, !.back = "login"]
    <3> DEFINE d == IF ~Mine(belongs[a]) THEN dialog ELSE after
    <3>1. after \in Dialogs /\ after.ref = None /\ after.started = FALSE
      BY DEF TypesInv, StateTypes, Dialogs
    <3>2. /\ d \in Dialogs
          /\ d.open \/ (d.ref = None /\ d.started = FALSE)
          /\ \/ d.ref = dialog.ref /\ d.started = dialog.started
             \/ d.ref = None /\ d.started = FALSE
      BY <3>1 DEF TypesInv, StateTypes
    <3>3. Publish(a, d) /\ poll[a] = "signedIn"
      BY <2>1 DEF PollSignedIn, Told
    <3>4. a \in Tokens /\ Unasked({None}) = {}
      BY DEF Tokens, Sessions, Unasked
    <3> HIDE DEF d
    <3> QED BY <3>2, <3>3, <3>4, PublishFacts
            DEF TypesInv, StateTypes, KeepsWaiting, StopsWaiting, CancelsWaiting
  <2>2. ASSUME PollAnswered(a)
        PROVE  /\ poll[a] \in {"pending", "expired", "error"} /\ app' = app
               /\ KeepsWaiting \/ (poll[a] = "expired" /\ dialog.ref = a /\ StopsWaiting)
    <3>1. \/ dialog' = dialog
          \/ poll[a] = "expired" /\ dialog.ref = a /\ dialog' = Abandoned
          \/ dialog' = [dialog EXCEPT !.paused = TRUE]
      BY <2>2 DEF PollAnswered
    <3>2. /\ [dialog EXCEPT !.paused = TRUE].ref = dialog.ref
          /\ [dialog EXCEPT !.paused = TRUE].started = dialog.started
      BY DEF TypesInv, StateTypes, Dialogs
    <3> QED BY <2>2, <3>1, <3>2, AbandonedTyped
            DEF PollAnswered, TypesInv, StateTypes, KeepsWaiting, StopsWaiting
  <2> QED BY <2>1, <2>2 DEF PollReturns
<1>4. UNCHANGED <<use, grant, session, expired, native, keyring, start, logout, load, rename, sent,
                  left, belongs>>
  BY DEF TypesInv, StateTypes, PollReturns, KeepsWaiting, StopsWaiting, CancelsWaiting, Dialogs,
        nativeVars, dialogVars
<1> QED BY <1>1, <1>2, <1>3, <1>4

(***************************************************************************)
(* The steps keep the invariants.                                          *)
(***************************************************************************)
(* The cancels that are issued when nothing is waited for.                 *)
LEMMA UnaskedSets ==
  /\ \A r, x : r \in Unasked({x}) => r.id = x /\ r.id # None /\ r.at = "call"
  /\ \A a \in Attempts : \E r \in Unasked({a}) : r.id = a /\ r.at = "call"
<1>1. \A r, x : r \in Unasked({x}) => r.id = x /\ r.id # None /\ r.at = "call"
  BY DEF Unasked
<1>2. ASSUME NEW a \in Attempts
      PROVE  \E r \in Unasked({a}) : r.id = a /\ r.at = "call"
  <2>1. [id |-> a, by |-> 0, at |-> "call"] \in Unasked({a})
    BY SignInAssumption DEF Unasked
  <2> QED BY <2>1
<1> QED BY <1>1, <1>2

(* What the types say of the numbers and of None.                          *)
LEMMA Numbers ==
  ASSUME TypesInv
  PROVE  /\ native.generation \in Nat
         /\ \A a \in Attempts : start[a].generation \in Nat
         /\ None \notin Attempts
         /\ None \notin Sessions
         /\ Past \notin Attempts
         /\ Attempts \subseteq Sessions
         /\ dialog.ref \in Attempts \cup {None} /\ \A c \in cancels : c.id \in Attempts
<1>1. native.generation \in Nat
  BY DEF TypesInv, StateTypes, Natives
<1>2. \A a \in Attempts : start[a].generation \in Nat
  BY DEF TypesInv, StateTypes, Starts
<1>3. None \notin Attempts /\ Past \notin Attempts /\ None # Past
  <2>1. Attempts \subseteq Nat \ {0} /\ None \notin Nat
    BY SignInAssumption
  <2>2. Past = 0
    BY DEF Past
  <2>3. None \notin Attempts
    BY <2>1
  <2>4. Past \notin Attempts /\ None # Past
    BY <2>1, <2>2
  <2> QED BY <2>3, <2>4
<1>4. None \notin Sessions /\ Attempts \subseteq Sessions
  BY <1>3 DEF Sessions
<1>5. dialog.ref \in Attempts \cup {None} /\ \A c \in cancels : c.id \in Attempts
  BY DEF TypesInv, StateTypes, Dialogs, Calls
<1> QED BY <1>1, <1>2, <1>3, <1>4, <1>5

(* Each attempt keeps its course: the actions of an attempt move it on,    *)
(* those of another one and of the dialog leave it alone.                  *)
LEMMA SoundStep ==
  ASSUME TypesInv, CourseInv, [SignInNext]_signVars, NEW b \in Attempts
  PROVE  Sound(b)'
<1>1. ASSUME NEW a \in Attempts, Start(a)
      PROVE  Sound(b)'
  <2>1. Sound(a) /\ Sound(b)
    BY DEF CourseInv
  <2>2. WaitsSoundly
    BY DEF CourseInv
  <2>3. CASE b = a
    BY <1>1, <2>1, <2>2, <2>3, StartEffect, Numbers DEF Sound, WaitsSoundly, Expired
  <2>4. CASE b # a
    <3>1. \A c \in Attempts \ {a} : start'[c] = start[c] /\ belongs'[c] = belongs[c]
      BY <1>1, StartEffect
    <3>2. UNCHANGED <<native, poll, grant, session, expired, keyring, sent>>
      BY <1>1, StartEffect
    <3>3. b \in Attempts \ {a}
      BY <2>4
    <3> QED BY <2>1, <3>1, <3>2, <3>3 DEF Sound, Expired
  <2> QED BY <2>3, <2>4
<1>2. ASSUME NEW a \in Attempts, StartReturns(a)
      PROVE  Sound(b)'
  <2>1. Sound(a) /\ Sound(b)
    BY DEF CourseInv
  <2>2. WaitsSoundly
    BY DEF CourseInv
  <2>3. CASE b = a
    BY <1>2, <2>1, <2>2, <2>3, StartReturnsEffect, Numbers DEF Sound, WaitsSoundly, Expired
  <2>4. CASE b # a
    BY <1>2, <2>1, <2>4, StartReturnsEffect, Numbers DEF Sound, Expired
  <2> QED BY <2>3, <2>4
<1>3. ASSUME NEW a \in Attempts, PollBegins(a)
      PROVE  Sound(b)'
  <2>1. Sound(a) /\ Sound(b)
    BY DEF CourseInv
  <2>2. WaitsSoundly
    BY DEF CourseInv
  <2>3. CASE b = a
    BY <1>3, <2>1, <2>2, <2>3, PollBeginsEffect, Numbers DEF Sound, WaitsSoundly, Expired
  <2>4. CASE b # a
    BY <1>3, <2>1, <2>4, PollBeginsEffect, Numbers DEF Sound, Expired
  <2> QED BY <2>3, <2>4
<1>4. ASSUME NEW a \in Attempts, PollReturns(a)
      PROVE  Sound(b)'
  <2>1. Sound(a) /\ Sound(b)
    BY DEF CourseInv
  <2>2. WaitsSoundly
    BY DEF CourseInv
  <2>3. CASE b = a
    BY <1>4, <2>1, <2>2, <2>3, PollReturnsEffect, Numbers DEF Sound, WaitsSoundly, Expired
  <2>4. CASE b # a
    BY <1>4, <2>1, <2>4, PollReturnsEffect, Numbers DEF Sound, Expired
  <2> QED BY <2>3, <2>4
<1>5. ASSUME NEW a \in Attempts, StartLock(a), UNCHANGED dialogVars
      PROVE  Sound(b)'
  <2>1. Sound(a) /\ Sound(b)
    BY DEF CourseInv
  <2>2. WaitsSoundly
    BY DEF CourseInv
  <2>5. <<"cancel", b>> \in sent' => <<"cancel", b>> \in sent \/ native.pending = b
    BY <1>5, StartLockEffect
  <2>6. native.generation \in Nat /\ start[b].generation \in Nat /\ b # None
    BY Numbers
  <2>7. /\ start[a].at = "call"
        /\ native'.pending = None
        /\ native'.generation = native.generation + 1
        /\ start'[a].at = "post" /\ start'[a].generation = native.generation + 1
        /\ b # a => start'[b] = start[b]
        /\ UNCHANGED <<belongs, grant, session, expired, keyring, poll>>
    BY <1>5, StartLockEffect
  <2>3. CASE b = a
    BY <2>1, <2>2, <2>3, <2>7, <2>5, <2>6 DEF Sound, WaitsSoundly, Expired
  <2>4. CASE b # a
    BY <2>1, <2>4, <2>7, <2>5, <2>6 DEF Sound, Expired
  <2> QED BY <2>3, <2>4
<1>6. ASSUME NEW a \in Attempts, StartPost(a), UNCHANGED dialogVars
      PROVE  Sound(b)'
  <2>1. Sound(a) /\ Sound(b)
    BY DEF CourseInv
  <2>2. WaitsSoundly
    BY DEF CourseInv
  <2>3. CASE b = a
    BY <1>6, <2>1, <2>2, <2>3, StartPostEffect, Numbers DEF Sound, WaitsSoundly, Expired
  <2>4. CASE b # a
    BY <1>6, <2>1, <2>4, StartPostEffect, Numbers DEF Sound, Expired
  <2> QED BY <2>3, <2>4
<1>7. ASSUME NEW a \in Attempts, StartFails(a), UNCHANGED dialogVars
      PROVE  Sound(b)'
  <2>1. Sound(a) /\ Sound(b)
    BY DEF CourseInv
  <2>2. WaitsSoundly
    BY DEF CourseInv
  <2>3. CASE b = a
    BY <1>7, <2>1, <2>2, <2>3, StartFailsEffect, Numbers DEF Sound, WaitsSoundly, Expired
  <2>4. CASE b # a
    BY <1>7, <2>1, <2>4, StartFailsEffect, Numbers DEF Sound, Expired
  <2> QED BY <2>3, <2>4
<1>8. ASSUME NEW a \in Attempts, StartInstall(a), UNCHANGED dialogVars
      PROVE  Sound(b)'
  <2>1. Sound(a) /\ Sound(b)
    BY DEF CourseInv
  <2>2. WaitsSoundly
    BY DEF CourseInv
  <2>3. CASE b = a
    BY <1>8, <2>1, <2>2, <2>3, StartInstallEffect, Numbers DEF Sound, WaitsSoundly, Expired
  <2>4. CASE b # a
    BY <1>8, <2>1, <2>4, StartInstallEffect, Numbers DEF Sound, Expired
  <2> QED BY <2>3, <2>4
<1>9. ASSUME NEW a \in Attempts, PollLock(a), UNCHANGED dialogVars
      PROVE  Sound(b)'
  <2>1. Sound(a) /\ Sound(b)
    BY DEF CourseInv
  <2>2. WaitsSoundly
    BY DEF CourseInv
  <2>3. CASE b = a
    BY <1>9, <2>1, <2>2, <2>3, PollLockEffect, Numbers DEF Sound, WaitsSoundly, Expired
  <2>4. CASE b # a
    BY <1>9, <2>1, <2>4, PollLockEffect, Numbers DEF Sound, Expired
  <2> QED BY <2>3, <2>4
<1>10. ASSUME NEW a \in Attempts, PollPost(a), UNCHANGED dialogVars
       PROVE  Sound(b)'
  <2>1. Sound(a) /\ Sound(b)
    BY DEF CourseInv
  <2>2. WaitsSoundly
    BY DEF CourseInv
  <2>5. /\ poll[a] = "post" /\ poll'[a] \in {"failed", "complete", "waiting", "gone"}
        /\ \/ /\ grant[a] = "approved"
              /\ grant'[a] = "redeemed"
              /\ session'[a] = "live"
              /\ poll'[a] # "gone"
           \/ /\ grant'[a] = grant[a] /\ session'[a] = session[a] /\ poll'[a] # "complete"
              /\ poll'[a] = "gone" => Expired(a) \/ grant[a] \notin {"pending", "approved"}
    BY <1>10, PollPostEffect
  <2>6. /\ UNCHANGED <<belongs, start, native, keyring, sent, expired>>
        /\ grant[a] \in GrantStates
    BY <1>10, PollPostEffect DEF TypesInv, StateTypes, Grants
  <2>3. CASE b = a
    BY <1>10, <2>1, <2>2, <2>3, <2>5, <2>6 DEF Sound, WaitsSoundly, Expired, GrantStates
  <2>4. CASE b # a
    BY <1>10, <2>1, <2>4, PollPostEffect, Numbers DEF Sound, Expired
  <2> QED BY <2>3, <2>4
<1>11. ASSUME NEW a \in Attempts, PollAgain(a), UNCHANGED dialogVars
       PROVE  Sound(b)'
  <2>1. Sound(a) /\ Sound(b)
    BY DEF CourseInv
  <2>2. WaitsSoundly
    BY DEF CourseInv
  <2>3. CASE b = a
    BY <1>11, <2>1, <2>2, <2>3, PollAgainEffect, Numbers DEF Sound, WaitsSoundly, Expired
  <2>4. CASE b # a
    BY <1>11, <2>1, <2>4, PollAgainEffect, Numbers DEF Sound, Expired
  <2> QED BY <2>3, <2>4
<1>12. ASSUME NEW a \in Attempts, PollGone(a), UNCHANGED dialogVars
       PROVE  Sound(b)'
  <2>1. Sound(a) /\ Sound(b)
    BY DEF CourseInv
  <2>2. WaitsSoundly
    BY DEF CourseInv
  <2>3. CASE b = a
    BY <1>12, <2>1, <2>2, <2>3, PollGoneEffect, Numbers DEF Sound, WaitsSoundly, Expired
  <2>4. CASE b # a
    BY <1>12, <2>1, <2>4, PollGoneEffect, Numbers DEF Sound, Expired
  <2> QED BY <2>3, <2>4
<1>13. ASSUME NEW a \in Attempts, PollCommit(a), UNCHANGED dialogVars
       PROVE  Sound(b)'
  <2>1. Sound(a) /\ Sound(b)
    BY DEF CourseInv
  <2>2. WaitsSoundly
    BY DEF CourseInv
  <2>3. CASE b = a
    BY <1>13, <2>1, <2>2, <2>3, PollCommitEffect, Numbers DEF Sound, WaitsSoundly, Expired
  <2>4. CASE b # a
    BY <1>13, <2>1, <2>4, PollCommitEffect, Numbers DEF Sound, Expired
  <2> QED BY <2>3, <2>4
<1>14. ASSUME NEW c \in cancels, CancelLock(c), UNCHANGED dialogVars
       PROVE  Sound(b)'
  <2>1. Sound(b)
    BY DEF CourseInv
  <2>5. <<"cancel", b>> \in sent' => <<"cancel", b>> \in sent \/ native.pending = b
    BY <1>14, CancelLockEffect
  <2>6. native.generation \in Nat /\ start[b].generation \in Nat /\ b # None
    BY Numbers
  <2>7. /\ \/ native' = native
           \/ native'.pending = None /\ native'.generation = native.generation + 1
        /\ UNCHANGED <<start, belongs, grant, session, expired, keyring, poll>>
    BY <1>14, CancelLockEffect
  <2> QED
    BY <2>1, <2>7, <2>5, <2>6 DEF Sound, Expired
<1>15. ASSUME NEW n \in Signouts, LogoutClear(n), UNCHANGED dialogVars
       PROVE  Sound(b)'
  <2>1. Sound(b)
    BY DEF CourseInv
  <2> QED
    BY <1>15, <2>1, LogoutClearEffect, Numbers DEF Sound, Expired
<1>16. ASSUME LoadClear, UNCHANGED dialogVars
       PROVE  Sound(b)'
  <2>1. Sound(b)
    BY DEF CourseInv
  <2> QED
    BY <1>16, <2>1, LoadClearEffect, Numbers DEF Sound, Expired
<1>17. ASSUME NEW m \in sent, Receive(m), UNCHANGED dialogVars
       PROVE  Sound(b)'
  <2>1. Sound(b)
    BY DEF CourseInv
  <2> QED
    BY <1>17, <2>1, ReceiveEffect, Numbers DEF Sound, Expired
<1>18. ASSUME NEW m \in sent, Lose(m), UNCHANGED dialogVars
       PROVE  Sound(b)'
  <2>1. Sound(b)
    BY DEF CourseInv
  <2> QED
    BY <1>18, <2>1, LoseEffect, Numbers DEF Sound, Expired
<1>19. ASSUME EndPast, UNCHANGED dialogVars
       PROVE  Sound(b)'
  <2>1. Sound(b)
    BY DEF CourseInv
  <2> QED
    BY <1>19, <2>1, EndPastEffect, Numbers DEF Sound, Expired
<1>20. ASSUME NEW a \in Attempts, Approve(a), UNCHANGED dialogVars
       PROVE  Sound(b)'
  <2>1. Sound(a) /\ Sound(b)
    BY DEF CourseInv
  <2>2. WaitsSoundly
    BY DEF CourseInv
  <2>3. CASE b = a
    BY <1>20, <2>1, <2>2, <2>3, ApproveEffect, Numbers DEF Sound, WaitsSoundly, Expired
  <2>4. CASE b # a
    BY <1>20, <2>1, <2>4, ApproveEffect, Numbers DEF Sound, Expired
  <2> QED BY <2>3, <2>4
<1>21. ASSUME NEW a \in Attempts, Expire(a), UNCHANGED dialogVars
       PROVE  Sound(b)'
  <2>1. Sound(a) /\ Sound(b)
    BY DEF CourseInv
  <2>2. WaitsSoundly
    BY DEF CourseInv
  <2>3. CASE b = a
    BY <1>21, <2>1, <2>2, <2>3, ExpireEffect, Numbers DEF Sound, WaitsSoundly, Expired
  <2>4. CASE b # a
    BY <1>21, <2>1, <2>4, ExpireEffect, Numbers DEF Sound, Expired
  <2> QED BY <2>3, <2>4
<1>22. ASSUME UNCHANGED <<belongs, start, native, poll, grant, session, sent, expired, keyring>>
       PROVE  Sound(b)'
  BY <1>22 DEF CourseInv, Sound, Expired
<1> QED
  BY <1>1, <1>2, <1>3, <1>4, <1>5, <1>6, <1>7, <1>8, <1>9, <1>10, <1>11, <1>12, <1>13, <1>14, <1>15,
     <1>16, <1>17, <1>18, <1>19, <1>20, <1>21, <1>22 DEF
        SignInNext, DialogNext, NativeNext, CommandStep, signVars, nativeVars, dialogVars, Open,
        OpenForBilling, ShowSettings, CloseSettings, Close, ShowPlan, ClickCancel, Retry,
        RequireLogin, Rename, RenameReturns, LoadReturns, CountDown, CancelReturns, SignOut, LogoutReturns, LogoutRead, LoadRead,
        LoadAsk, RenameRead, RenameAsk

(* However the dialog keeps, stops or cancels what it waits for, what it    *)
(* waits for then has begun, and nothing that it cancelled is waited for.  *)
LEMMA WaitingStep ==
  ASSUME TypesInv, WaitsSoundly, UNCHANGED belongs, KeepsWaiting \/ StopsWaiting \/ CancelsWaiting,
         dialog'.started => start'[dialog.ref].at = start[dialog.ref].at
  PROVE  WaitsSoundly'
<1>1. CASE KeepsWaiting
  BY <1>1 DEF WaitsSoundly, KeepsWaiting
<1>2. CASE StopsWaiting
  BY <1>2, Numbers DEF WaitsSoundly, StopsWaiting
<1>3. CASE CancelsWaiting
  <2>1. dialog'.ref = None /\ dialog'.started = FALSE
    BY <1>3 DEF CancelsWaiting
  <2>2. ASSUME NEW c \in cancels'
        PROVE  belongs[c.id] # 0 /\ c.id # None
    <3>1. CASE c \in cancels
      BY <3>1, Numbers DEF WaitsSoundly
    <3>2. CASE c \in Unasked({dialog.ref})
      <4>1. c.id = dialog.ref /\ dialog.ref # None
        BY <3>2, UnaskedSets
      <4> QED BY <4>1 DEF WaitsSoundly
    <3> QED BY <1>3, <3>1, <3>2 DEF CancelsWaiting
  <2> QED BY <2>1, <2>2 DEF WaitsSoundly
<1> QED BY <1>1, <1>2, <1>3

(* The dialog waits for what has begun.                                    *)
LEMMA WaitsStep ==
  ASSUME TypesInv, CourseInv, [SignInNext]_signVars
  PROVE  WaitsSoundly'
<1>a. WaitsSoundly
  BY DEF CourseInv
<1>1. ASSUME Open
      PROVE  WaitsSoundly'
  BY <1>1, <1>a, OpenEffect, WaitingStep
<1>2. ASSUME OpenForBilling
      PROVE  WaitsSoundly'
  BY <1>2, <1>a, OpenForBillingEffect, WaitingStep
<1>3. ASSUME Close
      PROVE  WaitsSoundly'
  BY <1>3, <1>a, CloseEffect, WaitingStep
<1>4. ASSUME ShowPlan
      PROVE  WaitsSoundly'
  BY <1>4, <1>a, ShowPlanEffect, WaitingStep
<1>5. ASSUME ClickCancel
      PROVE  WaitsSoundly'
  <2>1. /\ dialog.ref # None /\ dialog'.ref = None /\ dialog'.started = FALSE
        /\ UNCHANGED <<belongs, start>>
        /\ cancels' = cancels \cup {[id |-> dialog.ref, by |-> dialog.mount, at |-> "call"]}
    BY <1>5, ClickCancelEffect
  <2>3. \A c \in cancels' : c \in cancels \/ c.id = dialog.ref
    BY <2>1
  <2>2. \A c \in cancels' : belongs[c.id] # 0 /\ c.id # None
    BY <1>a, <2>1, <2>3, Numbers DEF WaitsSoundly
  <2> QED BY <2>1, <2>2 DEF WaitsSoundly
<1>6. ASSUME Retry
      PROVE  WaitsSoundly'
  BY <1>6, <1>a, RetryEffect, WaitingStep
<1>7. ASSUME RequireLogin
      PROVE  WaitsSoundly'
  BY <1>7, <1>a, RequireLoginEffect, WaitingStep
<1>8. ASSUME Rename
      PROVE  WaitsSoundly'
  BY <1>8, <1>a, RenameEffect, WaitingStep
<1>9. ASSUME RenameReturns
      PROVE  WaitsSoundly'
  BY <1>9, <1>a, RenameReturnsEffect, WaitingStep
<1>10. ASSUME LoadReturns
       PROVE  WaitsSoundly'
  BY <1>10, <1>a, LoadReturnsEffect, WaitingStep
<1>11. ASSUME NEW a \in Attempts, Start(a)
       PROVE  WaitsSoundly'
  <2>1. /\ dialog'.ref = a /\ dialog'.started = FALSE /\ belongs[a] = 0 /\ belongs'[a] # 0
        /\ \A b \in Attempts \ {a} : belongs'[b] = belongs[b]
        /\ UNCHANGED cancels /\ a # None
    BY <1>11, StartEffect, Numbers
  <2>2. \A c \in cancels : c.id # a /\ c.id \in Attempts /\ belongs[c.id] # 0
    BY <1>a, <2>1, Numbers DEF WaitsSoundly
  <2> QED BY <2>1, <2>2 DEF WaitsSoundly
<1>12. ASSUME NEW a \in Attempts, StartReturns(a)
       PROVE  WaitsSoundly'
  <2>1. belongs[a] # 0 /\ UNCHANGED belongs
    BY <1>12, StartReturnsEffect DEF CourseInv, Sound
  <2>2. a # None /\ dialog.ref \in Attempts \cup {None}
    BY Numbers
  <2>3. CASE /\ dialog.ref = a /\ start[a].at = "ok" /\ start'[a].at = "opened"
             /\ dialog'.ref = a /\ dialog'.started = TRUE /\ cancels' = cancels
    BY <1>a, <2>1, <2>2, <2>3 DEF WaitsSoundly
  <2>4. CASE /\ dialog.ref # a /\ dialog' = dialog /\ cancels' = cancels \cup Unasked({a})
    <3>1. dialog.ref # None => start'[dialog.ref] = start[dialog.ref]
      BY <1>12, <2>2, <2>4, StartReturnsEffect
    <3>2. \A c \in cancels' : c \in cancels \/ c.id = a
      BY <2>4, UnaskedSets
    <3> QED BY <1>a, <2>1, <2>2, <2>4, <3>1, <3>2 DEF WaitsSoundly
  <2>5. CASE /\ dialog.ref = a /\ dialog'.ref = None /\ dialog'.started = FALSE
             /\ cancels' = cancels \cup Unasked({a})
    <3>1. \A c \in cancels' : (c \in cancels \/ c.id = a) /\ (c \in cancels => c.id # None)
      BY <2>5, UnaskedSets, Numbers
    <3> QED BY <1>a, <2>1, <2>2, <2>5, <3>1 DEF WaitsSoundly
  <2> QED BY <1>12, <2>3, <2>4, <2>5, StartReturnsEffect
<1>13. ASSUME NEW a \in Attempts, PollReturns(a)
       PROVE  WaitsSoundly'
  BY <1>13, <1>a, PollReturnsEffect, WaitingStep
<1>14. ASSUME NEW a \in Attempts, CountDown(a)
       PROVE  WaitsSoundly'
  BY <1>14, <1>a, CountDownEffect, WaitingStep
<1>15. ASSUME NEW c \in cancels, CancelReturns(c)
       PROVE  WaitsSoundly'
  BY <1>15, CancelReturnsEffect, <1>a, Numbers, UnaskedSets DEF WaitsSoundly, KeepsWaiting,
        StopsWaiting, CancelsWaiting
<1>16. ASSUME NEW n \in Signouts, SignOut(n)
       PROVE  WaitsSoundly'
  BY <1>16, <1>a, SignOutEffect, WaitingStep
<1>17. ASSUME NEW n \in Signouts, LogoutReturns(n)
       PROVE  WaitsSoundly'
  BY <1>17, <1>a, LogoutReturnsEffect, WaitingStep
<1>18. ASSUME NEW a \in Attempts, StartLock(a), UNCHANGED dialogVars
       PROVE  WaitsSoundly'
  <2>1. dialog.started => dialog.ref # a
    BY <1>18, <1>a, StartLockEffect DEF WaitsSoundly
  <2>2. /\ dialog.ref # None /\ dialog.ref # a => start'[dialog.ref] = start[dialog.ref]
        /\ UNCHANGED <<dialog, belongs, cancels>>
    BY <1>18, StartLockEffect, Numbers
  <2> QED BY <1>a, <2>1, <2>2 DEF WaitsSoundly
<1>19. ASSUME NEW a \in Attempts, StartPost(a), UNCHANGED dialogVars
       PROVE  WaitsSoundly'
  <2>1. dialog.started => dialog.ref # a
    BY <1>19, <1>a, StartPostEffect DEF WaitsSoundly
  <2>2. /\ dialog.ref # None /\ dialog.ref # a => start'[dialog.ref] = start[dialog.ref]
        /\ UNCHANGED <<dialog, belongs, cancels>>
    BY <1>19, StartPostEffect, Numbers
  <2> QED BY <1>a, <2>1, <2>2 DEF WaitsSoundly
<1>20. ASSUME NEW a \in Attempts, StartFails(a), UNCHANGED dialogVars
       PROVE  WaitsSoundly'
  <2>1. dialog.started => dialog.ref # a
    BY <1>20, <1>a, StartFailsEffect DEF WaitsSoundly
  <2>2. /\ dialog.ref # None /\ dialog.ref # a => start'[dialog.ref] = start[dialog.ref]
        /\ UNCHANGED <<dialog, belongs, cancels>>
    BY <1>20, StartFailsEffect, Numbers
  <2> QED BY <1>a, <2>1, <2>2 DEF WaitsSoundly
<1>21. ASSUME NEW a \in Attempts, StartInstall(a), UNCHANGED dialogVars
       PROVE  WaitsSoundly'
  <2>1. dialog.started => dialog.ref # a
    BY <1>21, <1>a, StartInstallEffect DEF WaitsSoundly
  <2>2. /\ dialog.ref # None /\ dialog.ref # a => start'[dialog.ref] = start[dialog.ref]
        /\ UNCHANGED <<dialog, belongs, cancels>>
    BY <1>21, StartInstallEffect, Numbers
  <2> QED BY <1>a, <2>1, <2>2 DEF WaitsSoundly
<1>22. ASSUME NEW c \in cancels, CancelLock(c), UNCHANGED dialogVars
       PROVE  WaitsSoundly'
  BY <1>22, CancelLockEffect, <1>a, Numbers, UnaskedSets DEF WaitsSoundly
<1>23. ASSUME UNCHANGED <<dialog, cancels, belongs, start>>
       PROVE  WaitsSoundly'
  BY <1>23, <1>a DEF WaitsSoundly
<1> QED
  BY <1>1, <1>2, <1>3, <1>4, <1>5, <1>6, <1>7, <1>8, <1>9, <1>10, <1>11, <1>12, <1>13, <1>14, <1>15,
     <1>16, <1>17, <1>18, <1>19, <1>20, <1>21, <1>22, <1>23 DEF
        SignInNext, DialogNext, NativeNext, CommandStep, signVars, nativeVars, dialogVars,
        PollBegins, PollLock, PollPost, PollAgain, PollGone, PollCommit, LogoutRead, LogoutClear,
        LoadRead, LoadAsk, LoadClear, RenameRead, RenameAsk, Receive, Lose, EndPast, Approve, Expire,
        ShowSettings, CloseSettings

(* While the stored session is loaded nothing is started, so no step signs *)
(* anybody in or out.                                                      *)
LEMMA LoadsStep ==
  ASSUME TypesInv, CourseInv, [SignInNext]_signVars
  PROVE  LoadsAlone'
<1>a. LoadsAlone
  BY DEF CourseInv
<1>b. load.at \in {"ask", "unauthorized", "profile"} => load.token \in Sessions
  BY DEF TypesInv, StateTypes, Loads, Tokens
<1>1. ASSUME Open
      PROVE  LoadsAlone'
  BY <1>1, OpenEffect, <1>a, <1>b, Numbers DEF LoadsAlone, KeepsWaiting, StopsWaiting,
        CancelsWaiting
<1>2. ASSUME OpenForBilling
      PROVE  LoadsAlone'
  BY <1>2, OpenForBillingEffect, <1>a, <1>b, Numbers DEF LoadsAlone, KeepsWaiting, StopsWaiting,
        CancelsWaiting
<1>3. ASSUME Close
      PROVE  LoadsAlone'
  BY <1>3, CloseEffect, <1>a, <1>b, Numbers DEF LoadsAlone, KeepsWaiting, StopsWaiting,
        CancelsWaiting
<1>4. ASSUME ShowPlan
      PROVE  LoadsAlone'
  BY <1>4, ShowPlanEffect, <1>a, <1>b, Numbers DEF LoadsAlone, KeepsWaiting, StopsWaiting,
        CancelsWaiting
<1>5. ASSUME ClickCancel
      PROVE  LoadsAlone'
  BY <1>5, ClickCancelEffect, <1>a, <1>b, Numbers DEF LoadsAlone
<1>6. ASSUME Retry
      PROVE  LoadsAlone'
  BY <1>6, RetryEffect, <1>a, <1>b, Numbers DEF LoadsAlone, KeepsWaiting, StopsWaiting,
        CancelsWaiting
<1>7. ASSUME RequireLogin
      PROVE  LoadsAlone'
  BY <1>7, RequireLoginEffect, <1>a, <1>b, Numbers DEF LoadsAlone, KeepsWaiting, StopsWaiting,
        CancelsWaiting
<1>8. ASSUME Rename
      PROVE  LoadsAlone'
  BY <1>8, RenameEffect, <1>a, <1>b, Numbers DEF LoadsAlone, KeepsWaiting, StopsWaiting,
        CancelsWaiting
<1>9. ASSUME RenameReturns
      PROVE  LoadsAlone'
  BY <1>9, RenameReturnsEffect, <1>a, <1>b, Numbers DEF LoadsAlone, KeepsWaiting, StopsWaiting,
        CancelsWaiting
<1>10. ASSUME LoadReturns
       PROVE  LoadsAlone'
  BY <1>10, LoadReturnsEffect, <1>a, <1>b, Numbers DEF LoadsAlone, KeepsWaiting, StopsWaiting,
        CancelsWaiting
<1>11. ASSUME NEW a \in Attempts, Start(a)
       PROVE  LoadsAlone'
  BY <1>11, StartEffect, <1>a, <1>b, Numbers DEF LoadsAlone
<1>12. ASSUME NEW a \in Attempts, StartReturns(a)
       PROVE  LoadsAlone'
  BY <1>12, StartReturnsEffect, <1>a, <1>b, Numbers DEF LoadsAlone
<1>13. ASSUME NEW a \in Attempts, PollBegins(a)
       PROVE  LoadsAlone'
  BY <1>13, PollBeginsEffect, <1>a, <1>b, Numbers DEF LoadsAlone
<1>14. ASSUME NEW a \in Attempts, PollReturns(a)
       PROVE  LoadsAlone'
  BY <1>14, PollReturnsEffect, <1>a, <1>b, Numbers DEF LoadsAlone, KeepsWaiting, StopsWaiting,
        CancelsWaiting
<1>15. ASSUME NEW a \in Attempts, CountDown(a)
       PROVE  LoadsAlone'
  BY <1>15, CountDownEffect, <1>a, <1>b, Numbers DEF LoadsAlone, KeepsWaiting, StopsWaiting,
        CancelsWaiting
<1>16. ASSUME NEW c \in cancels, CancelReturns(c)
       PROVE  LoadsAlone'
  BY <1>16, CancelReturnsEffect, <1>a, <1>b, Numbers DEF LoadsAlone, KeepsWaiting, StopsWaiting,
        CancelsWaiting
<1>17. ASSUME NEW n \in Signouts, SignOut(n)
       PROVE  LoadsAlone'
  BY <1>17, SignOutEffect, <1>a, <1>b, Numbers DEF LoadsAlone, KeepsWaiting, StopsWaiting,
        CancelsWaiting
<1>18. ASSUME NEW n \in Signouts, LogoutReturns(n)
       PROVE  LoadsAlone'
  BY <1>18, LogoutReturnsEffect, <1>a, <1>b, Numbers DEF LoadsAlone, KeepsWaiting, StopsWaiting,
        CancelsWaiting
<1>19. ASSUME NEW a \in Attempts, StartLock(a), UNCHANGED dialogVars
       PROVE  LoadsAlone'
  BY <1>19, StartLockEffect, <1>a, <1>b, Numbers DEF LoadsAlone
<1>20. ASSUME NEW a \in Attempts, StartPost(a), UNCHANGED dialogVars
       PROVE  LoadsAlone'
  BY <1>20, StartPostEffect, <1>a, <1>b, Numbers DEF LoadsAlone
<1>21. ASSUME NEW a \in Attempts, StartFails(a), UNCHANGED dialogVars
       PROVE  LoadsAlone'
  BY <1>21, StartFailsEffect, <1>a, <1>b, Numbers DEF LoadsAlone
<1>22. ASSUME NEW a \in Attempts, StartInstall(a), UNCHANGED dialogVars
       PROVE  LoadsAlone'
  BY <1>22, StartInstallEffect, <1>a, <1>b, Numbers DEF LoadsAlone
<1>23. ASSUME NEW a \in Attempts, PollLock(a), UNCHANGED dialogVars
       PROVE  LoadsAlone'
  BY <1>23, PollLockEffect, <1>a, <1>b, Numbers DEF LoadsAlone
<1>24. ASSUME NEW a \in Attempts, PollPost(a), UNCHANGED dialogVars
       PROVE  LoadsAlone'
  BY <1>24, PollPostEffect, <1>a, <1>b, Numbers DEF LoadsAlone
<1>25. ASSUME NEW a \in Attempts, PollAgain(a), UNCHANGED dialogVars
       PROVE  LoadsAlone'
  BY <1>25, PollAgainEffect, <1>a, <1>b, Numbers DEF LoadsAlone
<1>26. ASSUME NEW a \in Attempts, PollGone(a), UNCHANGED dialogVars
       PROVE  LoadsAlone'
  BY <1>26, PollGoneEffect, <1>a, <1>b, Numbers DEF LoadsAlone
<1>27. ASSUME NEW a \in Attempts, PollCommit(a), UNCHANGED dialogVars
       PROVE  LoadsAlone'
  BY <1>27, PollCommitEffect, <1>a, <1>b, Numbers DEF LoadsAlone
<1>28. ASSUME NEW n \in Signouts, LogoutClear(n), UNCHANGED dialogVars
       PROVE  LoadsAlone'
  BY <1>28, LogoutClearEffect, <1>a, <1>b, Numbers DEF LoadsAlone
<1>29. ASSUME LoadRead, UNCHANGED dialogVars
       PROVE  LoadsAlone'
  BY <1>29, LoadReadEffect, <1>a, <1>b, Numbers DEF LoadsAlone
<1>30. ASSUME LoadAsk, UNCHANGED dialogVars
       PROVE  LoadsAlone'
  BY <1>30, LoadAskEffect, <1>a, <1>b, Numbers DEF LoadsAlone
<1>31. ASSUME LoadClear, UNCHANGED dialogVars
       PROVE  LoadsAlone'
  BY <1>31, LoadClearEffect, <1>a, <1>b, Numbers DEF LoadsAlone
<1>32. ASSUME NEW m \in sent, Receive(m), UNCHANGED dialogVars
       PROVE  LoadsAlone'
  BY <1>32, ReceiveEffect, <1>a, <1>b, Numbers DEF LoadsAlone
<1>33. ASSUME EndPast, UNCHANGED dialogVars
       PROVE  LoadsAlone'
  BY <1>33, EndPastEffect, <1>a, <1>b, Numbers DEF LoadsAlone
<1>34. ASSUME ShowSettings \/ CloseSettings
       PROVE  LoadsAlone'
  BY <1>34, SettingsEffect, <1>a, <1>b DEF LoadsAlone, nativeVars
<1>35. ASSUME UNCHANGED <<dialog, app, load, start, poll, keyring, session>>
       PROVE  LoadsAlone'
  BY <1>35, <1>a, <1>b DEF LoadsAlone
<1> QED
  BY <1>1, <1>2, <1>3, <1>4, <1>5, <1>6, <1>7, <1>8, <1>9, <1>10, <1>11, <1>12, <1>13, <1>14, <1>15,
     <1>16, <1>17, <1>18, <1>19, <1>20, <1>21, <1>22, <1>23, <1>24, <1>25, <1>26, <1>27, <1>28,
     <1>29, <1>30, <1>31, <1>32, <1>33, <1>34, <1>35 DEF
        SignInNext, DialogNext, NativeNext, CommandStep, signVars, nativeVars, dialogVars,
        CancelLock, LogoutRead, RenameRead, RenameAsk, Lose, Approve, Expire

(* A sign-out that has read its session finds it, or nothing, in the       *)
(* store: a session stored meanwhile is witnessed as crossed.              *)
LEMMA ForgetsStep ==
  ASSUME TypesInv, StrayInv, [SignInNext]_signVars, NEW k \in Signouts
  PROVE  Forgets(k)'
<1>a. Forgets(k)
  BY DEF StrayInv
<1>1. ASSUME NEW n \in Signouts, SignOut(n)
      PROVE  Forgets(k)'
  BY <1>1, SignOutEffect, <1>a DEF Forgets, KeepsWaiting, StopsWaiting, CancelsWaiting
<1>2. ASSUME NEW n \in Signouts, LogoutReturns(n)
      PROVE  Forgets(k)'
  BY <1>2, LogoutReturnsEffect, <1>a DEF Forgets, KeepsWaiting, StopsWaiting, CancelsWaiting
<1>3. ASSUME NEW a \in Attempts, StartPost(a), UNCHANGED dialogVars
      PROVE  Forgets(k)'
  BY <1>3, StartPostEffect, <1>a DEF Forgets
<1>4. ASSUME NEW a \in Attempts, PollPost(a), UNCHANGED dialogVars
      PROVE  Forgets(k)'
  BY <1>4, PollPostEffect, <1>a DEF Forgets
<1>5. ASSUME NEW a \in Attempts, PollCommit(a), UNCHANGED dialogVars
      PROVE  Forgets(k)'
  BY <1>5, <1>a, PollCommitEffect DEF Forgets, SigningOut
<1>6. ASSUME NEW n \in Signouts, LogoutRead(n), UNCHANGED dialogVars
      PROVE  Forgets(k)'
  BY <1>6, LogoutReadEffect, <1>a DEF Forgets
<1>7. ASSUME NEW n \in Signouts, LogoutClear(n), UNCHANGED dialogVars
      PROVE  Forgets(k)'
  BY <1>7, LogoutClearEffect, <1>a DEF Forgets
<1>8. ASSUME LoadAsk, UNCHANGED dialogVars
      PROVE  Forgets(k)'
  BY <1>8, LoadAskEffect, <1>a DEF Forgets
<1>9. ASSUME LoadClear, UNCHANGED dialogVars
      PROVE  Forgets(k)'
  BY <1>9, LoadClearEffect, <1>a DEF Forgets
<1>10. ASSUME RenameAsk, UNCHANGED dialogVars
       PROVE  Forgets(k)'
  BY <1>10, RenameAskEffect, <1>a DEF Forgets
<1>11. ASSUME NEW m \in sent, Lose(m), UNCHANGED dialogVars
       PROVE  Forgets(k)'
  BY <1>11, LoseEffect, <1>a DEF Forgets
<1>12. ASSUME UNCHANGED <<logout, keyring, left>>
       PROVE  Forgets(k)'
  BY <1>12, <1>a DEF Forgets
<1> QED
  BY <1>1, <1>2, <1>3, <1>4, <1>5, <1>6, <1>7, <1>8, <1>9, <1>10, <1>11, <1>12 DEF SignInNext,
        DialogNext, NativeNext, CommandStep, signVars, nativeVars, dialogVars, Open, OpenForBilling,
        Close, ShowPlan, ClickCancel, Retry, RequireLogin, Rename, RenameReturns, LoadReturns,
        Start, StartReturns, PollBegins, PollReturns, CountDown, CancelReturns, StartLock,
        StartFails, StartInstall, PollLock, PollAgain, PollGone, CancelLock, LoadRead, RenameRead,
        Receive, EndPast, Approve, Expire, ShowSettings, CloseSettings

(* A session stays findable: what takes it from the store revokes it, and  *)
(* what replaces it, loses its revocation or crosses it is witnessed.      *)
LEMMA KeptStep ==
  ASSUME TypesInv, CourseInv, StrayInv, [SignInNext]_signVars, NEW t \in Sessions
  PROVE  session'[t] = "live" => Kept(t)'
<1>a. session[t] = "live" => Kept(t)
  BY DEF StrayInv
<1>1. ASSUME NEW a \in Attempts, PollBegins(a)
      PROVE  session'[t] = "live" => Kept(t)'
  BY <1>1, PollBeginsEffect, <1>a, Numbers DEF Kept
<1>2. ASSUME NEW a \in Attempts, PollReturns(a)
      PROVE  session'[t] = "live" => Kept(t)'
  BY <1>2, PollReturnsEffect, <1>a, Numbers DEF Kept, KeepsWaiting, StopsWaiting, CancelsWaiting
<1>3. ASSUME NEW n \in Signouts, SignOut(n)
      PROVE  session'[t] = "live" => Kept(t)'
  BY <1>3, SignOutEffect, <1>a, Numbers DEF Kept, KeepsWaiting, StopsWaiting, CancelsWaiting
<1>4. ASSUME NEW n \in Signouts, LogoutReturns(n)
      PROVE  session'[t] = "live" => Kept(t)'
  BY <1>4, LogoutReturnsEffect, <1>a, Numbers DEF Kept, KeepsWaiting, StopsWaiting, CancelsWaiting
<1>5. ASSUME NEW a \in Attempts, StartLock(a), UNCHANGED dialogVars
      PROVE  session'[t] = "live" => Kept(t)'
  BY <1>5, StartLockEffect, <1>a, Numbers DEF Kept
<1>6. ASSUME NEW a \in Attempts, StartPost(a), UNCHANGED dialogVars
      PROVE  session'[t] = "live" => Kept(t)'
  <2>1. /\ UNCHANGED <<session, keyring, poll, logout, sent>>
        /\ left.lost \subseteq left'.lost
        /\ left'.crossed = left.crossed
        /\ left'.replaced = left.replaced
    BY <1>6, StartPostEffect
  <2> QED BY <1>a, <2>1 DEF Kept
<1>7. ASSUME NEW a \in Attempts, StartInstall(a), UNCHANGED dialogVars
      PROVE  session'[t] = "live" => Kept(t)'
  BY <1>7, StartInstallEffect, <1>a, Numbers DEF Kept
<1>8. ASSUME NEW a \in Attempts, PollLock(a), UNCHANGED dialogVars
      PROVE  session'[t] = "live" => Kept(t)'
  BY <1>8, PollLockEffect, <1>a, Numbers DEF Kept
<1>9. ASSUME NEW a \in Attempts, PollPost(a), UNCHANGED dialogVars
      PROVE  session'[t] = "live" => Kept(t)'
  BY <1>9, PollPostEffect, <1>a, Numbers DEF Kept
<1>10. ASSUME NEW a \in Attempts, PollAgain(a), UNCHANGED dialogVars
       PROVE  session'[t] = "live" => Kept(t)'
  BY <1>10, PollAgainEffect, <1>a, Numbers DEF Kept
<1>11. ASSUME NEW a \in Attempts, PollGone(a), UNCHANGED dialogVars
       PROVE  session'[t] = "live" => Kept(t)'
  BY <1>11, PollGoneEffect, <1>a, Numbers DEF Kept
<1>12. ASSUME NEW a \in Attempts, PollCommit(a), UNCHANGED dialogVars
       PROVE  session'[t] = "live" => Kept(t)'
  BY <1>12, PollCommitEffect, <1>a, Numbers DEF Kept
<1>13. ASSUME NEW c \in cancels, CancelLock(c), UNCHANGED dialogVars
       PROVE  session'[t] = "live" => Kept(t)'
  BY <1>13, CancelLockEffect, <1>a, Numbers DEF Kept
<1>14. ASSUME NEW n \in Signouts, LogoutRead(n), UNCHANGED dialogVars
       PROVE  session'[t] = "live" => Kept(t)'
  BY <1>14, LogoutReadEffect, <1>a, Numbers DEF Kept
<1>15. ASSUME NEW n \in Signouts, LogoutClear(n), UNCHANGED dialogVars
       PROVE  session'[t] = "live" => Kept(t)'
  <2>1. /\ UNCHANGED <<session, poll>> /\ sent \subseteq sent' /\ logout[n].at = "clear"
        /\ left'.lost = left.lost /\ left'.crossed = left.crossed /\ left'.replaced = left.replaced
        /\ keyring' = None \/ keyring' = keyring
        /\ \A k \in Signouts \ {n} : logout'[k] = logout[k]
    BY <1>15, LogoutClearEffect
  <2>2. t # None /\ (t = logout[n].token => <<"logout", t>> \in sent')
    BY <1>15, LogoutClearEffect, Numbers
  <2>3. keyring = t => t \in {logout[n].token} \cup left.crossed
    BY <2>1, <2>2 DEF StrayInv, Forgets
  <2>4. CASE session[t] = "live" /\ keyring = t
    BY <2>1, <2>2, <2>3, <2>4 DEF Kept
  <2>5. CASE session[t] = "live" /\ keyring # t
    BY <1>a, <2>1, <2>2, <2>5 DEF Kept
  <2> QED BY <2>1, <2>4, <2>5
<1>16. ASSUME LoadAsk, UNCHANGED dialogVars
       PROVE  session'[t] = "live" => Kept(t)'
  BY <1>16, LoadAskEffect, <1>a, Numbers DEF Kept
<1>17. ASSUME LoadClear, UNCHANGED dialogVars
       PROVE  session'[t] = "live" => Kept(t)'
  <2>1. /\ UNCHANGED <<session, poll, logout, sent>> /\ load.at = "unauthorized"
        /\ left'.lost = left.lost /\ left'.crossed = left.crossed /\ left'.replaced = left.replaced
        /\ keyring' = None \/ keyring' = keyring
    BY <1>17, LoadClearEffect
  <2>2. session[t] = "live" => keyring # t
    BY <2>1, Numbers DEF CourseInv, LoadsAlone
  <2> QED BY <1>a, <2>1, <2>2 DEF Kept
<1>18. ASSUME RenameAsk, UNCHANGED dialogVars
       PROVE  session'[t] = "live" => Kept(t)'
  BY <1>18, RenameAskEffect, <1>a, Numbers DEF Kept
<1>19. ASSUME NEW m \in sent, Receive(m), UNCHANGED dialogVars
       PROVE  session'[t] = "live" => Kept(t)'
  BY <1>19, ReceiveEffect, <1>a, Numbers DEF Kept
<1>20. ASSUME NEW m \in sent, Lose(m), UNCHANGED dialogVars
       PROVE  session'[t] = "live" => Kept(t)'
  BY <1>20, LoseEffect, <1>a, Numbers DEF Kept
<1>21. ASSUME EndPast, UNCHANGED dialogVars
       PROVE  session'[t] = "live" => Kept(t)'
  BY <1>21, EndPastEffect, <1>a, Numbers DEF Kept
<1>22. ASSUME UNCHANGED <<session, keyring, poll, logout, sent, left>>
       PROVE  session'[t] = "live" => Kept(t)'
  BY <1>22, <1>a DEF Kept
<1> QED
  BY <1>1, <1>2, <1>3, <1>4, <1>5, <1>6, <1>7, <1>8, <1>9, <1>10, <1>11, <1>12, <1>13, <1>14, <1>15,
     <1>16, <1>17, <1>18, <1>19, <1>20, <1>21, <1>22 DEF
        SignInNext, DialogNext, NativeNext, CommandStep, signVars, nativeVars, dialogVars, Open,
        OpenForBilling, Close, ShowPlan, ClickCancel, Retry, RequireLogin, Rename, RenameReturns,
        LoadReturns, Start, StartReturns, CountDown, CancelReturns, StartFails, LoadRead,
        RenameRead, Approve, Expire, ShowSettings, CloseSettings

(* What an attempt has signed in is alive until it is revoked, for good.   *)
LEMMA RevokedForGood ==
  ASSUME TypesInv, CourseInv, [SignInNext]_signVars, keyring \in Attempts,
         session'[keyring] = "live"
  PROVE  session[keyring] = "live"
<1>1. ASSUME NEW a \in Attempts, PollPost(a), UNCHANGED dialogVars
      PROVE  session'[keyring] = session[keyring]
  <2>1. keyring = a => grant[a] = "redeemed"
    BY DEF CourseInv, Sound
  <2>2. /\ grant[a] # "approved" => session'[a] = session[a]
        /\ \A b \in Attempts \ {a} : session'[b] = session[b]
    BY <1>1, PollPostEffect, Numbers
  <2> QED BY <2>1, <2>2
<1>2. ASSUME NEW m \in sent, Receive(m), UNCHANGED dialogVars
      PROVE  session[keyring] = "live"
  BY <1>2, ReceiveEffect, Numbers
<1>3. ASSUME EndPast, UNCHANGED dialogVars
      PROVE  session[keyring] = "live"
  BY <1>3, EndPastEffect, Numbers
<1>4. ASSUME UNCHANGED session
      PROVE  session[keyring] = "live"
  BY <1>4
<1> QED
  BY <1>1, <1>2, <1>3, <1>4 DEF SignInNext, DialogNext, NativeNext, CommandStep, signVars,
        nativeVars, dialogVars, Open, OpenForBilling, ShowSettings, CloseSettings, Close, ShowPlan,
        ClickCancel, Retry, RequireLogin, Rename, RenameReturns, LoadReturns, Start, StartReturns,
        PollBegins, PollReturns, CountDown, CancelReturns, SignOut, LogoutReturns, StartLock,
        StartPost, StartFails, StartInstall, PollLock, PollAgain, PollGone, PollCommit, CancelLock,
        LogoutRead, LogoutClear, LoadRead, LoadAsk, LoadClear, RenameRead, RenameAsk, Lose, Approve,
        Expire

(* The panel asks about the session that is stored; one that is stored     *)
(* behind a question is doubted from then on.                              *)
LEMMA PanelStep ==
  ASSUME TypesInv, TypesInv', CourseInv, PanelTypes, AsksSoundly, [AppNext]_appVars
  PROVE  PanelTypes' /\ AsksSoundly' /\ panel.doubted \subseteq panel'.doubted
<1>1. panel \in Panels /\ keyring \in Tokens /\ keyring' \in Tokens /\ None \in Tokens
  BY DEF PanelTypes, TypesInv, StateTypes, Tokens
<1>2. CASE SignInNext /\ PanelFollows
  <2> DEFINE stored == IF Doubts /\ keyring' # keyring THEN {keyring'} \ {None} ELSE {}
  <2>1. stored \subseteq Sessions /\ Place' \in {"none", "dialog", "settings"}
    BY <1>1 DEF Tokens, Place
  <2>2. keyring \in Attempts /\ session'[keyring] = "live" => session[keyring] = "live"
    BY <1>2, RevokedForGood
  <2>3. keyring' \in Attempts => keyring' # None
    BY Numbers
  <2>4. CASE Place' = panel.place
    <3>1. panel' = [panel EXCEPT !.doubted = @ \cup stored]
      BY <1>2, <2>4 DEF PanelFollows
    <3>2. /\ panel' \in Panels /\ panel'.place = panel.place /\ panel'.at = panel.at
          /\ panel'.token = panel.token /\ panel'.doubted = panel.doubted \cup stored
      BY <1>1, <2>1, <3>1 DEF Panels
    <3> QED BY <2>2, <2>3, <2>4, <3>2 DEF PanelTypes, AsksSoundly, Doubts
  <2>5. CASE Place' # panel.place
    <3>1. panel' = [place |-> Place', at |-> IF Place' = "none" THEN "none" ELSE "call",
                    token |-> None, doubted |-> panel.doubted \cup stored]
      BY <1>2, <2>5 DEF PanelFollows
    <3>2. panel' \in Panels /\ panel'.doubted = panel.doubted \cup stored
      BY <1>1, <2>1, <3>1 DEF Panels
    <3> QED BY <3>1, <3>2 DEF PanelTypes, AsksSoundly
  <2> QED BY <2>4, <2>5
<1>3. CASE PanelNext /\ UNCHANGED signVars
  <2>1. UNCHANGED <<keyring, session>> /\ Place' = Place
    BY <1>3 DEF signVars, nativeVars, dialogVars, Place
  <2>2. /\ panel' \in Panels /\ panel'.place = panel.place /\ panel'.doubted = panel.doubted
        /\ panel.at # "none" /\ panel'.at # "none"
    BY <1>1, <1>3 DEF PanelNext, PanelAsks, PanelRead, PanelAsk, PanelRecheck, PanelFails, Panels
  <2>3. PanelTypes'
    BY <2>1, <2>2 DEF PanelTypes
  <2>4. AsksSoundly'
    BY <1>1, <1>3, <2>1, Numbers DEF PanelNext, PanelAsks, PanelRead, PanelAsk, PanelRecheck,
       PanelFails, AsksSoundly, Panels
  <2> QED BY <2>2, <2>3, <2>4
<1>4. CASE UNCHANGED appVars
  <2>1. UNCHANGED <<keyring, session, panel>> /\ Place' = Place
    BY <1>4 DEF appVars, signVars, nativeVars, dialogVars, Place
  <2> QED BY <2>1 DEF PanelTypes, AsksSoundly
<1> QED BY <1>2, <1>3, <1>4 DEF AppNext

(* Only a poll stores a session, and it then returns signed in, which is   *)
(* published whatever the dialog has become; the plan's panel is told that *)
(* nobody is signed in only of a session that is doubted.                  *)
LEMMA ShownStep ==
  ASSUME TypesInv, CourseInv, StrayInv, AsksSoundly, ShownInv, [SignInNext]_signVars,
         panel.doubted \subseteq panel'.doubted
  PROVE  ShownInv'
<1>1. ASSUME OpenForBilling
      PROVE  ShownInv'
  <2>1. UNCHANGED <<keyring, left, session, poll>> /\ SignedOut
    BY <1>1, OpenForBillingEffect
  <2> QED BY <2>1, Numbers DEF ShownInv, SignedOut, AsksSoundly
<1>2. ASSUME RequireLogin
      PROVE  ShownInv'
  <2>1. UNCHANGED <<keyring, left, session, poll>> /\ SignedOut
    BY <1>2, RequireLoginEffect
  <2> QED BY <2>1, Numbers DEF ShownInv, SignedOut, AsksSoundly
<1>3. ASSUME RenameReturns
      PROVE  ShownInv'
  BY <1>3, RenameReturnsEffect, Numbers DEF ShownInv, KeepsWaiting, StopsWaiting, CancelsWaiting
<1>4. ASSUME LoadReturns
      PROVE  ShownInv'
  BY <1>4, LoadReturnsEffect, Numbers DEF ShownInv, KeepsWaiting, StopsWaiting, CancelsWaiting
<1>5. ASSUME NEW a \in Attempts, PollBegins(a)
      PROVE  ShownInv'
  BY <1>5, PollBeginsEffect, Numbers DEF ShownInv
<1>6. ASSUME NEW a \in Attempts, PollReturns(a)
      PROVE  ShownInv'
  BY <1>6, PollReturnsEffect, Numbers DEF ShownInv, KeepsWaiting, StopsWaiting, CancelsWaiting
<1>7. ASSUME NEW n \in Signouts, LogoutReturns(n)
      PROVE  ShownInv'
  <2>1. UNCHANGED <<keyring, left, session, poll>> /\ (logout[n].at = "ok" \/ app' = app)
    BY <1>7, LogoutReturnsEffect
  <2>2. logout[n].at = "ok" => keyring \in {None} \cup left.crossed
    BY DEF StrayInv, Forgets
  <2> QED BY <2>1, <2>2, Numbers DEF ShownInv
<1>8. ASSUME NEW a \in Attempts, StartPost(a), UNCHANGED dialogVars
      PROVE  ShownInv'
  BY <1>8, StartPostEffect, Numbers DEF ShownInv
<1>9. ASSUME NEW a \in Attempts, PollLock(a), UNCHANGED dialogVars
      PROVE  ShownInv'
  BY <1>9, PollLockEffect, Numbers DEF ShownInv
<1>10. ASSUME NEW a \in Attempts, PollPost(a), UNCHANGED dialogVars
       PROVE  ShownInv'
  <2>1. /\ UNCHANGED <<keyring, app>> /\ left'.crossed = left.crossed
        /\ poll[a] = "post" /\ (grant[a] # "approved" => session'[a] = session[a])
        /\ \A b \in Attempts \ {a} : session'[b] = session[b] /\ poll'[b] = poll[b]
    BY <1>10, PollPostEffect, Numbers
  <2>2. keyring = a => grant[a] = "redeemed"
    BY DEF CourseInv, Sound
  <2> QED BY <2>1, <2>2 DEF ShownInv
<1>11. ASSUME NEW a \in Attempts, PollAgain(a), UNCHANGED dialogVars
       PROVE  ShownInv'
  BY <1>11, PollAgainEffect, Numbers DEF ShownInv
<1>12. ASSUME NEW a \in Attempts, PollGone(a), UNCHANGED dialogVars
       PROVE  ShownInv'
  BY <1>12, PollGoneEffect, Numbers DEF ShownInv
<1>13. ASSUME NEW a \in Attempts, PollCommit(a), UNCHANGED dialogVars
       PROVE  ShownInv'
  BY <1>13, PollCommitEffect, Numbers DEF ShownInv
<1>14. ASSUME NEW n \in Signouts, LogoutRead(n), UNCHANGED dialogVars
       PROVE  ShownInv'
  BY <1>14, LogoutReadEffect, Numbers DEF ShownInv
<1>15. ASSUME NEW n \in Signouts, LogoutClear(n), UNCHANGED dialogVars
       PROVE  ShownInv'
  BY <1>15, LogoutClearEffect, Numbers DEF ShownInv
<1>16. ASSUME LoadAsk, UNCHANGED dialogVars
       PROVE  ShownInv'
  BY <1>16, LoadAskEffect, Numbers DEF ShownInv
<1>17. ASSUME LoadClear, UNCHANGED dialogVars
       PROVE  ShownInv'
  BY <1>17, LoadClearEffect, Numbers DEF ShownInv
<1>18. ASSUME RenameAsk, UNCHANGED dialogVars
       PROVE  ShownInv'
  BY <1>18, RenameAskEffect, Numbers DEF ShownInv
<1>19. ASSUME NEW m \in sent, Receive(m), UNCHANGED dialogVars
       PROVE  ShownInv'
  BY <1>19, ReceiveEffect, Numbers DEF ShownInv
<1>20. ASSUME NEW m \in sent, Lose(m), UNCHANGED dialogVars
       PROVE  ShownInv'
  BY <1>20, LoseEffect, Numbers DEF ShownInv
<1>21. ASSUME EndPast, UNCHANGED dialogVars
       PROVE  ShownInv'
  BY <1>21, EndPastEffect, Numbers DEF ShownInv
<1>22. ASSUME ShowSettings \/ CloseSettings
       PROVE  ShownInv'
  BY <1>22, SettingsEffect DEF ShownInv, nativeVars
<1>23. ASSUME UNCHANGED <<keyring, left, app, session, poll>>
       PROVE  ShownInv'
  BY <1>23 DEF ShownInv
<1> QED
  BY <1>1, <1>2, <1>3, <1>4, <1>5, <1>6, <1>7, <1>8, <1>9, <1>10, <1>11, <1>12, <1>13, <1>14, <1>15,
     <1>16, <1>17, <1>18, <1>19, <1>20, <1>21, <1>22, <1>23 DEF
        SignInNext, DialogNext, NativeNext, CommandStep, signVars, nativeVars, dialogVars, Open,
        Close, ShowPlan, ClickCancel, Retry, Rename, Start, StartReturns, CountDown, CancelReturns,
        SignOut, StartLock, StartFails, StartInstall, CancelLock, LoadRead, RenameRead, Approve,
        Expire

(* The mutex keeps the request that the dialog waits for: a cancel takes   *)
(* only its own attempt's, and a start that comes later overtakes it.      *)
LEMMA BackedStep ==
  ASSUME TypesInv, CourseInv, BackedInv, [SignInNext]_signVars, NEW b \in Attempts
  PROVE  Awaited(b)' => Backed(b)'
<1>a. Awaited(b) => Backed(b)
  BY DEF BackedInv
<1>b. Sound(b) /\ WaitsSoundly
  BY DEF CourseInv
<1>c. native.pending \in {None, native.client} /\ b # None
  BY Numbers DEF TypesInv
<1>1. ASSUME Open
      PROVE  Awaited(b)' => Backed(b)'
  BY <1>1, OpenEffect, <1>a, <1>c, Numbers DEF Awaited, Backed, Overtaken, Expired, KeepsWaiting,
        StopsWaiting, CancelsWaiting
<1>2. ASSUME OpenForBilling
      PROVE  Awaited(b)' => Backed(b)'
  BY <1>2, OpenForBillingEffect, <1>a, <1>c, Numbers DEF Awaited, Backed, Overtaken, Expired,
        KeepsWaiting, StopsWaiting, CancelsWaiting
<1>3. ASSUME Close
      PROVE  Awaited(b)' => Backed(b)'
  BY <1>3, CloseEffect, <1>a, <1>c, Numbers DEF Awaited, Backed, Overtaken, Expired, KeepsWaiting,
        StopsWaiting, CancelsWaiting
<1>4. ASSUME ShowPlan
      PROVE  Awaited(b)' => Backed(b)'
  BY <1>4, ShowPlanEffect, <1>a, <1>c, Numbers DEF Awaited, Backed, Overtaken, Expired,
        KeepsWaiting, StopsWaiting, CancelsWaiting
<1>5. ASSUME ClickCancel
      PROVE  Awaited(b)' => Backed(b)'
  BY <1>5, ClickCancelEffect, <1>a, <1>c, Numbers DEF Awaited, Backed, Overtaken, Expired
<1>6. ASSUME Retry
      PROVE  Awaited(b)' => Backed(b)'
  BY <1>6, RetryEffect, <1>a, <1>c, Numbers DEF Awaited, Backed, Overtaken, Expired, KeepsWaiting,
        StopsWaiting, CancelsWaiting
<1>7. ASSUME RequireLogin
      PROVE  Awaited(b)' => Backed(b)'
  BY <1>7, RequireLoginEffect, <1>a, <1>c, Numbers DEF Awaited, Backed, Overtaken, Expired,
        KeepsWaiting, StopsWaiting, CancelsWaiting
<1>8. ASSUME Rename
      PROVE  Awaited(b)' => Backed(b)'
  BY <1>8, RenameEffect, <1>a, <1>c, Numbers DEF Awaited, Backed, Overtaken, Expired, KeepsWaiting,
        StopsWaiting, CancelsWaiting
<1>9. ASSUME RenameReturns
      PROVE  Awaited(b)' => Backed(b)'
  BY <1>9, RenameReturnsEffect, <1>a, <1>c, Numbers DEF Awaited, Backed, Overtaken, Expired,
        KeepsWaiting, StopsWaiting, CancelsWaiting
<1>10. ASSUME LoadReturns
       PROVE  Awaited(b)' => Backed(b)'
  BY <1>10, LoadReturnsEffect, <1>a, <1>c, Numbers DEF Awaited, Backed, Overtaken, Expired,
        KeepsWaiting, StopsWaiting, CancelsWaiting
<1>11. ASSUME NEW a \in Attempts, Start(a)
       PROVE  Awaited(b)' => Backed(b)'
  BY <1>11, StartEffect, <1>a, <1>c, Numbers DEF Awaited, Backed, Overtaken, Expired
<1>12. ASSUME NEW a \in Attempts, StartReturns(a)
       PROVE  Awaited(b)' => Backed(b)'
  BY <1>12, StartReturnsEffect, <1>a, <1>c, Numbers DEF Awaited, Backed, Overtaken, Expired
<1>13. ASSUME NEW a \in Attempts, PollReturns(a)
       PROVE  Awaited(b)' => Backed(b)'
  BY <1>13, PollReturnsEffect, <1>a, <1>c, Numbers DEF Awaited, Backed, Overtaken, Expired,
        KeepsWaiting, StopsWaiting, CancelsWaiting
<1>14. ASSUME NEW a \in Attempts, CountDown(a)
       PROVE  Awaited(b)' => Backed(b)'
  BY <1>14, CountDownEffect, <1>a, <1>c, Numbers DEF Awaited, Backed, Overtaken, Expired,
        KeepsWaiting, StopsWaiting, CancelsWaiting
<1>15. ASSUME NEW c \in cancels, CancelReturns(c)
       PROVE  Awaited(b)' => Backed(b)'
  BY <1>15, CancelReturnsEffect, <1>a, <1>c, Numbers DEF Awaited, Backed, Overtaken, Expired,
        KeepsWaiting, StopsWaiting, CancelsWaiting
<1>16. ASSUME NEW n \in Signouts, SignOut(n)
       PROVE  Awaited(b)' => Backed(b)'
  BY <1>16, SignOutEffect, <1>a, <1>c, Numbers DEF Awaited, Backed, Overtaken, Expired,
        KeepsWaiting, StopsWaiting, CancelsWaiting
<1>17. ASSUME NEW n \in Signouts, LogoutReturns(n)
       PROVE  Awaited(b)' => Backed(b)'
  BY <1>17, LogoutReturnsEffect, <1>a, <1>c, Numbers DEF Awaited, Backed, Overtaken, Expired,
        KeepsWaiting, StopsWaiting, CancelsWaiting
<1>18. ASSUME NEW a \in Attempts, StartLock(a), UNCHANGED dialogVars
       PROVE  Awaited(b)' => Backed(b)'
  <2>1. /\ start[a].at = "call"
        /\ start'[a].at = "post"
        /\ start'[a].generation = native.generation + 1
        /\ \A x \in Attempts \ {a} : start'[x] = start[x]
        /\ UNCHANGED dialog
    BY <1>18, StartLockEffect
  <2>2. CASE b = a
    BY <1>b, <2>1, <2>2, Numbers DEF Awaited, WaitsSoundly
  <2>3. CASE b # a
    <3>1. start'[b].generation < start'[a].generation
      BY <1>b, <2>1, <2>3, Numbers DEF Sound
    <3> QED BY <3>1 DEF Awaited, Overtaken
  <2> QED BY <2>2, <2>3
<1>19. ASSUME NEW a \in Attempts, StartPost(a), UNCHANGED dialogVars
       PROVE  Awaited(b)' => Backed(b)'
  <2>1. /\ start[a].at = "post" /\ start'[a].at # "ok" /\ start'[a].generation = start[a].generation
        /\ \A x \in Attempts \ {a} : start'[x] = start[x]
        /\ UNCHANGED <<dialog, expired>>
    BY <1>19, StartPostEffect
  <2>2. Awaited(b)' => b # a /\ Awaited(b)
    <3>1. \A x \in Attempts : start'[x].generation = start[x].generation
      BY <2>1
    <3>2. Awaited(b)' => b # a
      BY <1>b, <2>1, Numbers DEF Awaited, WaitsSoundly
    <3>3. b # a /\ Awaited(b)' => Awaited(b)
      BY <2>1, <3>1 DEF Awaited, Overtaken
    <3> QED BY <3>2, <3>3
  <2>3. UNCHANGED <<native, sent>> /\ (b # a => grant'[b] = grant[b])
    BY <1>19, StartPostEffect
  <2> QED BY <1>a, <2>1, <2>2, <2>3 DEF Backed, Expired
<1>20. ASSUME NEW a \in Attempts, StartFails(a), UNCHANGED dialogVars
       PROVE  Awaited(b)' => Backed(b)'
  <2>1. /\ start[a].at = "failed"
        /\ start'[a].at # "ok"
        /\ start'[a].generation = start[a].generation
        /\ \A x \in Attempts \ {a} : start'[x] = start[x]
        /\ UNCHANGED <<dialog, expired>>
    BY <1>20, StartFailsEffect
  <2>2. Awaited(b)' => b # a /\ Awaited(b)
    <3>1. \A x \in Attempts : start'[x].generation = start[x].generation
      BY <2>1
    <3>2. Awaited(b)' => b # a
      BY <1>b, <2>1, Numbers DEF Awaited, WaitsSoundly
    <3>3. b # a /\ Awaited(b)' => Awaited(b)
      BY <2>1, <3>1 DEF Awaited, Overtaken
    <3> QED BY <3>2, <3>3
  <2>3. UNCHANGED <<grant, sent>> /\ (native' = native \/ native.client = a)
    BY <1>20, StartFailsEffect
  <2>4. b # a /\ native.pending = b => native' = native
    BY <1>c, <2>3
  <2> QED BY <1>a, <2>1, <2>2, <2>3, <2>4 DEF Backed, Expired
<1>21. ASSUME NEW a \in Attempts, StartInstall(a), UNCHANGED dialogVars
       PROVE  Awaited(b)' => Backed(b)'
  <2>1. /\ start[a].at = "answered" /\ UNCHANGED <<dialog, expired, grant>>
        /\ \A x \in Attempts : start'[x].generation = start[x].generation
        /\ \A x \in Attempts \ {a} : start'[x] = start[x]
    BY <1>21, StartInstallEffect
  <2>2. Awaited(b)' /\ b # a => Awaited(b)
    BY <2>1 DEF Awaited, Overtaken
  <2>3. Awaited(b)' /\ b = a => start'[a].at = "ok"
    BY <1>b, <2>1, Numbers DEF Awaited, WaitsSoundly
  <2>5. CASE native.client = a /\ start'[a].at = "ok" /\ sent' = sent /\ native'.pending = a
    <3>1. native.pending = b => b = a
      BY <1>c, <2>5
    <3>2. b = a => start[b].at = "answered"
      BY <2>1
    <3>3. b = a => grant[b] = "pending" /\ <<"cancel", b>> \notin sent
      BY <1>b, <3>2 DEF Sound
    <3>4. CASE b = a
      BY <2>1, <2>5, <3>3, <3>4 DEF Backed
    <3>5. CASE b # a
      BY <1>a, <2>1, <2>2, <2>5, <3>1, <3>5 DEF Backed, Expired
    <3> QED BY <3>4, <3>5
  <2>6. CASE start'[a].at = "error" /\ native' = native /\ sent' = sent \cup {<<"cancel", a>>}
    <3>1. CASE b = a
      BY <2>3, <2>6, <3>1
    <3>2. CASE b # a
      BY <1>a, <2>1, <2>2, <2>6, <3>2 DEF Backed, Expired
    <3> QED BY <3>1, <3>2
  <2> QED BY <1>21, <2>5, <2>6, StartInstallEffect
<1>22. ASSUME NEW a \in Attempts, PollLock(a), UNCHANGED dialogVars
       PROVE  Awaited(b)' => Backed(b)'
  BY <1>22, PollLockEffect, <1>a, <1>c, Numbers DEF Awaited, Backed, Overtaken, Expired
<1>23. ASSUME NEW a \in Attempts, PollPost(a), UNCHANGED dialogVars
       PROVE  Awaited(b)' => Backed(b)'
  BY <1>23, PollPostEffect, <1>a, <1>c, Numbers DEF Awaited, Backed, Overtaken, Expired
<1>24. ASSUME NEW a \in Attempts, PollAgain(a), UNCHANGED dialogVars
       PROVE  Awaited(b)' => Backed(b)'
  BY <1>24, PollAgainEffect, <1>a, <1>c, Numbers DEF Awaited, Backed, Overtaken, Expired
<1>25. ASSUME NEW a \in Attempts, PollGone(a), UNCHANGED dialogVars
       PROVE  Awaited(b)' => Backed(b)'
  <2>1. /\ UNCHANGED <<dialog, expired, grant, start>>
    BY <1>25, PollGoneEffect
  <2>2. Awaited(b)' => Awaited(b)
    BY <2>1 DEF Awaited, Overtaken
  <2>3. UNCHANGED sent /\ poll[a] = "gone" /\ (native' = native \/ native.pending = a)
    BY <1>25, PollGoneEffect
  <2>4. b = a => Expired(b) \/ grant[b] \in {"redeemed", "cancelled"}
    BY <1>b, <2>3 DEF Sound
  <2> QED BY <1>a, <2>1, <2>2, <2>3, <2>4 DEF Backed, Expired
<1>26. ASSUME NEW a \in Attempts, PollCommit(a), UNCHANGED dialogVars
       PROVE  Awaited(b)' => Backed(b)'
  <2>1. /\ UNCHANGED <<dialog, expired, grant, start>>
    BY <1>26, PollCommitEffect
  <2>2. Awaited(b)' => Awaited(b)
    BY <2>1 DEF Awaited, Overtaken
  <2>3. /\ poll[a] = "complete" /\ (native'.pending = native.pending \/ native.pending = a)
        /\ <<"cancel", b>> \in sent' => <<"cancel", b>> \in sent
    BY <1>26, PollCommitEffect
  <2>4. b = a => grant[b] = "redeemed"
    BY <1>b, <2>3 DEF Sound
  <2> QED BY <1>a, <2>1, <2>2, <2>3, <2>4 DEF Backed, Expired
<1>27. ASSUME NEW c \in cancels, CancelLock(c), UNCHANGED dialogVars
       PROVE  Awaited(b)' => Backed(b)'
  <2>1. /\ UNCHANGED <<dialog, expired, grant, start>>
    BY <1>27, CancelLockEffect
  <2>2. Awaited(b)' => Awaited(b)
    BY <2>1 DEF Awaited, Overtaken
  <2>3. /\ c.at = "call"
        /\ \/ native' = native /\ sent' = sent
           \/ /\ native.client = c.id
              /\ \A x \in sent' : x \in sent \/ x = <<"cancel", native.pending>>
    BY <1>27, CancelLockEffect
  <2>4. dialog.ref # c.id
    BY <1>b, <2>3 DEF WaitsSoundly
  <2>5. Awaited(b) => b # c.id
    BY <2>4 DEF Awaited
  <2>6. CASE native' = native /\ sent' = sent
    BY <1>a, <2>1, <2>2, <2>6 DEF Backed, Expired
  <2>7. CASE /\ native.client = c.id
             /\ \A x \in sent' : x \in sent \/ x = <<"cancel", native.pending>>
    <3>1. Awaited(b) => native.pending # b
      BY <1>c, <2>5, <2>7
    <3>2. Awaited(b) => (<<"cancel", b>> \in sent' => <<"cancel", b>> \in sent)
      BY <2>7, <3>1
    <3> QED BY <1>a, <2>1, <2>2, <3>1, <3>2 DEF Backed, Expired
  <2> QED BY <2>3, <2>6, <2>7
<1>28. ASSUME NEW n \in Signouts, LogoutClear(n), UNCHANGED dialogVars
       PROVE  Awaited(b)' => Backed(b)'
  BY <1>28, LogoutClearEffect, <1>a, <1>c, Numbers DEF Awaited, Backed, Overtaken, Expired
<1>29. ASSUME NEW m \in sent, Receive(m), UNCHANGED dialogVars
       PROVE  Awaited(b)' => Backed(b)'
  BY <1>29, ReceiveEffect, <1>a, <1>c, Numbers DEF Awaited, Backed, Overtaken, Expired
<1>30. ASSUME NEW m \in sent, Lose(m), UNCHANGED dialogVars
       PROVE  Awaited(b)' => Backed(b)'
  BY <1>30, LoseEffect, <1>a, <1>c, Numbers DEF Awaited, Backed, Overtaken, Expired
<1>31. ASSUME NEW a \in Attempts, Approve(a), UNCHANGED dialogVars
       PROVE  Awaited(b)' => Backed(b)'
  BY <1>31, ApproveEffect, <1>a, <1>c, Numbers DEF Awaited, Backed, Overtaken, Expired
<1>32. ASSUME NEW a \in Attempts, Expire(a), UNCHANGED dialogVars
       PROVE  Awaited(b)' => Backed(b)'
  BY <1>32, ExpireEffect, <1>a, <1>c, Numbers DEF Awaited, Backed, Overtaken, Expired
<1>33. ASSUME UNCHANGED <<dialog, start, native, expired, grant, sent>>
       PROVE  Awaited(b)' => Backed(b)'
  BY <1>33, <1>a, <1>c DEF Awaited, Backed, Overtaken, Expired
<1> QED
  BY <1>1, <1>2, <1>3, <1>4, <1>5, <1>6, <1>7, <1>8, <1>9, <1>10, <1>11, <1>12, <1>13, <1>14, <1>15,
     <1>16, <1>17, <1>18, <1>19, <1>20, <1>21, <1>22, <1>23, <1>24, <1>25, <1>26, <1>27, <1>28,
     <1>29, <1>30, <1>31, <1>32, <1>33 DEF
        SignInNext, DialogNext, NativeNext, CommandStep, signVars, nativeVars, dialogVars,
        PollBegins, LogoutRead, LoadRead, LoadAsk, LoadClear, RenameRead, RenameAsk, EndPast,
        ShowSettings, CloseSettings

(* An attempt stays accounted for when the dialog cancels it, or stops     *)
(* waiting for it because it is over.                                      *)
LEMMA WaitingAccounted ==
  ASSUME TypesInv, NEW b \in Attempts, Accounted(b),
         UNCHANGED <<start, native, sent, left, session>>,
         \/ KeepsWaiting \/ CancelsWaiting
         \/ StopsWaiting /\ (dialog.ref = b => Elsewhere(b) \/ native.pending # b)
  PROVE  Accounted(b)'
<1>1. CASE KeepsWaiting
  BY <1>1 DEF KeepsWaiting, Accounted, Elsewhere
<1>2. CASE CancelsWaiting
  <2>1. \A c \in cancels : c \in cancels'
    BY <1>2 DEF CancelsWaiting
  <2>2. dialog.ref = b => \E c \in cancels' : c.id = b /\ c.at = "call"
    BY <1>2, UnaskedSets DEF CancelsWaiting
  <2> QED BY <2>1, <2>2 DEF Accounted, Elsewhere
<1>3. CASE StopsWaiting /\ (dialog.ref = b => Elsewhere(b) \/ native.pending # b)
  BY <1>3 DEF StopsWaiting, Accounted, Elsewhere
<1> QED BY <1>1, <1>2, <1>3

(* Whoever drops a request, drops its attempt in the dialog or finds it    *)
(* overtaken, cancels it.                                                  *)
LEMMA OrphanStep ==
  ASSUME TypesInv, CourseInv, OrphanInv, [SignInNext]_signVars, NEW b \in Attempts
  PROVE  Answerable(b)' => Accounted(b)'
<1>a. Answerable(b) => Accounted(b)
  BY DEF OrphanInv
<1>b. Sound(b)
  BY DEF CourseInv
<1>c. native.pending \in {None, native.client} /\ b # None
  BY Numbers DEF TypesInv
<1>1. ASSUME Open
      PROVE  Answerable(b)' => Accounted(b)'
  BY <1>1, OpenEffect, <1>a, <1>c, Numbers DEF Answerable, Accounted, Elsewhere, Expired,
        KeepsWaiting, StopsWaiting, CancelsWaiting
<1>2. ASSUME OpenForBilling
      PROVE  Answerable(b)' => Accounted(b)'
  BY <1>2, OpenForBillingEffect, <1>a, <1>c, Numbers DEF Answerable, Accounted, Elsewhere, Expired,
        KeepsWaiting, StopsWaiting, CancelsWaiting
<1>3. ASSUME Close
      PROVE  Answerable(b)' => Accounted(b)'
  <2>1. /\ UNCHANGED <<start, native, sent, left, session, grant, expired>>
        /\ KeepsWaiting \/ CancelsWaiting
    BY <1>3, CloseEffect
  <2>2. Accounted(b) => Accounted(b)'
    BY <2>1, WaitingAccounted
  <2> QED BY <1>a, <2>1, <2>2 DEF Answerable, Expired
<1>4. ASSUME ShowPlan
      PROVE  Answerable(b)' => Accounted(b)'
  BY <1>4, ShowPlanEffect, <1>a, <1>c, Numbers DEF Answerable, Accounted, Elsewhere, Expired,
        KeepsWaiting, StopsWaiting, CancelsWaiting
<1>5. ASSUME ClickCancel
      PROVE  Answerable(b)' => Accounted(b)'
  <2>1. /\ UNCHANGED <<start, native, sent, left, session, grant, expired>>
        /\ cancels' = cancels \cup {[id |-> dialog.ref, by |-> dialog.mount, at |-> "call"]}
    BY <1>5, ClickCancelEffect
  <2>2. \E c \in cancels' : c.id = dialog.ref /\ c.at = "call"
    <3>1. [id |-> dialog.ref, by |-> dialog.mount, at |-> "call"] \in cancels'
      BY <2>1
    <3> QED BY <3>1
  <2>3. \A c \in cancels : c \in cancels'
    BY <2>1
  <2> QED BY <1>a, <2>1, <2>2, <2>3 DEF Answerable, Expired, Accounted, Elsewhere
<1>6. ASSUME Retry
      PROVE  Answerable(b)' => Accounted(b)'
  BY <1>6, RetryEffect, <1>a, <1>c, Numbers DEF Answerable, Accounted, Elsewhere, Expired,
        KeepsWaiting, StopsWaiting, CancelsWaiting
<1>7. ASSUME RequireLogin
      PROVE  Answerable(b)' => Accounted(b)'
  BY <1>7, RequireLoginEffect, <1>a, <1>c, Numbers DEF Answerable, Accounted, Elsewhere, Expired,
        KeepsWaiting, StopsWaiting, CancelsWaiting
<1>8. ASSUME Rename
      PROVE  Answerable(b)' => Accounted(b)'
  BY <1>8, RenameEffect, <1>a, <1>c, Numbers DEF Answerable, Accounted, Elsewhere, Expired,
        KeepsWaiting, StopsWaiting, CancelsWaiting
<1>9. ASSUME RenameReturns
      PROVE  Answerable(b)' => Accounted(b)'
  <2>1. /\ UNCHANGED <<start, native, sent, left, session, grant, expired>>
        /\ KeepsWaiting \/ CancelsWaiting
    BY <1>9, RenameReturnsEffect
  <2>2. Accounted(b) => Accounted(b)'
    BY <2>1, WaitingAccounted
  <2> QED BY <1>a, <2>1, <2>2 DEF Answerable, Expired
<1>10. ASSUME LoadReturns
       PROVE  Answerable(b)' => Accounted(b)'
  BY <1>10, LoadReturnsEffect, <1>a, <1>c, Numbers DEF Answerable, Accounted, Elsewhere, Expired,
        KeepsWaiting, StopsWaiting, CancelsWaiting
<1>11. ASSUME NEW a \in Attempts, Start(a)
       PROVE  Answerable(b)' => Accounted(b)'
  <2>1. /\ UNCHANGED <<native, sent, left, session, grant, expired, cancels>>
        /\ belongs[a] = 0 /\ dialog.ref = None /\ \A x \in Attempts \ {a} : start'[x] = start[x]
    BY <1>11, StartEffect
  <2>2. b = a => grant[b] = "none"
    BY <1>b, <2>1 DEF Sound
  <2>3. b # a => start'[b] = start[b]
    BY <2>1
  <2> QED BY <1>a, <1>c, <2>1, <2>2, <2>3 DEF Answerable, Expired, Accounted, Elsewhere
<1>12. ASSUME NEW a \in Attempts, StartReturns(a)
       PROVE  Answerable(b)' => Accounted(b)'
  <2>1. /\ UNCHANGED <<native, sent, left, session, grant, expired>>
        /\ \A x \in Attempts \ {a} : start'[x] = start[x]
    BY <1>12, StartReturnsEffect
  <2>2. \/ dialog.ref = a /\ start[a].at = "ok" /\ dialog'.ref = a /\ cancels' = cancels
        \/ /\ dialog.ref # a
           /\ start[a].at \in {"ok", "error"}
           /\ dialog' = dialog
           /\ cancels' = cancels \cup Unasked({a})
        \/ dialog.ref = a /\ start[a].at = "error" /\ cancels' = cancels \cup Unasked({a})
    BY <1>12, StartReturnsEffect
  <2>3. CASE b = a
    <3>1. CASE dialog'.ref = a
      BY <1>a, <2>1, <2>2, <2>3, <3>1 DEF Answerable, Expired, Accounted
    <3>2. CASE cancels' = cancels \cup Unasked({a})
      <4>1. \E c \in cancels' : c.id = a /\ c.at = "call"
        BY <3>2, UnaskedSets
      <4>2. start[b].at # "answered"
        BY <2>2, <2>3
      <4> QED BY <1>a, <2>1, <2>3, <4>1, <4>2 DEF Answerable, Expired, Accounted
    <3> QED BY <2>2, <3>1, <3>2
  <2>4. CASE b # a
    <3>1. start'[b] = start[b]
      BY <2>1, <2>4
    <3>2. dialog.ref = b => dialog'.ref = b
      BY <2>2, <2>4
    <3>3. \A c \in cancels : c \in cancels'
      BY <2>2
    <3> QED BY <1>a, <2>1, <3>1, <3>2, <3>3 DEF Answerable, Expired, Accounted, Elsewhere
  <2> QED BY <2>3, <2>4
<1>13. ASSUME NEW a \in Attempts, PollBegins(a)
       PROVE  Answerable(b)' => Accounted(b)'
  BY <1>13, PollBeginsEffect, <1>a, <1>c, Numbers DEF Answerable, Accounted, Elsewhere, Expired
<1>14. ASSUME NEW a \in Attempts, PollReturns(a)
       PROVE  Answerable(b)' => Accounted(b)'
  <2>1. UNCHANGED <<start, native, sent, left, session, grant, expired>>
    BY <1>14, PollReturnsEffect
  <2>2. \/ KeepsWaiting \/ CancelsWaiting
        \/ StopsWaiting /\ poll[a] = "signedIn"
        \/ StopsWaiting /\ poll[a] = "expired" /\ dialog.ref = a
    BY <1>14, PollReturnsEffect
  <2>3. poll[a] = "signedIn" => session[a] # "none" /\ grant[a] = "redeemed"
    BY DEF CourseInv, Sound
  <2>4. poll[a] = "expired" => native.pending # a
    BY DEF CourseInv, Sound
  <2>5. poll[a] = "signedIn" /\ Answerable(b) => b # a /\ Elsewhere(b)
    BY <2>3, <1>14 DEF Answerable, Elsewhere
  <2>6. Answerable(b) =>
          \/ KeepsWaiting
          \/ CancelsWaiting
          \/ StopsWaiting /\ (dialog.ref = b => Elsewhere(b) \/ native.pending # b)
    BY <2>2, <2>4, <2>5
  <2>7. Accounted(b) /\ Answerable(b) => Accounted(b)'
    BY <2>1, <2>6, WaitingAccounted
  <2> QED BY <1>a, <2>1, <2>7 DEF Answerable, Expired
<1>15. ASSUME NEW a \in Attempts, CountDown(a)
       PROVE  Answerable(b)' => Accounted(b)'
  <2>1. /\ UNCHANGED <<start, native, sent, left, session, grant, expired>>
        /\ KeepsWaiting \/ CancelsWaiting
    BY <1>15, CountDownEffect
  <2>2. Accounted(b) => Accounted(b)'
    BY <2>1, WaitingAccounted
  <2> QED BY <1>a, <2>1, <2>2 DEF Answerable, Expired
<1>16. ASSUME NEW c \in cancels, CancelReturns(c)
       PROVE  Answerable(b)' => Accounted(b)'
  BY <1>16, CancelReturnsEffect, <1>a, <1>c, Numbers DEF Answerable, Accounted, Elsewhere, Expired,
        KeepsWaiting, StopsWaiting, CancelsWaiting
<1>17. ASSUME NEW n \in Signouts, SignOut(n)
       PROVE  Answerable(b)' => Accounted(b)'
  BY <1>17, SignOutEffect, <1>a, <1>c, Numbers DEF Answerable, Accounted, Elsewhere, Expired,
        KeepsWaiting, StopsWaiting, CancelsWaiting
<1>18. ASSUME NEW n \in Signouts, LogoutReturns(n)
       PROVE  Answerable(b)' => Accounted(b)'
  <2>1. /\ UNCHANGED <<start, native, sent, left, session, grant, expired>>
        /\ KeepsWaiting \/ CancelsWaiting
    BY <1>18, LogoutReturnsEffect
  <2>2. Accounted(b) => Accounted(b)'
    BY <2>1, WaitingAccounted
  <2> QED BY <1>a, <2>1, <2>2 DEF Answerable, Expired
<1>19. ASSUME NEW a \in Attempts, StartLock(a), UNCHANGED dialogVars
       PROVE  Answerable(b)' => Accounted(b)'
  BY <1>19, StartLockEffect, <1>a, <1>c, Numbers DEF Answerable, Accounted, Elsewhere, Expired
<1>20. ASSUME NEW a \in Attempts, StartPost(a), UNCHANGED dialogVars
       PROVE  Answerable(b)' => Accounted(b)'
  <2>1. /\ UNCHANGED <<native, sent, session, expired, dialog, cancels>>
        /\ left.lost \subseteq left'.lost
        /\ start[a].at = "post" /\ start'[a].at \in {"answered", "failed"}
        /\ grant'[a] = "pending" \/ grant'[a] = grant[a]
        /\ grant'[a] = "pending" =>
             start'[a].at = "answered" \/ <<"cancel", a>> \in left'.lost \/ grant[a] = "pending"
    BY <1>20, StartPostEffect
  <2>2. b # a => start'[b] = start[b] /\ grant'[b] = grant[b]
    BY <1>20, StartPostEffect
  <2>3. CASE b = a
    <3>1. grant[b] = "none"
      BY <1>b, <2>1, <2>3 DEF Sound
    <3> QED BY <2>1, <2>3, <3>1 DEF Answerable, Accounted
  <2>4. CASE b # a
    BY <1>a, <2>1, <2>2, <2>4 DEF Answerable, Expired, Accounted, Elsewhere
  <2> QED BY <2>3, <2>4
<1>21. ASSUME NEW a \in Attempts, StartFails(a), UNCHANGED dialogVars
       PROVE  Answerable(b)' => Accounted(b)'
  <2>1. /\ UNCHANGED <<sent, session, expired, dialog, cancels, left, grant>>
        /\ start[a].at = "failed" /\ (native' = native \/ native.client = a)
        /\ \A x \in Attempts \ {a} : start'[x] = start[x]
    BY <1>21, StartFailsEffect
  <2>2. b = a => native.pending # b
    BY <1>b, <2>1 DEF Sound
  <2>3. b # a => start'[b] = start[b] /\ (native.pending = b => native' = native)
    BY <1>c, <2>1
  <2> QED BY <1>a, <2>1, <2>2, <2>3 DEF Answerable, Expired, Accounted, Elsewhere
<1>22. ASSUME NEW a \in Attempts, StartInstall(a), UNCHANGED dialogVars
       PROVE  Answerable(b)' => Accounted(b)'
  BY <1>22, StartInstallEffect, <1>a, <1>c, Numbers DEF Answerable, Accounted, Elsewhere, Expired
<1>23. ASSUME NEW a \in Attempts, PollLock(a), UNCHANGED dialogVars
       PROVE  Answerable(b)' => Accounted(b)'
  BY <1>23, PollLockEffect, <1>a, <1>c, Numbers DEF Answerable, Accounted, Elsewhere, Expired
<1>24. ASSUME NEW a \in Attempts, PollPost(a), UNCHANGED dialogVars
       PROVE  Answerable(b)' => Accounted(b)'
  <2>1. /\ UNCHANGED <<native, sent, expired, dialog, cancels, start>>
        /\ left.lost \subseteq left'.lost
        /\ grant'[a] = grant[a] \/ grant'[a] = "redeemed"
        /\ \A x \in Attempts \ {a} : grant'[x] = grant[x]
        /\ session'[a] = "live" \/ session'[a] = session[a]
    BY <1>24, PollPostEffect
  <2>2. \A x \in Attempts \ {a} : session'[x] = session[x]
    BY <1>24, PollPostEffect, Numbers
  <2>3. Answerable(b)' => Answerable(b)
    BY <2>1 DEF Answerable, Expired
  <2>4. Elsewhere(b) => Elsewhere(b)'
    BY <2>1, <2>2 DEF Elsewhere
  <2> QED BY <1>a, <2>1, <2>3, <2>4 DEF Accounted
<1>25. ASSUME NEW a \in Attempts, PollAgain(a), UNCHANGED dialogVars
       PROVE  Answerable(b)' => Accounted(b)'
  BY <1>25, PollAgainEffect, <1>a, <1>c, Numbers DEF Answerable, Accounted, Elsewhere, Expired
<1>26. ASSUME NEW a \in Attempts, PollGone(a), UNCHANGED dialogVars
       PROVE  Answerable(b)' => Accounted(b)'
  <2>1. /\ UNCHANGED <<sent, session, expired, dialog, cancels, left, grant, start>>
        /\ poll[a] = "gone" /\ (native' = native \/ native.pending = a)
    BY <1>26, PollGoneEffect
  <2>2. Answerable(b) => b # a
    BY <1>b, <2>1 DEF Sound, Answerable
  <2> QED BY <1>a, <2>1, <2>2 DEF Answerable, Expired, Accounted, Elsewhere
<1>27. ASSUME NEW a \in Attempts, PollCommit(a), UNCHANGED dialogVars
       PROVE  Answerable(b)' => Accounted(b)'
  <2>1. /\ UNCHANGED <<session, expired, dialog, cancels, grant, start>> /\ left'.lost = left.lost
        /\ poll[a] = "complete" /\ (native'.pending = native.pending \/ native.pending = a)
        /\ sent \subseteq sent'
    BY <1>27, PollCommitEffect
  <2>2. Answerable(b) => b # a
    BY <1>b, <2>1 DEF Sound, Answerable
  <2> QED BY <1>a, <2>1, <2>2 DEF Answerable, Expired, Accounted, Elsewhere
<1>28. ASSUME NEW c \in cancels, CancelLock(c), UNCHANGED dialogVars
       PROVE  Answerable(b)' => Accounted(b)'
  BY <1>28, CancelLockEffect, <1>a, <1>c, Numbers DEF Answerable, Accounted, Elsewhere, Expired
<1>29. ASSUME NEW n \in Signouts, LogoutRead(n), UNCHANGED dialogVars
       PROVE  Answerable(b)' => Accounted(b)'
  BY <1>29, LogoutReadEffect, <1>a, <1>c, Numbers DEF Answerable, Accounted, Elsewhere, Expired
<1>30. ASSUME NEW n \in Signouts, LogoutClear(n), UNCHANGED dialogVars
       PROVE  Answerable(b)' => Accounted(b)'
  BY <1>30, LogoutClearEffect, <1>a, <1>c, Numbers DEF Answerable, Accounted, Elsewhere, Expired
<1>31. ASSUME LoadAsk, UNCHANGED dialogVars
       PROVE  Answerable(b)' => Accounted(b)'
  BY <1>31, LoadAskEffect, <1>a, <1>c, Numbers DEF Answerable, Accounted, Elsewhere, Expired
<1>32. ASSUME LoadClear, UNCHANGED dialogVars
       PROVE  Answerable(b)' => Accounted(b)'
  BY <1>32, LoadClearEffect, <1>a, <1>c, Numbers DEF Answerable, Accounted, Elsewhere, Expired
<1>33. ASSUME RenameAsk, UNCHANGED dialogVars
       PROVE  Answerable(b)' => Accounted(b)'
  BY <1>33, RenameAskEffect, <1>a, <1>c, Numbers DEF Answerable, Accounted, Elsewhere, Expired
<1>34. ASSUME NEW m \in sent, Receive(m), UNCHANGED dialogVars
       PROVE  Answerable(b)' => Accounted(b)'
  BY <1>34, ReceiveEffect, <1>a, <1>c, Numbers DEF Answerable, Accounted, Elsewhere, Expired
<1>35. ASSUME NEW m \in sent, Lose(m), UNCHANGED dialogVars
       PROVE  Answerable(b)' => Accounted(b)'
  BY <1>35, LoseEffect, <1>a, <1>c, Numbers DEF Answerable, Accounted, Elsewhere, Expired
<1>36. ASSUME EndPast, UNCHANGED dialogVars
       PROVE  Answerable(b)' => Accounted(b)'
  BY <1>36, EndPastEffect, <1>a, <1>c, Numbers DEF Answerable, Accounted, Elsewhere, Expired
<1>37. ASSUME NEW a \in Attempts, Approve(a), UNCHANGED dialogVars
       PROVE  Answerable(b)' => Accounted(b)'
  BY <1>37, ApproveEffect, <1>a, <1>c, Numbers DEF Answerable, Accounted, Elsewhere, Expired
<1>38. ASSUME NEW a \in Attempts, Expire(a), UNCHANGED dialogVars
       PROVE  Answerable(b)' => Accounted(b)'
  BY <1>38, ExpireEffect, <1>a, <1>c, Numbers DEF Answerable, Accounted, Elsewhere, Expired
<1>39. ASSUME UNCHANGED <<dialog, start, native, expired, grant, sent, cancels, session, left>>
       PROVE  Answerable(b)' => Accounted(b)'
  BY <1>39, <1>a, <1>c DEF Answerable, Accounted, Elsewhere, Expired
<1> QED
  BY <1>1, <1>2, <1>3, <1>4, <1>5, <1>6, <1>7, <1>8, <1>9, <1>10, <1>11, <1>12, <1>13, <1>14, <1>15,
     <1>16, <1>17, <1>18, <1>19, <1>20, <1>21, <1>22, <1>23, <1>24, <1>25, <1>26, <1>27, <1>28,
     <1>29, <1>30, <1>31, <1>32, <1>33, <1>34, <1>35, <1>36, <1>37, <1>38, <1>39 DEF
        SignInNext, DialogNext, NativeNext, CommandStep, signVars, nativeVars, dialogVars, LoadRead,
        RenameRead, ShowSettings, CloseSettings

(* Every step of the application is one of these, or the panel's alone.    *)
LEMMA AppSteps ==
  ASSUME [AppNext]_appVars
  PROVE  [SignInNext]_signVars
BY DEF AppNext, appVars

(***************************************************************************)
(* The initial states.                                                     *)
(***************************************************************************)
(* The types hold at the start ...                                         *)
LEMMA InitTypes ==
  ASSUME SignInInit
  PROVE  TypesInv
<1>1. use \in Usages /\ use.dialogs \in Nat
  BY SignInAssumption DEF SignInInit, NativeInit, Usages
<1>2. None # Past /\ None \in Tokens /\ Past \in Tokens /\ keyring \in Tokens
  <2>1. None # Past
    BY SignInAssumption DEF Past
  <2> QED BY <2>1 DEF SignInInit, NativeInit, Tokens, Sessions
<1>3. session \in Lives
  BY DEF SignInInit, NativeInit, Lives
<1>4. grant \in Grants /\ start \in Starts /\ poll \in Polls /\ belongs \in Mounts
  BY DEF SignInInit, NativeInit, Grants, GrantStates, Starts, StartPlaces, Polls, PollPlaces, Mounts
<1>5. logout \in Logouts /\ load \in Loads /\ rename \in Renames
  BY <1>2 DEF SignInInit, NativeInit, Logouts, LogoutPlaces, Loads, LoadPlaces, Renames,
     RenamePlaces
<1>6. native \in Natives /\ left \in Traces
  BY DEF SignInInit, NativeInit, Natives, Traces, Losses
<1>7. dialog \in Dialogs /\ app \in Apps
  BY <1>2 DEF SignInInit, Closed, Dialogs, Apps
<1>8. expired \subseteq Attempts /\ cancels \subseteq Calls /\ sent \subseteq Messages
  BY DEF SignInInit, NativeInit
<1>9. /\ native.pending = None
      /\ dialog.mount <= use.dialogs
      /\ dialog.ref = None /\ dialog.started = FALSE /\ ~dialog.open
  BY <1>1 DEF SignInInit, NativeInit, Closed
<1>10. load.at \in {"call", "done"} /\ rename.at = "idle"
  BY DEF SignInInit, NativeInit
<1> QED
  BY <1>1, <1>2, <1>3, <1>4, <1>5, <1>6, <1>7, <1>8, <1>9, <1>10 DEF TypesInv, StateTypes

(* ... where nothing has begun ...                                         *)
LEMMA InitCourse ==
  ASSUME SignInInit
  PROVE  CourseInv
<1>1. None \notin Attempts /\ Past \notin Attempts
  <2>1. Attempts \subseteq Nat \ {0} /\ None \notin Nat
    BY SignInAssumption
  <2> QED BY <2>1 DEF Past
<1>2. ASSUME NEW a \in Attempts
      PROVE  Sound(a)
  <2>1. start[a].at = "idle" /\ start[a].generation = 0 /\ poll[a] = "idle" /\ grant[a] = "none"
    BY DEF SignInInit, NativeInit
  <2>2. native.generation = 0 /\ native.pending = None /\ sent = {} /\ keyring \in {None, Past}
    BY DEF SignInInit, NativeInit
  <2> QED BY <1>1, <2>1, <2>2 DEF Sound
<1>3. WaitsSoundly
  BY DEF SignInInit, NativeInit, Closed, WaitsSoundly
<1>4. LoadsAlone
  <2>1. load.at # "done" => load.at = "call" /\ ~app.loaded
    BY DEF SignInInit, NativeInit
  <2>2. dialog.ref = None /\ \A a \in Attempts : start[a].at = "idle" /\ poll[a] = "idle"
    BY DEF SignInInit, NativeInit, Closed
  <2> QED BY <2>1, <2>2 DEF LoadsAlone
<1> QED BY <1>2, <1>3, <1>4 DEF CourseInv

(* ... and no session, grant or attempt is of concern.                     *)
LEMMA InitRest ==
  ASSUME SignInInit
  PROVE  StrayInv /\ PanelTypes /\ AsksSoundly /\ ShownInv /\ BackedInv /\ OrphanInv
<1>1. Past \notin Attempts /\ None \notin Attempts
  <2>1. Attempts \subseteq Nat \ {0} /\ None \notin Nat
    BY SignInAssumption
  <2> QED BY <2>1 DEF Past
<1>2. StrayInv
  <2>1. \A n \in Signouts : logout[n].at = "idle"
    BY DEF SignInInit, NativeInit
  <2>2. ASSUME NEW t \in Sessions, session[t] = "live"
        PROVE  keyring = t
    BY <2>2 DEF SignInInit, NativeInit
  <2> QED BY <2>1, <2>2 DEF StrayInv, Forgets, Kept
<1>3. ShownInv
  BY <1>1 DEF SignInInit, NativeInit, ShownInv
<1>4. BackedInv
  BY <1>1 DEF SignInInit, Closed, BackedInv, Awaited
<1>5. OrphanInv
  <2>1. \A a \in Attempts : grant[a] = "none"
    BY DEF SignInInit, NativeInit
  <2> QED BY <2>1 DEF OrphanInv, Answerable
<1>6. PanelTypes /\ AsksSoundly
  <2>1. panel = [place |-> "none", at |-> "none", token |-> None, doubted |-> {}]
    BY DEF SignInInit
  <2>2. dialog.open = FALSE /\ app.settings = FALSE
    BY DEF SignInInit, Closed
  <2> QED BY <2>1, <2>2 DEF PanelTypes, AsksSoundly, Panels, Tokens, Place
<1> QED BY <1>2, <1>3, <1>4, <1>5, <1>6

(***************************************************************************)
(* The theorems.                                                           *)
(***************************************************************************)
(* In every reachable state each variable has its type, a request held by  *)
(* the mutex is the current attempt's (account_auth.rs:839), and a closed  *)
(* dialog waits for nothing.                                               *)
THEOREM SignInTypes == SignInSpec => []TypesInv
<1>1. SignInInit => TypesInv
  BY InitTypes
<1>2. TypesInv /\ [AppNext]_appVars => TypesInv'
  BY TypesStep, AppSteps
<1> QED BY <1>1, <1>2, PTL DEF SignInSpec

(* However the commands cross, an attempt is polled only while the dialog  *)
(* has its result, the mutex holds only requests that the service has      *)
(* made, and nobody signs in or out before the stored session is loaded    *)
(* (account_auth.rs:704-760, App.tsx:187-192).                      *)
THEOREM SignInCourse == SignInSpec => []CourseInv
<1>1. SignInInit => CourseInv
  BY InitCourse
<1>2. TypesInv /\ CourseInv /\ [AppNext]_appVars => CourseInv'
  <2> SUFFICES ASSUME TypesInv, CourseInv, [AppNext]_appVars
               PROVE  CourseInv'
    OBVIOUS
  <2>0. [SignInNext]_signVars
    BY AppSteps
  <2>1. ASSUME NEW a \in Attempts
        PROVE  Sound(a)'
    BY <2>0, SoundStep
  <2> QED BY <2>0, <2>1, WaitsStep, LoadsStep DEF CourseInv
<1> QED BY <1>1, <1>2, SignInTypes, PTL DEF SignInSpec

(* A session that the service keeps alive is never left behind unseen, for *)
(* any number of dialogs, attempts and sign-outs                           *)
(* (account_auth.rs:1094-1113).                                            *)
THEOREM NoStray == SignInSpec => []NoStraySession
<1>1. SignInInit => StrayInv
  BY InitRest
<1>2. TypesInv /\ CourseInv /\ StrayInv /\ [AppNext]_appVars => StrayInv'
  <2> SUFFICES ASSUME TypesInv, CourseInv, StrayInv, [AppNext]_appVars
               PROVE  StrayInv'
    OBVIOUS
  <2>0. [SignInNext]_signVars
    BY AppSteps
  <2>1. ASSUME NEW n \in Signouts
        PROVE  Forgets(n)'
    BY <2>0, ForgetsStep
  <2>2. ASSUME NEW t \in Sessions
        PROVE  session'[t] = "live" => Kept(t)'
    BY <2>0, KeptStep
  <2> QED BY <2>1, <2>2 DEF StrayInv
<1>3. StrayInv => NoStraySession
  BY DEF StrayInv, Kept, NoStraySession
<1> QED BY <1>1, <1>2, <1>3, SignInTypes, SignInCourse, PTL DEF SignInSpec

(* However panels ask for a sign-in, what they were told holds of the      *)
(* stored session unless it was stored after they began to ask             *)
(* (account_auth.rs:1628-1655, SupporterBenefitsPanel.tsx:45, :63-66).     *)
THEOREM AsksSound == SignInSpec => [](PanelTypes /\ AsksSoundly)
<1>1. SignInInit => PanelTypes /\ AsksSoundly
  BY InitRest
<1>2. /\ TypesInv /\ TypesInv' /\ CourseInv /\ PanelTypes /\ AsksSoundly /\ [AppNext]_appVars
      => (PanelTypes /\ AsksSoundly)'
  BY PanelStep
<1> QED BY <1>1, <1>2, SignInTypes, SignInCourse, PTL DEF SignInSpec

(* The variables have the types that the run checks.                       *)
THEOREM SignInTyped == SignInSpec => []SignInTypeOK
<1>1. TypesInv /\ PanelTypes => SignInTypeOK
  <2> SUFFICES ASSUME TypesInv, PanelTypes
               PROVE  SignInTypeOK
    OBVIOUS
  <2>1. /\ grant \in Grants /\ session \in Lives /\ expired \subseteq Attempts
        /\ native \in Natives /\ native.pending \in {None, native.client}
        /\ keyring \in Tokens /\ app \in Apps
    BY DEF TypesInv, StateTypes
  <2>2. dialog \in Dialogs /\ dialog.mount <= use.dialogs /\ use.dialogs \in Nat
    BY DEF TypesInv, StateTypes, Usages
  <2>3. dialog.mount \in 0..use.dialogs
    BY <2>2 DEF Dialogs
  <2>4. dialog \in [mount : 0..use.dialogs, open : BOOLEAN, ref : Attempts \cup {None},
                    started : BOOLEAN, paused : BOOLEAN,
                    view : {"checking", "login", "profile", "plan"}, back : {"login", "profile"},
                    to : {"profile", "plan"}, busy : BOOLEAN]
    BY <2>2, <2>3 DEF Dialogs
  <2>5. /\ panel.place = Place /\ panel.token \in Tokens /\ panel.doubted \subseteq Sessions
        /\ panel.at \in IF Place = "none" THEN {"none"}
                        ELSE {"call", "ask", "recheck", "in", "out", "failed"}
    BY DEF PanelTypes, Panels
  <2> QED BY <2>1, <2>4, <2>5 DEF SignInTypeOK, Grants, GrantStates, Lives, Natives, Tokens, Apps
<1> QED BY <1>1, SignInTypes, AsksSound, PTL

(* No sign-in is completed behind the user's back: at rest, a session made *)
(* by an attempt and stored is shown, also when the dialog that began it   *)
(* was closed (AccountDialog.tsx:267-277), unless a sign-out or a panel's  *)
(* question crossed its storing.                                           *)
THEOREM SignedInShown == SignInSpec => []SignedInIsShown
<1>1. SignInInit => StrayInv /\ ShownInv
  BY InitRest
<1>2. /\ TypesInv /\ TypesInv' /\ CourseInv /\ PanelTypes /\ AsksSoundly /\ StrayInv /\ ShownInv
      /\ [AppNext]_appVars
      => StrayInv' /\ ShownInv'
  <2> SUFFICES ASSUME TypesInv, TypesInv', CourseInv, PanelTypes, AsksSoundly, StrayInv, ShownInv,
                      [AppNext]_appVars
               PROVE  StrayInv' /\ ShownInv'
    OBVIOUS
  <2>0. [SignInNext]_signVars
    BY AppSteps
  <2>1. ASSUME NEW n \in Signouts
        PROVE  Forgets(n)'
    BY <2>0, ForgetsStep
  <2>2. ASSUME NEW t \in Sessions
        PROVE  session'[t] = "live" => Kept(t)'
    BY <2>0, KeptStep
  <2>3. panel.doubted \subseteq panel'.doubted
    BY PanelStep
  <2>4. ShownInv'
    BY <2>0, <2>3, ShownStep
  <2> QED BY <2>1, <2>2, <2>4 DEF StrayInv
<1>3. ShownInv => SignedInIsShown
  BY DEF ShownInv, SignedInIsShown, Shows, AtRest, Settled
<1> QED BY <1>1, <1>2, <1>3, SignInTypes, SignInCourse, AsksSound, PTL DEF SignInSpec

(* What the dialog says it waits for can still be answered: commands of    *)
(* earlier dialogs that arrive late never take the request from it         *)
(* (account_auth.rs:704, :869, :1131).                                     *)
THEOREM WaitingBacked == SignInSpec => []WaitingIsBacked
<1>1. SignInInit => BackedInv
  BY InitRest
<1>2. TypesInv /\ CourseInv /\ BackedInv /\ [AppNext]_appVars => BackedInv'
  <2> SUFFICES ASSUME TypesInv, CourseInv, BackedInv, [AppNext]_appVars
               PROVE  BackedInv'
    OBVIOUS
  <2>0. [SignInNext]_signVars
    BY AppSteps
  <2>1. ASSUME NEW a \in Attempts
        PROVE  Awaited(a)' => Backed(a)'
    BY <2>0, BackedStep
  <2> QED BY <2>1 DEF BackedInv
<1>3. BackedInv => WaitingIsBacked
  BY DEF BackedInv, Awaited, Backed, WaitingIsBacked
<1> QED BY <1>1, <1>2, <1>3, SignInTypes, SignInCourse, PTL DEF SignInSpec

(* No request that a browser could still approve is left behind: the       *)
(* application holds it and the dialog waits for it, or it is cancelled,   *)
(* or the message that cancels it was lost (AccountDialog.tsx:75, :161 and *)
(* :179, account_auth.rs:754 and :869).                                    *)
THEOREM NoOrphan == SignInSpec => []NoOrphanGrant
<1>1. SignInInit => OrphanInv
  BY InitRest
<1>2. TypesInv /\ CourseInv /\ OrphanInv /\ [AppNext]_appVars => OrphanInv'
  <2> SUFFICES ASSUME TypesInv, CourseInv, OrphanInv, [AppNext]_appVars
               PROVE  OrphanInv'
    OBVIOUS
  <2>0. [SignInNext]_signVars
    BY AppSteps
  <2>1. ASSUME NEW a \in Attempts
        PROVE  Answerable(a)' => Accounted(a)'
    BY <2>0, OrphanStep
  <2> QED BY <2>1 DEF OrphanInv
<1>3. OrphanInv => NoOrphanGrant
  <2> SUFFICES ASSUME OrphanInv,
                      NEW a \in Attempts, Settled(a), Answerable(a)
               PROVE  \/ native.pending = a /\ (dialog.ref = a \/ Elsewhere(a))
                      \/ <<"cancel", a>> \in left.lost
    BY DEF NoOrphanGrant, Answerable, Elsewhere
  <2>1. Accounted(a)
    BY DEF OrphanInv
  <2>2. start[a].at \notin {"answered", "ok"} /\ <<"cancel", a>> \notin sent
    BY DEF Settled
  <2>3. ~ \E c \in cancels : c.id = a /\ c.at = "call"
    BY DEF Settled
  <2> QED BY <2>1, <2>2, <2>3 DEF Accounted
<1> QED BY <1>1, <1>2, <1>3, SignInTypes, SignInCourse, PTL DEF SignInSpec
===============================================================================
