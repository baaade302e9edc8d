# TomoNode: models of the desktop application and its cloud service

TomoNode is a Tauri desktop application (Rust, `src/src-tauri/src`) with a React
frontend (`src/src`), an account and billing service on Cloudflare
(`src/cloudflare/account-api/src`), a website and a tool for its maintainers.  A
user registers Minecraft (Java, Bedrock) and Palworld servers with it, and the
application starts and stops them as child processes, watches them, backs them
up, publishes them to friends through a tunnel, and notifies a Discord channel.

Errors cost most in three places, and these are modelled.  A child process that
nobody owns keeps a port and a world open with no way to stop it, and a backup or
a restore while the server runs damages the world.  A sign-in that survives a
password reset, or a code used twice, gives an account away.  A webhook that
arrives late or twice must not bring back a subscription that ended, nor two
clicks collect twice.

## The system's components

`cmd` stands for a Tauri command: each runs as a task of its own on the
runtime's thread pool, so commands overlap unless something excludes them.

| component | state | operations | what is hard |
|---|---|---|---|
| Process registries (`process.rs`) | `ProcessMap` and `StoppingMap`, two mutexes over child entries; per child a port, a cached status, an in-flight mark | `start`, `stop` (graceful, forced), `is_running`, `is_stopping`, `is_busy`, `runtime_status`, `send_command` | a graceful stop is three critical sections and a 45 s poll, between which everything else runs; lookups reap; the ping runs outside the locks |
| Server commands (`lib.rs`) | one asynchronous mutex per server (`ServerOperationCoordinator`), `stop_operations` | `start_server`, `stop_server`, `restart_server`, `delete_server`, `create_backup`, `restore_backup`, `update_server_settings`, file and extension commands | some take the operation lock, some only look |
| Automation monitor (`lib.rs:4764`) | previous states, idle times | every 10 s: status of all servers, notifications, auto-stop | acts on snapshots; takes no operation lock |
| Leaving (`lib.rs:105,218,344`, `app_update.rs`) | `allow_app_exit`, `stop_operations`, exit guard | `quit_app`, `install_app_update`, `ExitRequested` | the look at the registries and the exit are apart |
| Discord notifications (`discord_notifications.rs`) | configurations, lifecycle states, queue, results, recent events, locale; `dispatch_lock` | save, enable, disable, delete, test; `observe`; the worker | a job may outlive the destination it was queued for |
| Launch observer, quarantine (`launch_observer.rs`, `quarantine.rs`, `mod_management.rs`) | the launch attempt and its evidence; moved mods and their records | observe a line, readiness, exit; move, restore, commit | three sources of evidence in any order; moves that crash half-way |
| Backups (`backup.rs`, `protected_data.rs`, `world_maintenance.rs`) | archives and manifests; staging and previous directories | create, restore, prune | renames with a crash in between |
| Public access (`tunnel.rs`, `invite.rs`, `playit_installer.rs`, `crossplay.rs`) | tunnel sessions per server, publications | start, stop, status, publish, unpublish | clean-up threads against the next start |
| Store (`store.rs`) | SQLite behind one mutex | register, update, delete, settings | every operation is one transaction |
| Membership, account session (`membership.rs`, `account_auth.rs`) | signed lease, cached view, session secret, one pending sign-in (`BrowserAuthState`) | refresh, clear, sign in through the browser, log out | commands of an earlier attempt arrive after a later one |
| Account dialog (`AccountDialog.tsx`, `App.tsx`, `SupporterBenefitsPanel.tsx`) | the attempt it waits for, its view; the profile the application shows; what the plan panel was told of the sign-in | open, close, start, cancel, poll, sign out, ask for a sign-in | callbacks of a closed dialog run all the same; the panel acts on an answer that may be old |
| Account service (`worker.ts`, `web-session.ts`) | D1 tables of accounts, codes, challenges, proofs, browser requests, address changes, sessions; identities at Firebase | password login and its mailed code, reset, enrolment, codes of old versions, change of address, browser sign-in | every request is an invocation of its own with an await between any two statements; Firebase and D1 change one after the other |
| Billing (`billing.ts`) | copies of Stripe's subscriptions, one fence per subscription, processed events, a financial hold, one Checkout attempt per account | webhook, reconcile, checkout, portal | events late, twice, out of order; a job may die between any two statements |
| Palworld (`palworld.rs`) | none of its own | REST calls save, shutdown, metrics | the server may exit before it is stopped |
| Installation, import, migration; extensions and diagnosis; settings and players; support code; frontend; maintainers' tool; website | files | downloads, copies, validation, views | sequential I/O |

Interactions: commands and monitor call the registries; `start` tells the
lifecycle record of Discord, the launch observer and the log readers of a new
child; every stop ends in the withdrawal of the invitation and the tunnel;
`runtime_status` feeds the frontend, the monitor and Discord's `observe`; the
membership gates Discord's worker; the store says which servers exist.  The
dialog calls the commands of `account_auth.rs`, which call the account service;
`App` keeps the profile those commands return.  Billing asks the account service
who is signed in, and has tables of its own.

Properties that make them correct: *registries*: a live child is owned, once, for
one server, on one endpoint, and a reservation ends after its child; a status is
about the child the server has.  *Commands*: one operation per server, no file
work beside a live child, every command returns.  *Leaving*: no child survives
unseen.  *Discord*: nothing goes to a destination that was replaced, disabled or
deleted, and a deliberate stop is not told as a crash.  *Quarantine and backups*:
at every crash point the original or its copy is in place.  *Tunnel*: a session
ends with its server and never with the server's successor.  *Account*:
a code or a sign-in is used once, whoever is signed in showed what the account
now asks for, an address was verified before it is the account's.  *Billing*: the
copy of a subscription never goes back, an acknowledged event is not lost, one
Checkout session can be paid.  *Sign-in*: no request and no session is left behind
with the service, and the dialog shows what is the case.

## Modules

| module | models | extends |
|---|---|---|
| `ServerSlots` | what the registries promise: one slot per server | |
| `ProcessRegistry` | `process.rs`: the two registries, `start`, `stop`, the lookups | |
| `ProcessRegistry_proofs` | its theorems | `ProcessRegistry` |
| `StatusProbe`, `MCStatusProbe` | `runtime_status`; its bounds for TLC | `ProcessRegistry` |
| `ServerCommands` | the commands of `lib.rs` and the auto-stop | `ProcessRegistry` |
| `ServerCommands_proofs` | its theorems | `ServerCommands`, `ProcessRegistry_proofs` |
| `AppExit` | `quit_app`, `install_app_update`, the exit decision | `ServerCommands` |
| `StatusProbe_proofs` | its theorems | `StatusProbe`, `ProcessRegistry_proofs` |
| `DiscordNotifications` | the destinations, queue and worker of `discord_notifications.rs` | |
| `DiscordNotifications_proofs` | its theorems | `DiscordNotifications` |
| `AccountStore` | what all requests of `worker.ts` share: tables, Firebase's identities, sessions, a request | |
| `PasswordSignIn` | password login with a mailed code, password reset | `AccountStore` |
| `MailCodes` | sign-in of version 0.5.7, password enrolment | `PasswordSignIn` |
| `EmailChange` | change of address | `PasswordSignIn` |
| `BrowserSignIn` | sign-in of the application through the browser, service side | `AccountStore` |
| `AccountService` | all requests over the same tables, and their properties | the three above |
| `AccountService_proofs` | its theorems | `AccountService` |
| `BillingPromise` | what `billing.ts` promises of its copies | |
| `Billing` | webhook events, reconciliation, Checkout | |
| `Billing_proofs` | its theorems | `Billing` |
| `CloudService`, `MCCloud` | the Worker: account service and billing | `AccountService`, `Billing` |
| `CloudService_proofs` | that its parts are `AccountService` and `Billing` | `CloudService` |
| `NativeSignIn` | the commands of `account_auth.rs` against the service | |
| `SignInDialog`, `MCSignIn` | `AccountDialog.tsx` and the plan panel in `App.tsx` over those commands | `NativeSignIn` |
| `SignInDialog_proofs` | its theorems | `SignInDialog` |

### ProcessRegistry

`running` and `stopping` are `ProcessMap` and `StoppingMap`; a child is the number
of its launch, so that a server's next child is another one.  `alive` holds the
children whose `try_wait` returns `Ok(None)`, and `endpoint` their port and
transport.  `call[c]` is where a graceful `process::stop` future stands.

An action is one critical section.  The code takes the locks in the order
stopping, running, and holds both where it moves a child, so a section is atomic;
the graceful stop is `BeginStop`, `WriteStop`, and one of `PollStop`, `PollError`,
`StopDeadline`, `CancelStop` (the future is dropped at the sleep).  What the code
reaps on the way (`reap_finished`, `reap_finished_server`) is part of each action.
A failing `start` is `StartRefused` or, after `CreateProcess`,
`StartFailsAfterSpawn`; a failing forced stop is `ForceFails`.  A failed
`try_wait` while reaping keeps an entry, as one of a live child, and is not
modelled separately.

Data left out: log buffers, the job object, the launch arguments, `stdin` except
for whether the stop command can be written (`StdinBreaks`), time except for the
deadline, which may strike whenever a stop waits.

`ServerSlots` says what callers may rely on: a slot per server that only a launch
fills and only an exit vacates, never two slots of one child.  `ProcessRegistry`
implements it with `owner[s]` the entry of either registry.

### StatusProbe

`runtime_status` takes the locks up to six times and pings the server with none of
them held.  Each section is an action of a caller (`poll[w]`): the look at both
registries, the cached answer while another call probes, the ping, the section
that samples metrics, and the one that stores the result if the child is still
the one it probed.  `health` is what the ping and the launch observer would say
of a child and moves on its own.  Two witnesses are kept to judge an answer
"stopped" by: the owner the server had when the call began, and whether a stop
command that could not be written has put a child of the server back into the
running registry since (`putBack`, noted by `RegistryStep`).

### ServerCommands

`task[t]` is a command of the frontend with its phase; `Monitor` is the automation
monitor's auto-stop, which uses the same stop sections without the operation
lock; `opLock` is the lock of `ServerOperationCoordinator`, granted in any order
to a waiting command (it is a FIFO mutex in the code).  `create_backup`,
`restore_backup` and `update_server_settings` have one shape, "mutate";
`delete_server` is "delete"; the commands that look at `is_busy` without the lock
are `BeginEdit`/`FinishEdit`.  Preflight checks, REST calls and clean-ups appear
as steps that may fail.

### AppExit

The application is left when `ExitRequested` finds `allow_app_exit` set, whatever
stop is under way: `stop_operations` and the exit guard only decide what an exit
that is not authorised is told (`lib.rs:218-240`).  `quit_app` sets the flag when
both registries are empty, `install_app_update` after it looked at them, downloaded
and installed.

### DiscordNotifications

`secret` is the credential store and `cache` the map `configurations`; a
configuration is its generation, whether it is enabled and the session it is bound
to, and a new UUID is the least number nothing refers to.  `dispatch` is
`dispatch_lock`.  A command waits for it (`editor[e]`), begins a change (`write`),
which goes to the credential store and the cache (`Store`, or `StoreRefuses`) and
then clears what was told (`ForgetServer`), and returns.  `enqueue` takes no such
lock, and is three steps of a status call: the configuration (`Observe`), the
language and the last event (`Admit`), the queue (`Push`).  The worker looks at the
account, disables what is not entitled, takes a job and attempts it up to three
times, each under the lock.  `account` is the session if it is a supporter's: a
session that is not one is told from none only by what it may bind to (`Bindings`).
Left out: which events are selected, mentions and URLs except that they may be
invalid, and time, in that ten seconds or the 120 of a job may always have passed.

`DiscordSpec` reads a configuration at once.  `SlowReadSpec` adds what `config()`
does when a change is made between its read and its insert (`FetchSecret`,
`CacheSecret`); the run `discord_slow_read` is about it.

### The account service

A request is a record `req[r]`: an operation, the statement or call it stands
before, and what it has read.  An action is one D1 statement, one batch, or one
call of Firebase, so that requests interleave wherever the code awaits.  A request
that answers with an error, throws or is cut off takes no further step, and since
no step is fair, it may be cut off anywhere.  `db` holds the tables as sets of
records; conditions of an `UPDATE ... WHERE` or `DELETE ... RETURNING` are guards of
the action, and its "0 rows changed" branch the end of the request.  `firebase` is
external: identities with an address and a password, outstanding action codes,
and the addresses ever verified (`held`), modelled from the calls the code makes.
`clock` has a few ticks, since a request judges expiry by the moment it began.

Two variables are witnesses: `minted` pairs every grant with the requests that
made a session of it, and `revoked` counts how often the sessions of an account
were revoked; a password sign-in remembers the count at which the password was
shown (`shown`), and hands it on to the session that its session approves through
the browser.  `shown` is `None` for a session that no password was shown for: a code
of the old kind, a proof, or what such a session approves.

The answer of Firebase to an action code may name the identity the code was for, or
not: the code compares it when it is there (`worker.ts:1142`, `Trusted`), and the
comment above it says that the contract for a verified change returns an empty
object.  `CompleteApply` takes both answers.  `crossed` is a witness of the second: the
addresses that a callback completed for an account on an answer without a name while
the code was of another identity.

A behaviour begins with a past (`StoreInit`), which stands for what earlier requests
left.  Three of them are about more than one account or address.  "moved": the
identity was given another address on Firebase's page, where a code and a proof were
then mailed.  "reserved": `a1` is changing its address from `e1` to `e2`, and another
account, with the address `e3` and a session, may ask for a change too.  "crossed": two
such accounts whose identities have each other's address by now, which each had before
and took back with `recoverEmail`, while a link that changes the address of the other
identity from `e1` to `e2` is out; the tables do not show it.

The moment a request begins (`now`) and its first statement are one step.

Rate limits, the profile and the validation of requests are left out; a token, code
or hash is the request that drew it.

### Billing

A job is a delivery, a reconciliation of the account, or a Checkout; it runs
statement by statement, may die between any two, and the customer, Stripe and time
go on meanwhile.  `fences[s]` is the lease row that a job takes before it asks
Stripe about `s` and that guards its write.  `hosted` are Stripe's Checkout
sessions; Stripe honours the idempotency key by returning the first session made
for an attempt.  A webhook is delivered any number of times and in any order, also
after it was acknowledged (`events`).  `BillingPromise` says what the copy is worth
to its reader: it is a state the subscription was in, and never goes back.

### NativeSignIn and SignInDialog

`native` is `BrowserAuthState`; a command is a record or phase per attempt, and its
steps are cut where the code awaits or takes the mutex.  Requests whose result the
code ignores (cancel, revoke) are messages in `sent` that arrive at any time or are
lost; failures are bounded by `use.faults`.  A poll's answer may be lost: the service
has then deleted the request and answers 410 to the next poll, and the session it
made is one nobody received (`left.lost`).  `dialog` is the state and the refs of
`AccountDialog`; a callback of it is one step with the effects its render triggers,
and runs also when the dialog is gone.  `app` is the profile `App` keeps, and whether
its settings are open at the plan.

`panel` is the `SupporterBenefitsPanel` of the dialog or of the settings.  It asks
`account_billing_status` (`PanelAsks`), which reads the stored session, asks the service
and reads the stored session again, a step each (`PanelRead`, `PanelAsk`,
`PanelRecheck`), and answers that nobody is signed in when the second reading differs.
The panel keeps the answer while it is mounted, and `RequireLogin` and
`OpenForBilling` are enabled by what it was told, not by who is signed in by then.
`doubted` is a witness: the sessions stored after a question was begun whose answer is
still to come, or was "nobody".  The panel's other question, `useMembership`, is asked
and answered alike and is not a second variable.

The deadlines of service, application and dialog are one (`expired`): what runs
between them may as well run before or after.  The profile and security tabs are
one view, the avatar (whose callbacks are those of the display name) and a change
of language during a poll are left out.

## Runs

| run | question | bounds |
|---|---|---|
| `registry` | do the registries own every child, once, and implement `ServerSlots`; does every reservation end | 2 servers, 2 endpoints, 1 graceful stop at a time, 3 children |
| `status_probe` | is a status about the child the server has, is there one probe per child, is a server that lives told to be stopped | 1 server, 1 stop; 2 pollers and 2 children if nothing fails; 2 pollers and 1 child, or 1 poller and 2 children, if writes and launches may |
| `commands` | does the operation lock exclude, is file work apart from children, does every command return | 1 server, 2 commands, the monitor, 2 children |
| `discord` | is only the current destination sent to, is a revoked one disabled, does every delivery end | 1 server, 1 command at a time of every kind, no status calls, a queue of 1, 4 identifiers, 2 languages |
| `discord_observed` | the same safety, with status calls that queue jobs without the lock | 1 server, the commands that set the language and change a destination, 1 status call, a queue of 1, 4 identifiers |
| `cloud` | do codes, sign-ins and changes of address keep what they promise when requests interleave anywhere; do the copies of subscriptions, and Checkout | 2 accounts, passwords and identities, 3 addresses, up to 5 requests, 4 ticks; 2 subscriptions with 2 changes, 3 jobs |
| `sign_in` | do attempts, dialogs and sign-outs that cross leave nothing behind; does the dialog show what is the case | 2 attempts, 2 dialogs, 1 sign-out, 1 failure, 1 plan panel |
| `probe_stuck` | finding 1 | 1 server, 1 stop whose write may fail, 1 poller, 1 child |
| `mutation_while_running` | finding 2 | as `commands` |
| `cleanup_of_live_server` | finding 3 | as `commands` |
| `exit_leaves_child` | finding 4 | as `commands` |
| `discord_slow_read` | finding 5 | as `discord_observed` |

Why the bounds are enough.  The hazards of the registries are about a server whose
child is replaced (two children) and about an endpoint wanted by two servers (two
servers); a third child lets one server be restarted while the other runs.  Two
stops of one server are left to `commands` and `cleanup_of_live_server`, where the
second is the monitor's.  `status_probe` bounds failures, children and pollers
together (`MCBounds`): a failing write, or an error of the launch, meets either two
pollers or a child that is replaced, and without one both are there.  That no mark is left behind
is asked of the behaviours in which no write may fail (`WrittenMarkHasProbe`), since it
is not so otherwise (finding 1).
Operations on different servers meet only in the endpoint check and in the deletion of
a caller's own lock, so `commands` and `status_probe` keep one server and spend their
states on interleavings instead.  `Commands` leaves "mutate" and "forceRestart" out of the
run: they are "delete" without its last step and "restart" with `ForceStop`.  The
theorems have none of these bounds except that `MaxPid` is finite.

The worker handles one job at a time and servers meet only in the queue, so one
server and one place in the queue give every order of a job and a change of its
destination: a job queued, one being sent, and one about to be pushed.  The full
product of commands and status calls is too large, hence two runs.  An identifier
that is no longer referred to is used again, so neither run ever runs out of them
(a fifth gives neither a further state); "disable" is the change of a destination
that "enable" with a new mention makes.

`cloud` checks mixes of operations, not the product of all: an element of
`MCMixes` names the operations that touch the same rows, the past they need (an
account with a password, a reset under way, a code mailed) and the number of
requests (at most five).  Every hazard listed for the service is about two or three requests on
one account; a fourth and fifth prepare what they need.  Two accounts and three
addresses are there from the start in the mixes with the pasts "reserved" and
"crossed", where one account can take the address that is another's, and in the
mixes of the past "moved" a sign-in with the new address meets the code or the proof
that was mailed to it, each of which may make a second account or link the identity.
Dropping any one of the four conditions `OneRowEach` rests on (an address that is free,
an identity that is not linked, one challenge, one reservation) violates it in
this run, and so does trusting a name that is not the row's violate `EmailWasVerified`.
Two subscriptions
with two changes each give an old and a new state to mix up; three jobs let a fence
be taken from a job that took it from another.  Account and billing share no
table, so their steps commute and a behaviour is about one of them
(`CloudInit`).

`sign_in` bounds attempts, dialogs, sign-outs and failures together (`MCUses`): two
attempts cross with a second dialog, with a failure, with deadlines and with a
sign-out; what else there is, the plan panel included, goes with one attempt.  Only a second poll of the same attempt (`native.polling` set when
a poll begins) never occurs, because the dialog polls an attempt one at a time.

Deadlock checking is off in `exit_leaves_child`, where the application ends, and in
`cloud` and `sign_in`, where what the clients ask for is bounded and then nothing
is left to do.

### Properties

* `TypeOK`, `ProbeTypeOK`, `CommandsTypeOK`, `DiscordTypeOK`: one type invariant per module.
* `OneRegistry`, `NoOrphan`, `EndpointExclusive`: ownership, whatever the order of
  starts, stops, exits and failures.
* `StopOkMeansExited`: a graceful stop that returns Ok has stopped the child it took.
* `SlotsSpec`: refinement of `ServerSlots`.
* `ReservationReleased`: a reservation ends after its child, also if the stop
  future was dropped.
* `OneProbe`, `MarkHasProbe`: the in-flight mark excludes a second probe, and is
  not left behind (it is, with a failing write: finding 1; `WrittenMarkHasProbe` is
  `MarkHasProbe` where no write fails).
* `StoppedIsTrue`: "stopped" is not the answer to a call throughout which a live child
  was owned, although the registries are looked at one after the other; unless a
  failing write put a child of the server back during the call (contradiction A below).
* `CachedRunningIsReady`: the cache of a child says "running" only if that child
  was found ready, not an earlier one.
* `OneOperation`, `LockedWorkExclusive`, `DeletedHasNoChild`, `CommandEnds`.
* `SentIsCurrent`: while a request is sent, its destination is the stored one,
  enabled, and its language the current one (it may not be, if `config()` is
  interrupted: finding 5).
* `ResultOfDestination`: no result is kept for a destination that is gone.
* `RevokedEventually`: a destination of another session, or of one that is no
  longer a supporter's, ends disabled even if nothing is ever queued for it.
* `DeliveryEnds`: rate limits do not keep the worker at one job for ever.
* `OneRowEach`: an address, an identity, a challenge and a pending change belong to
  one account each, which every "first row" in `worker.ts` relies on.
* `GrantOnce`: a mailed code, a proof or a browser request makes at most one
  session, and an approval moves the approver's session, it does not copy it.
* `ShownSinceRevoked`: whoever is signed in with a password, here or through a browser
  that was, showed it after the sessions of the account were last revoked.
* `CodeNoBypass`: a code of the old kind never signs in an account with a password,
  also not one that is linked while the code is verified.
* `OneCallback`, `EmailWasVerified`: a change of address is applied by one callback
  at a time, and the account's address is one that Firebase verified for its
  identity, wherever the callback is cut off; unless a callback completed it on an
  answer that named no identity, when it was verified for somebody (`crossed`).
* `CopiesNeverGoBack`: refinement of `BillingPromise`.
* `AckedIsCovered`: when Stripe is told that an event was processed, the copy is as
  new as the event, or a later job owns the fence and has yet to write; and a
  refund that was acknowledged ends the lease.
* `OneOpenCheckout`, `StoredIsOfAttempt`: of all Checkout sessions made, one can be
  paid; the stored one is the current attempt's (a session that has been paid may leave
  room for another: contradiction C below).
* `NoOrphanGrant`, `NoStraySession`: no browser request can still be approved, and no
  session is alive, that the application has forgotten, unless a message was lost.
* `SignedInIsShown`: a sign-in is not completed behind the user's back, also when its
  dialog was closed; unless a sign-out was under way when it was stored, or a plan
  panel had begun to ask before and was told "nobody" (contradiction B below).
* `WaitingIsBacked`: what the dialog waits for is what the application holds.
* `AccountTypeOK`, `SignInTypeOK`: the type invariants; they include that attempts at a
  code stay within their limit, and that a held request is the current attempt's.

Every property has a mutant in `PROJECT.json`: a slip of the kind the code could
have (its definition is beside the original, introduced by "Slip:") with which
TLC finds the property violated.

### Fairness

`registry` assumes that `is_stopping` and `is_running` are asked of every server
again and again: the monitor task calls `runtime_status` for all servers every
ten seconds as long as the application lives.  Nothing is assumed of the stop
futures.  `commands` assumes weak fairness of the steps of a command (a task of
the runtime that is not blocked goes on; `StopDeadline` is one of its steps, so a
stop ends even if the child never does) and strong fairness of the lock
(`tokio::sync::Mutex` is fair: FIFO).  Failures (`PollError`, `StopBreaks`) are
never relied upon.  `discord` assumes weak fairness of
what goes on without the dispatch lock, strong fairness of what waits for it (the
same mutex type), and that the credential store does not refuse the worker's
writes for ever; a request ends because its client has a time limit of eight
seconds.  `cloud` and `sign_in` assume none: a request may be cut off, a job may die
and the application may be left alone at any step, and only safety is claimed.

## Findings

1. **A probe's mark may stay** (`process.rs:720`, run `probe_stuck`).  When the
   probed child has left `ProcessMap`, `runtime_status` returns without clearing
   its mark; if the stop's write fails, the child comes back with the mark set
   and its status is frozen.  The comment there promises the opposite.
2. **Files may change beside a running server** (`lib.rs:372`, run
   `mutation_while_running`).  `require_file_mutation_allowed` looks without the
   operation lock.
3. **A stop may report success for a live child** (`process.rs:466`, run
   `cleanup_of_live_server`).  It needs a second stop of the same server, which
   only the monitor's auto-stop can be, and a failing write.
4. **Leaving may leave a child behind** (`lib.rs:350`, run `exit_leaves_child`).
5. **An old destination may come back** (`discord_notifications.rs:227`, run
   `discord_slow_read`).  `config()` reads the credential store and fills the
   cache afterwards.  A change in between is undone in the cache, and the worker
   sends to the destination that was disabled, replaced or deleted.

### Further contradictions

Three more disagreements with a comment of the code came to light when hypotheses of
the properties above were examined.  Each has a configuration of its own, which is not
among the runs of `PROJECT.json`: TLC ends in a trace that shows it
(`tlc -config MCProbeStopped.cfg MCStatusProbe`, `tlc -config MCSignInPlan.cfg MCSignIn`,
`tlc -config MCCheckout.cfg MCCloud`).  The properties of the regular runs name them as
their exceptions.

* A. **A running server may be reported stopped** (`process.rs:540`,
  `NeverEarlyStopped`).  A status call looks at the stopping registry, the running one
  and the stopping one again.  A graceful stop that begins after the first look, and
  whose write fails after the second, has moved the child back before the third: the
  answer is "stopped", on which `server_status` withdraws the invitation and the tunnel
  of a server that runs (`lib.rs:1816`).  The comments at `process.rs:536` and 655 say
  that the second look is there to report such a transition and not to announce a
  stop early.
* B. **A live sign-in may be hidden** (`SupporterBenefitsPanel.tsx:66`,
  `ClearedIsExpired`).  `account_billing_status` answers that nobody is signed in when
  the stored session changed while it asked (`account_auth.rs:1644`), also when a poll
  of a closed dialog stored a new one.  The panel keeps that answer or acts on it, and
  the profile of the new session is cleared until something publishes it again.
  `App.tsx:177` says that what is cleared is a profile that remains after an expired
  session.
* C. **A second subscription may be paid** (`billing.ts:118`, `OneSubscription`).
  The list of subscriptions is read before the attempt is renewed.  A customer who
  pays an earlier session after the list, and whose attempt expires before the
  renewal, gets a second session; paid too, it is a second subscription.  The comment
  at `billing.ts:113` says that it must not be.

## What the properties do not claim

Orders of steps that the models allow and that the code lives with.  We know of no
comment, document or test that any of them contradicts, so they are not findings.

* A reset bumps the account's version before Firebase takes the new password
  (`worker.ts:535`): a login between the two shows the old password and is bound to
  the new version.  `ShownSinceRevoked` counts from where a revocation begins.
* A login's code may have been mailed to the old address when a change of address
  is completed; a verification that has already read the account then ends in a
  usable session (`worker.ts:670`).
* `linkFirebaseAccount` inserts an account (`worker.ts:452`) and `requestEmailChange`
  a reservation, each after looking for the other; the unique columns keep
  `OneRowEach`, and one of the two users has to try again.
* An answer of Firebase without an identity is taken for the row's
  (`worker.ts:1142`).  If the identities of two accounts have each other's address and a
  link of one of them for the same change is still out, the callback that it begins
  completes the change of the other account: the address was verified, but not for
  that account's identity.  It takes identities that used `recoverEmail`, and is the
  exception in `EmailWasVerified`.
* A later job that took the fence and dies leaves the copy stale until the next
  event or reconciliation, although the earlier event was acknowledged; this is the
  second disjunct of `AckedIsCovered`.
* A profile change answered after a sign-out shows the old profile again
  (`AccountDialog.tsx:343`); a completed poll of one attempt forgets a newer one
  that the dialog waits for (`AccountDialog.tsx:267`); a sign-out under way while a
  poll commits may hide or clear the newer session (`account_auth.rs:1782`).  They
  are the exceptions written in `SignedInIsShown`, `WaitingIsBacked` and
  `NoStraySession`; that a plan panel may hide it too is contradiction B.
* A session stored over another leaves the replaced one alive with the service, and
  a session that could not be stored leaves the dialog polling a request that is
  gone.
* With two overlapping graceful stops of one server and a failed write of the older
  one, the newer may report success for a live child: the section after the write
  moves back whatever child is being stopped by then (`process.rs:432`).  The hypothesis of
  `StoppedHasExited` excludes it; finding 3 is how the application meets it.
* `AccountDialog.tsx:64` and its test (`AccountDialog.test.tsx:219`, with a profile that
  does not change) say that the dialog returns to the plan after the sign-in.  In
  `App` the profile changes with it, the effect at `AccountDialog.tsx:78` runs after
  `setView("plan")` and shows the profile.  `SignInDialog` models this (`Following`); no
  property is about it.

## Theorems

All proofs are complete.  The constants may be any sets and any bounds that satisfy
these assumptions, each named in the module that declares the constant:

* registries and commands: `MaxPid \in Nat`; `Callers = Tasks \cup {Monitor}`,
  `Monitor \notin Tasks`; `Commands \subseteq Locked`, `"nobody"` is not a task;
* billing: jobs are positive numbers, the bounds are naturals, `"refund"` is not a
  subscription;
* Discord: identifiers are positive numbers, `QueueLimit \in Nat`, `"worker"` and
  `"nobody"` are not commands, and if there is a test command there is a test event;
* account service: requests are positive numbers, `None` is none of the values it
  stands beside, there is an account, an identity and a password and there are two
  addresses, the bounds are naturals, and the pasts in `Mixes` are those
  `AccountStore` defines (one with two accounts has two accounts, two identities and
  three addresses to choose from);
* sign-in: attempts and sign-outs are numbers and `None` is not one.

The registries, the commands over them, and billing:

* `RegistryTypes`: `Spec => [](TypeOK /\ OneRegistry)`.  The conjunction (`Base`)
  is inductive: `OneRegistry` needs the types (a pid that was never spawned is not
  alive), and the types alone are preserved because a new child is `spawned + 1`.
  `OneRegistry` survives because both maps are reaped and looked at under both
  locks before an entry is inserted; `WriteStop` moves an entry back only while it
  holds the stopping entry of the server.
* `RegistryImplementsSlots`: every step maps to a step of `ServerSlots` or a
  stutter.  Lemmas say what reaping does to `OwnerOf`, so that lookups and refused
  starts are `Vacate` steps, moves between the maps are stutters.
* `RegistryOwnership`: `NoOrphan`, `OneServer`, `EndpointExclusive`.  Inductive
  together with `Base`: that a child is owned once is what keeps a forced stop of
  one server from disowning another's.
* `StoppedHasExited`: `StopOkMeansExited`, if the stop command can be written or no
  two graceful stops overlap.  `StopsHold` says where the child of a stop is in each
  of its phases: while it waits, in the stopping registry or exited.
* `CommandsImplementRegistry`: every step of the commands is a step of the registry
  or leaves it alone, so what is proved of `ProcessRegistry` holds of the
  application (`CommandsOwnership`).
* `OperationsExclude`: `OneOperation`, `LockedWorkExclusive`, `DeletedHasNoChild`.
  The invariant `CommandsInv` adds that a command past its queue holds the lock of
  its server, and that a command which is preparing, requesting or working found
  its server registered; then a start, which is the only step that gives a server
  a child, cannot meet a "working" command, and a deletion cannot overtake a start.
  `AutoStopDue` takes no lock, but no step of a stop gives a server a child it did
  not have.
* `CommandsTypes`: `CommandsTypeOK`, with `StopsWithin`: a stop that waits for its
  child is part of a command which is at its "stopping" phase.
* `ProbeImplementsRegistry`, `ProbeTypes`: a call of `runtime_status` changes the
  registries as a lookup does, so their theorems hold while servers are polled.
* `ChildHasOneProbe`, `StoppedAnswerIsTrue`, `CacheIsOfItsChild`: `OneProbe`,
  `StoppedIsTrue` and `CachedRunningIsReady`, whether or not stop commands can be
  written.  `MarkIsOwned`: `MarkHasProbe`, if they can; without that it is false
  (finding 1).  `Onward` says where a child that lives may be after a step: where it
  was, in the stopping registry, or, if a write failed, back in the running one, which
  the calls note.  `PollInv` adds what a call knows between its sections: its "running"
  was found of the child it probes (`CallKnows`), a mark excludes another probe
  (`MarkExcludes`), and the owner it saw first is, while it lives and was not put back,
  where it will look next.
* `CopiesKeepPromise`: `BillingSpec => CopiesNeverGoBack`.  The inductive part is
  `FenceKnows`: a job that still holds the fence and has asked Stripe knows at
  least as much as the copy, since whoever writes must hold the fence too.
* `AcknowledgedIsCovered`: a job that works on an event holds, or lost to a later
  job, the fence of its subscription before it may acknowledge; a fence that is
  taken again only moves the duty (`CoveredStays`).
* `CheckoutCollectsOnce`, `StoredSessionIsOfAttempt`: `OneOpenCheckout` and
  `StoredIsOfAttempt`, from what a job has read of the attempt (`ReadInv`) and what
  Stripe has made of attempts (`HostedInv`): an attempt is replaced only when it has
  expired, and is begun by one job, once, so everything read or made that has not
  expired is of the attempt there is.
* `CloudImplementsBilling`, `CloudImplementsAccounts`: a step of the Worker is a step
  of the one and leaves the tables of the other alone, so the theorems of billing and
  of the account service hold of the whole.

`DiscordNotifications`, under `DiscordSpec`, hence if `config()` reads at once (finding
5 is what happens otherwise):

* `DiscordTyped`: `DiscordTypeOK`.  `TypesInv` adds what a command, a call of `enqueue`
  and the worker have in each phase.  That `ForgetServer` leaves a queue that is not
  longer needs an induction over the length, which is made with the least number for
  which the claim fails (`LeastNatural`, from the well-foundedness of `<`); therefore
  `Without` is a function of the length and not `SelectSeq`.
* `SentCurrent`: `SentIsCurrent`.  `LockInv` says who holds `dispatch_lock`: the worker
  exactly while it disables or sends, a command while it tests or drops the queue,
  and nobody only while no change is under way.  `AgreesInv` says that what is cached
  is what is stored.  So what the worker checks in the cache is stored, and nobody can
  begin a change or set the language before it lets go of the lock.
* `ResultsOfDestination`: `ResultOfDestination`.  `ResultsInv` says it of every state,
  with the exception of the server whose change has yet to forget its result; that a
  configuration is loaded or a change refused in the meantime does no harm.

`AccountService`, for any mix of operations and any number of requests:

* `AccountTypes`, `AccountTyped`: `TypesInv` carries, besides the types, what a request
  must have read to stand where it stands, that the identities that rows and requests
  name exist at Firebase, and that an action code belongs to one request, which has
  ended.  `TablesStep` says once, for all actions, in which ways a step may change the
  tables, and the other invariants start from it.
* `AccountRows`: `OneRowEach`, from `TypesInv`.
* `AccountPasswordShown`, `AccountNoBypass`, `AccountOneCallback`: `ShownSinceRevoked`,
  `CodeNoBypass`, `OneCallback`, all from `ShownInv`: what was proven by a password is
  bound, in the request, the challenge, the browser request and the session, to a
  credential version that was read with the password or before.  A revocation raises
  the account's version together with `revoked`, so whatever was bound before it is
  out of date from then on, wherever it is.
* `AccountEmailVerified`: `EmailWasVerified`, whether Firebase's answers name the
  identity or not.  `VerifiedInv` says the same of the challenges and requests that rely
  on an address: what is bound to an identity was verified for it, or was completed
  for it on an answer without a name (`crossed`) and verified for somebody.
* `AccountGrantOnce`: `GrantOnce`.  `OnceInv` follows a code, a proof or a browser
  request by its identifier: it names one row, or no row and the one request that took
  it (`DELETE ... RETURNING`), or the one session that request has made.

`SignInDialog`, for any numbers of attempts, dialogs, sign-outs and failures.  Each
action has an effect lemma, which says what it does to the variables that the
invariants speak of; the step lemmas take the actions one by one.

* `SignInTyped`: `SignInTypeOK`.
* `SignInCourse`: `CourseInv`, the course of an attempt through dialog, mutex and
  service, on which the rest relies: what is polled was started and opened, what is
  held was answered, what is stored was redeemed, and a cancel is not sent before the
  request is known.
* `NoStray`: `NoStraySession`.  `StrayInv` lists where a session that is alive can be:
  stored, about to be stored by its poll, about to be revoked by a sign-out, in a
  message, or one of the exceptions; a sign-out clears no other session than it read,
  unless it was crossed.
* `AsksSound`: what a plan panel was told is true of the session that is stored, unless
  that session was stored after the question was begun (`AsksSoundly`): a panel that is
  asking holds the stored session, and one that was told "nobody" was told so of a
  session that is not alive.
* `SignedInShown`: `SignedInIsShown`.  `ShownInv`: a stored session is shown, or the
  poll that stored it has yet to say so, whoever listens to it; a panel clears what is
  shown only as `AsksSoundly` allows.
* `WaitingBacked`: `WaitingIsBacked`.  `BackedInv`: while the dialog waits and no later
  start has taken the mutex, the mutex holds the attempt or the attempt is over, and
  no cancel of it is on its way.
* `NoOrphan`: `NoOrphanGrant`.  `OrphanInv` names who still answers for a request that
  can be approved: its start, a cancel that is sent or about to be, or the dialog that
  waits for it, which holds unless another attempt has signed in.

Only model-checked: liveness (`ReservationReleased`, `CommandEnds`,
`RevokedEventually`, `DeliveryEnds`), since the prover does not reason about
fairness and `ENABLED`; and `AppExit`, whose only property is the one of finding 4.
Every invariant of a passing run is stated by a theorem, `WrittenMarkHasProbe` as
`MarkHasProbe` under the hypothesis that stop commands can be written.

## Not modelled

`PROJECT.json` lists every component with the reason.  In short: installation,
import, catalogue searches, diagnosis and validation are sequential and made of
I/O and parsing; the frontend's order of calls, except for the account dialog, is
left free; the maintainers' tool and the website are separate programs.  The
tunnel manager, the quarantine of mods and the backups are made of external
processes and of files; their clean-ups and their permission to run are in
`ServerCommands`, their own steps in no module.

Most of the repository's TypeScript is none of these: eight translations of 2 514
lines each, views without state of their own, styles and their tests.  The logic
is in the Rust sources and in the Worker, and that is what the map covers.

## Plan

1. `LifecycleEvents`: `spawned`, `stopping`, `stop_failed`, `observe` of
   `discord_notifications.rs` over `ServerCommands`: a deliberate stop is not told
   as a crash (a refused second stop clears the intent of the first:
   `lib.rs:1401`), and a child is told to have started once.
2. `LaunchObserver` and `Quarantine`: lines, readiness and exit in any order; moves
   and records with a crash between any two steps.
3. `Backup`: staging, the two renames, pruning; a crash between them.
4. `Tunnel`: sessions, the clean-up threads of `server_status` and of the auto-stop
   against the next start, over `ServerCommands`.
5. `Membership`: the lease and its grace period against late answers.
6. Proofs: that `SlowReadSpec` keeps the lock (`LockInv` does not depend on the cache),
   so that what finding 5 breaks is `AgreesInv` alone; the theorems of the modules
   above.
