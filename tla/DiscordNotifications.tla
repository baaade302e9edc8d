------------------------- MODULE DiscordNotifications -------------------------
(***************************************************************************)
(* src-tauri/src/discord_notifications.rs: the destinations of the         *)
(* servers' notifications, the queue of notifications and the worker that  *)
(* sends them, while the user changes the destinations, the account signs  *)
(* in and out, and servers start and stop.                                 *)
(*                                                                         *)
(* dispatch_lock excludes the commands and the sending from each other.    *)
(* Notifications are queued without it, so that enqueue sees a command     *)
(* take effect map by map.                                                 *)
(*                                                                         *)
(* All events count as selected, as a change of the selection changes the  *)
(* generation like any other; all results but "queued" are "ended"; and    *)
(* ten seconds may always have passed since the last event.                *)
(***************************************************************************)
EXTENDS Naturals, Sequences

CONSTANTS
  Servers,
  Events,       \* what a server can be observed to do, and "test"
  Editors,      \* concurrent commands of the frontend
  Commands,     \* which of its commands the user gives
  Observers,    \* status calls that observe servers
  Generations,  \* identifiers of configurations, drawn at random
  Locales,      \* identifiers of language settings, drawn at random
  Sessions,     \* account sessions
  QueueLimit    \* QUEUE_LIMIT

ASSUME IdentifiersAssumption ==
  Generations \subseteq Nat \ {0} /\ Locales \subseteq Nat \ {0} /\ Sessions \subseteq Nat \ {0}
ASSUME ActorsAssumption == "worker" \notin Editors /\ "nobody" \notin Editors
ASSUME QueueAssumption == QueueLimit \in Nat
ASSUME EventsAssumption == "test" \in Commands => "test" \in Events

VARIABLES
  account,   \* the session if it is a supporter's, otherwise 0
  secret,    \* secret[s]: configuration in the credential store
  cache,     \* configurations
  results,   \* results[s]: last result and the generation it belongs to
  queue,
  recent,    \* recent[s]: last event
  locale,    \* generation of active_locale; 0 until the frontend has set it
  dispatch,  \* holder of dispatch_lock
  write,     \* the change of a configuration in progress, by that holder
  editor,    \* editor[e]: the command of e
  emit,      \* emit[x]: the call of enqueue that x makes
  worker     \* what the worker does

destinations == <<secret, cache>>
telling      == <<results, queue, recent>>
maps         == <<destinations, telling>>
discordVars  == <<account, maps, locale, dispatch, write, editor, emit, worker>>

NoConfig == [generation |-> 0, enabled |-> FALSE, binding |-> 0]
NoResult == [generation |-> 0, text |-> "not_sent"]
NoEvent  == "none"
NoWrite  == [step |-> "none"]
Idle     == [phase |-> "idle"]
Looping  == [phase |-> "loop"]

Emitters == Observers \cup Editors
Configs  == [generation : Generations, enabled : BOOLEAN, binding : Sessions \cup {0}]
Jobs     == [server : Servers, event : Events, generation : Generations, locale : Locales]

Present(config) == config.generation # 0

(* config(): the cached configuration, or else the stored one.             *)
ConfigOf(s) == IF Present(cache[s]) THEN cache[s] ELSE secret[s]
Load(s)     == cache' = [cache EXCEPT ![s] = ConfigOf(s)]

(* Identifiers that something still refers to.  A new UUID is any other;   *)
(* the least is as good as any.                                            *)
WorkerJobs == IF "job" \in DOMAIN worker THEN {worker.job} ELSE {}
Pending    == {queue[i] : i \in 1 .. Len(queue)} \cup WorkerJobs
Emitting   == {emit[x] : x \in Emitters} \ {Idle}
GenerationsInUse ==
  UNION {{secret[s].generation, cache[s].generation, results[s].generation} : s \in Servers}
  \cup {job.generation : job \in Pending} \cup {call.config.generation : call \in Emitting}
LocalesInUse ==
  {locale} \cup {job.locale : job \in Pending} \cup {call.locale : call \in Emitting}
Least(ids) == CHOOSE id \in ids : \A other \in ids : id <= other

DiscordInit ==
  /\ account  \in Sessions \cup {0}
  /\ secret   \in [Servers -> {NoConfig} \cup {c \in Configs : c.generation = Least(Generations)}]
  /\ cache    = [s \in Servers |-> NoConfig]
  /\ results  = [s \in Servers |-> NoResult]
  /\ queue    = <<>>
  /\ recent   = [s \in Servers |-> NoEvent]
  /\ locale   = 0
  /\ dispatch = "nobody"
  /\ write    = NoWrite
  /\ editor   = [e \in Editors |-> Idle]
  /\ emit     = [x \in Emitters |-> Idle]
  /\ worker   = Looping

-----------------------------------------------------------------------------
(* Slip: the result is recorded whatever destination the server now has.   *)
RecordedAlways(s, generation, text) ==
  [results EXCEPT ![s] = [generation |-> generation, text |-> text]]

(* record_result: only for the configuration the server still has.         *)
Recorded(s, generation, text) ==
  IF cache[s].generation = generation
  THEN [results EXCEPT ![s] = [generation |-> generation, text |-> text]]
  ELSE results

(* record_job_result: nor when the language has changed.                   *)
JobRecorded(job) ==
  IF locale = job.locale THEN Recorded(job.server, job.generation, "ended") ELSE results

(* queue.retain: the jobs of the other servers, in their order.  Written   *)
(* as a function of the length, which can be reasoned about.               *)
Without(s) ==
  LET kept[i \in 0 .. Len(queue)] ==
        IF i = 0 THEN <<>>
        ELSE IF queue[i].server = s THEN kept[i - 1]
        ELSE Append(kept[i - 1], queue[i])
  IN  kept[Len(queue)]

-----------------------------------------------------------------------------
(* enqueue, called by observe and by the test command                      *)

Emission(s, event, config, phase) ==
  [phase |-> phase, server |-> s, event |-> event, config |-> config, locale |-> 0]
EmitEnds(x) == emit' = [emit EXCEPT ![x] = Idle]

(* The session the configuration is bound to is not looked at.             *)
Enqueued(config) == [config EXCEPT !.binding = 0]
EmitIfEnabled(x, s, event, config) ==
  emit' = [emit EXCEPT ![x] =
             IF config.enabled THEN Emission(s, event, Enqueued(config), "admit") ELSE Idle]

(* The configuration is read from the cache, or else from the secret.      *)
Observe(x, s, event) ==
  emit[x] = Idle /\ Load(s) /\ EmitIfEnabled(x, s, event, ConfigOf(s))

(* The language must be known, and the same event not have come within ten *)
(* seconds.                                                                *)
Admit(x) ==
  LET s == emit[x].server
  IN  /\ emit[x].phase = "admit"
      /\ \/ /\ locale = 0
            /\ results' = Recorded(s, emit[x].config.generation, "ended")
            /\ EmitEnds(x) /\ UNCHANGED recent
         \/ /\ locale # 0 /\ recent[s] = emit[x].event
            /\ EmitEnds(x) /\ UNCHANGED <<results, recent>>
         \/ /\ locale # 0
            /\ recent' = [recent EXCEPT ![s] = emit[x].event]
            /\ emit'   = [emit EXCEPT ![x].phase = "push", ![x].locale = locale]
            /\ UNCHANGED results
      /\ UNCHANGED <<destinations, queue>>

JobOf(call) ==
  [server |-> call.server, event |-> call.event,
   generation |-> call.config.generation, locale |-> call.locale]

(* Slip: the queue has no limit.                                           *)
PushUnbounded(x) ==
  /\ emit[x].phase = "push"
  /\ queue' = Append(queue, JobOf(emit[x]))
  /\ EmitEnds(x)
  /\ UNCHANGED <<destinations, results, recent>>

Push(x) ==
  /\ emit[x].phase = "push"
  /\ IF Len(queue) >= QueueLimit
     THEN results' = JobRecorded(JobOf(emit[x])) /\ UNCHANGED queue
     ELSE queue' = Append(queue, JobOf(emit[x])) /\ UNCHANGED results
  /\ EmitEnds(x)
  /\ UNCHANGED <<destinations, recent>>

-----------------------------------------------------------------------------
(* save, disable, the deletion of a destination                            *)

BeginWrite(s, config, cancelled) ==
  write' = [step |-> "store", server |-> s, config |-> config, cancelled |-> cancelled]

(* The credential store takes the configuration, then the cache.  Between  *)
(* the two it is read with its new value by those who do not find the old. *)
Store ==
  /\ write.step = "store"
  /\ secret' = [secret EXCEPT ![write.server] = write.config]
  /\ cache'  = [cache EXCEPT ![write.server] = write.config]
  /\ write'  = [write EXCEPT !.step = "forget"]
  /\ UNCHANGED telling

(* The credential store refuses: save returns before it has changed a map. *)
StoreRefuses == write.step = "store" /\ write' = NoWrite /\ UNCHANGED maps

(* Slip: the results stay.                                                 *)
ForgetQueue ==
  /\ write.step = "forget"
  /\ queue'  = Without(write.server)
  /\ recent' = [recent EXCEPT ![write.server] = NoEvent]
  /\ write'  = NoWrite
  /\ UNCHANGED <<destinations, results>>

(* The jobs, recent events and results of the server go.  They are cleared *)
(* one after the other, but nothing depends on two of them at once; nor on *)
(* disable clearing the queue again.                                       *)
ForgetServer ==
  /\ write.step = "forget"
  /\ queue'   = Without(write.server)
  /\ recent'  = [recent EXCEPT ![write.server] = NoEvent]
  /\ results' = [results EXCEPT ![write.server] =
                   IF write.cancelled /\ cache[write.server].generation = write.config.generation
                   THEN [generation |-> write.config.generation, text |-> "ended"] ELSE NoResult]
  /\ write'   = NoWrite
  /\ UNCHANGED destinations

(* The destination becomes c, with a generation of its own.                *)
Replace(s, c, cancelled) ==
  /\ Generations \ GenerationsInUse # {}
  /\ BeginWrite(s, [c EXCEPT !.generation = Least(Generations \ GenerationsInUse)], cancelled)

Disable(s) ==
  /\ Load(s)
  /\ IF Present(ConfigOf(s))
     THEN Replace(s, [ConfigOf(s) EXCEPT !.enabled = FALSE], TRUE) /\ UNCHANGED queue
     ELSE queue' = Without(s) /\ UNCHANGED write
  /\ UNCHANGED <<secret, results, recent>>

-----------------------------------------------------------------------------
(* Commands, each under dispatch_lock                                      *)

(* Slip: a command does not wait for the request that is being sent.       *)
MayLockAnyway(e) == dispatch \in {"nobody", "worker", e}

MayLock(e) == dispatch \in {"nobody", e}

(* Before the lock: a supporter is asked for, and a log-out forgets the    *)
(* session and the membership.                                             *)
Issue(e, cmd, servers) ==
  /\ editor[e] = Idle
  /\ cmd \in Commands
  /\ cmd \in {"save", "enable", "test"} => account # 0
  /\ editor'  = [editor EXCEPT ![e] = [phase |-> "command", cmd |-> cmd, todo |-> servers]]
  /\ account' = IF cmd = "logout" THEN 0 ELSE account

(* Its session, also if that is no longer a supporter's.                   *)
Bindings == IF account = 0 THEN Sessions \cup {0} ELSE {account}

(* A command that holds the lock, or is the next to, turns to s.           *)
Turns(e, cmds, s) ==
  /\ editor[e].phase = "command" /\ editor[e].cmd \in cmds /\ s \in editor[e].todo
  /\ MayLock(e) /\ write = NoWrite
Turned(e, s) == dispatch' = e /\ editor' = [editor EXCEPT ![e].todo = @ \ {s}]

Ends(e) == dispatch' = "nobody" /\ editor' = [editor EXCEPT ![e] = Idle]
Return(e) ==
  /\ editor[e].phase = "command" /\ editor[e].todo = {}
  /\ dispatch = e /\ write = NoWrite
  /\ Ends(e)

SaveDestination(e, s) ==
  /\ Turns(e, {"save"}, s)
  /\ \E b \in Bindings : Replace(s, [NoConfig EXCEPT !.binding = b], FALSE)
  /\ Turned(e, s)
  /\ UNCHANGED <<maps, locale, emit>>

(* A change of whom to mention pauses the notifications.                   *)
SetNotifications(e, s, retargeted) ==
  /\ Turns(e, {"enable", "disable"}, s)
  /\ Load(s)
  /\ IF Present(ConfigOf(s))
     THEN \E b \in Bindings :
            Replace(s, [ConfigOf(s) EXCEPT !.enabled = editor[e].cmd = "enable" /\ ~retargeted,
                                           !.binding = b],
                    retargeted \/ ConfigOf(s).enabled)
     ELSE UNCHANGED write
  /\ Turned(e, s)
  /\ UNCHANGED <<secret, telling, locale, emit>>

DeleteDestination(e, s) ==
  /\ Turns(e, {"delete"}, s)
  /\ BeginWrite(s, NoConfig, FALSE)
  /\ Turned(e, s)
  /\ UNCHANGED <<maps, locale, emit>>

LogoutDisables(e, s) ==
  Turns(e, {"logout"}, s) /\ Disable(s) /\ Turned(e, s) /\ UNCHANGED <<locale, emit>>

Test(e, s) ==
  /\ Turns(e, {"test"}, s)
  /\ Load(s)
  /\ IF locale # 0 /\ ConfigOf(s).enabled
     THEN /\ EmitIfEnabled(e, s, "test", ConfigOf(s))
          /\ dispatch' = e
          /\ editor' = [editor EXCEPT ![e] =
               [phase |-> "testing", server |-> s, generation |-> ConfigOf(s).generation]]
     ELSE Turned(e, s) /\ UNCHANGED emit
  /\ UNCHANGED <<secret, telling, locale, write>>

(* The result is "queued" whatever enqueue has made of the test.           *)
TestQueued(e) ==
  /\ editor[e].phase = "testing"
  /\ emit[e] = Idle
  /\ results'  = Recorded(editor[e].server, editor[e].generation, "queued")
  /\ Ends(e)
  /\ UNCHANGED <<destinations, queue, recent, locale, write, emit>>

(* set_locale, for the language there is or another.                       *)
TurnsToLocale(e) ==
  editor[e].phase = "command" /\ editor[e].cmd = "setLocale" /\ MayLock(e)

SameLocale(e) ==
  /\ TurnsToLocale(e) /\ locale # 0
  /\ editor' = [editor EXCEPT ![e] = Idle]
  /\ UNCHANGED <<maps, locale, dispatch, write, emit>>

SetLocale(e) ==
  /\ TurnsToLocale(e) /\ Locales \ LocalesInUse # {}
  /\ locale'   = Least(Locales \ LocalesInUse)
  /\ dispatch' = e
  /\ editor'   = [editor EXCEPT ![e] = [phase |-> "dropping"]]
  /\ UNCHANGED <<maps, write, emit>>

(* Then the queue and the recent events go, and the servers whose jobs are *)
(* dropped, or which are told to be queued, get the result "cancelled".    *)
DropQueue(e) ==
  /\ editor[e].phase = "dropping"
  /\ queue'   = <<>>
  /\ recent'  = [s \in Servers |-> NoEvent]
  /\ results' = [s \in Servers |->
       LET g == cache[s].generation
       IN  IF \/ \E i \in 1 .. Len(queue) : queue[i].server = s /\ queue[i].generation = g
              \/ results[s] = [generation |-> g, text |-> "queued"]
           THEN [generation |-> g, text |-> "ended"] ELSE results[s]]
  /\ Ends(e)
  /\ UNCHANGED <<destinations, locale, write, emit>>

EditorStep(e) ==
  \/ \E s \in Servers :
       \/ SaveDestination(e, s) \/ DeleteDestination(e, s) \/ LogoutDisables(e, s) \/ Test(e, s)
       \/ \E retargeted \in BOOLEAN : SetNotifications(e, s, retargeted)
  \/ TestQueued(e) \/ SetLocale(e) \/ SameLocale(e) \/ DropQueue(e)

-----------------------------------------------------------------------------
(* The worker                                                              *)

WorkerAt(phase) == worker.phase = phase
WorkerGoes(phase) == worker' = [worker EXCEPT !.phase = phase]
WorkerIsDone == worker' = [phase |-> "done", job |-> worker.job]
Acquire == dispatch = "nobody" /\ dispatch' = "worker"
Release == dispatch' = "nobody"

(* A round begins: who is signed in, and whether as a supporter.           *)
LookAtAccount ==
  /\ WorkerAt("loop")
  /\ worker' = [phase |-> "round", todo |-> Servers, seen |-> account]
  /\ UNCHANGED <<maps, dispatch, write>>

(* Slip: the destination of another session is left alone.                 *)
RevocableMembership(config, seen) == config.enabled /\ seen = 0

Revocable(config, seen) == config.enabled /\ (seen = 0 \/ config.binding # seen)

Inspect(s) ==
  LET rest == worker.todo \ {s}
  IN  /\ WorkerAt("round") /\ s \in worker.todo
      /\ Load(s)
      /\ worker' = IF Revocable(ConfigOf(s), worker.seen)
                   THEN [phase |-> "revoke", server |-> s, todo |-> rest, seen |-> worker.seen]
                   ELSE [worker EXCEPT !.todo = rest]
      /\ UNCHANGED <<secret, telling, dispatch, write>>

(* It disables the destination that the server has by then.                *)
LockToRevoke ==
  WorkerAt("revoke") /\ Acquire /\ Disable(worker.server) /\ WorkerGoes("disabling")

Revoked ==
  /\ WorkerAt("disabling") /\ write = NoWrite
  /\ worker' = [phase |-> "round", todo |-> worker.todo, seen |-> worker.seen]
  /\ Release /\ UNCHANGED <<maps, write>>

(* With an empty queue the worker sleeps until it is woken, or 20 seconds. *)
TakeJob ==
  /\ WorkerAt("round")
  /\ worker.todo = {}
  /\ IF queue = <<>>
     THEN worker' = Looping /\ UNCHANGED queue
     ELSE /\ worker' = [phase |-> "attempt", job |-> Head(queue), tries |-> 1]
          /\ queue'  = Tail(queue)
  /\ UNCHANGED <<destinations, results, recent, dispatch, write>>

(* Slip: the destination is looked up for the server, whichever it is now. *)
SendableAnyGeneration(config, job) == config.enabled /\ config.binding = account

Sendable(config, job) ==
  config.enabled /\ config.binding = account /\ config.generation = job.generation

(* The qualification has gone: the destination is disabled on the spot.    *)
Disqualify ==
  /\ WorkerAt("attempt") /\ Acquire
  /\ locale = worker.job.locale /\ account = 0
  /\ Disable(worker.job.server)
  /\ WorkerGoes("disqualified")

Disqualified ==
  /\ WorkerAt("disqualified") /\ write = NoWrite
  /\ WorkerIsDone
  /\ Release /\ UNCHANGED <<maps, write>>

Authorize ==
  /\ WorkerAt("attempt") /\ Acquire
  /\ locale = worker.job.locale /\ account # 0
  /\ Load(worker.job.server)
  /\ Sendable(ConfigOf(worker.job.server), worker.job)
  /\ WorkerGoes("sending")
  /\ UNCHANGED <<secret, telling, write>>

(* Cancelled or expired: the language or the destination is another, the   *)
(* server is deleted, its mentions or URL are invalid, the account changes *)
(* between two checks, or 120 seconds have passed.                         *)
GiveUp ==
  /\ WorkerAt("attempt")
  /\ (dispatch = "nobody" /\ Load(worker.job.server)) \/ UNCHANGED cache
  /\ WorkerIsDone
  /\ UNCHANGED <<secret, telling, dispatch, write>>

(* Sent, or failed in a way that is not tried again.                       *)
Respond ==
  WorkerAt("sending") /\ WorkerIsDone /\ Release /\ UNCHANGED <<maps, write>>

(* Slip: the attempts are not counted.                                     *)
RateLimitedForever ==
  WorkerAt("sending") /\ WorkerGoes("attempt") /\ Release /\ UNCHANGED <<maps, write>>

(* Status 429: another attempt, with its checks, but no more than three.   *)
RateLimited ==
  /\ WorkerAt("sending") /\ worker.tries < 3
  /\ worker' = [worker EXCEPT !.phase = "attempt", !.tries = @ + 1]
  /\ Release /\ UNCHANGED <<maps, write>>

RecordResult ==
  /\ WorkerAt("done")
  /\ results' = JobRecorded(worker.job)
  /\ worker'  = Looping
  /\ UNCHANGED <<destinations, queue, recent, dispatch, write>>

WorkerStep ==
  \/ LookAtAccount \/ (\E s \in Servers : Inspect(s)) \/ Revoked \/ TakeJob
  \/ Disqualified \/ Respond \/ RateLimited \/ RecordResult
WorkerLocks == LockToRevoke \/ Disqualify \/ Authorize \/ GiveUp

-----------------------------------------------------------------------------
(* A sign-in, a session or a lease that ends.                              *)
AccountChanges ==
  /\ account' \in (Sessions \cup {0}) \ {account}
  /\ UNCHANGED <<maps, locale, dispatch, write, editor, emit, worker>>

Emits(x)    == (Admit(x) \/ Push(x)) /\ UNCHANGED <<account, locale, dispatch, write, editor, worker>>
Writes      == (Store \/ ForgetServer) /\ UNCHANGED <<account, locale, dispatch, editor, emit, worker>>
WriteFails  == StoreRefuses /\ UNCHANGED <<account, locale, dispatch, editor, emit, worker>>
Edits(e)    == EditorStep(e) /\ UNCHANGED <<account, worker>>
Returns(e)  == Return(e) /\ UNCHANGED <<account, maps, locale, write, emit, worker>>
WorkerRuns  == WorkerStep /\ UNCHANGED <<account, locale, editor, emit>>
WorkerWaits == WorkerLocks /\ UNCHANGED <<account, locale, editor, emit>>

Requests ==
  /\ \E e \in Editors :
       \/ Issue(e, "setLocale", {})
       \/ Issue(e, "logout", Servers)
       \/ \E s \in Servers, cmd \in {"save", "enable", "disable", "delete", "test"} :
            Issue(e, cmd, {s})
  /\ UNCHANGED <<maps, locale, dispatch, write, emit, worker>>

Observes ==
  /\ \E x \in Observers, s \in Servers, event \in Events \ {"test"} :
       Observe(x, s, event)
  /\ UNCHANGED <<account, secret, telling, locale, dispatch, write, editor, worker>>

DiscordNext ==
  \/ \E e \in Editors : Edits(e) \/ Returns(e)
  \/ \E x \in Emitters : Emits(x)
  \/ Requests \/ Observes \/ AccountChanges
  \/ Writes \/ WriteFails
  \/ WorkerRuns \/ WorkerWaits

(* Tasks of the runtime go on, its mutex is fair (FIFO), a request is      *)
(* answered or times out after eight seconds, and the credential store     *)
(* does not refuse for ever.                                               *)
DiscordFairness ==
  /\ \A e \in Editors : WF_discordVars(Returns(e)) /\ SF_discordVars(Edits(e))
  /\ \A x \in Emitters : WF_discordVars(Emits(x))
  /\ WF_discordVars(Writes)
  /\ \A s \in Servers : SF_discordVars(Writes /\ dispatch = "worker" /\ write.server = s)
  /\ WF_discordVars(WorkerRuns)
  /\ SF_discordVars(WorkerWaits)

(* config() in full: the secret is read while nothing is cached, and what  *)
(* it was is put into the cache afterwards.  In between, a change may have *)
(* been made.                                                              *)
FetchSecret(x, s, event) ==
  /\ emit[x] = Idle
  /\ ~Present(cache[s]) /\ Present(secret[s])
  /\ emit' = [emit EXCEPT ![x] = Emission(s, event, secret[s], "fetched")]
  /\ UNCHANGED maps

CacheSecret(x) ==
  /\ emit[x].phase = "fetched"
  /\ cache' = [cache EXCEPT ![emit[x].server] = emit[x].config]
  /\ EmitIfEnabled(x, emit[x].server, emit[x].event, emit[x].config)
  /\ UNCHANGED <<secret, telling>>

SlowRead ==
  /\ \E x \in Observers :
       \/ \E s \in Servers, event \in Events \ {"test"} : FetchSecret(x, s, event)
       \/ CacheSecret(x)
  /\ UNCHANGED <<account, locale, dispatch, write, editor, worker>>

DiscordSpec     == DiscordInit /\ [][DiscordNext]_discordVars
SlowReadSpec    == DiscordInit /\ [][DiscordNext \/ SlowRead]_discordVars
FairDiscordSpec == DiscordSpec /\ DiscordFairness

-----------------------------------------------------------------------------
(***************************************************************************)
(* Properties                                                              *)
(***************************************************************************)

(* Types, the limit of the queue, and that a configuration is changed, and *)
(* a notification sent, only with the lock.                                *)
DiscordTypeOK ==
  /\ account \in Sessions \cup {0}
  /\ secret \in [Servers -> Configs \cup {NoConfig}]
  /\ cache  \in [Servers -> Configs \cup {NoConfig}]
  /\ queue \in Seq(Jobs) /\ Len(queue) <= QueueLimit
  /\ recent \in [Servers -> Events \cup {NoEvent}]
  /\ locale \in Locales \cup {0}
  /\ dispatch \in Editors \cup {"worker", "nobody"}
  /\ write # NoWrite => dispatch # "nobody"

(* While a notification is being sent, its destination is the one the user *)
(* last saved for the server, enabled, and its language the one last set:  *)
(* once a change, a deletion, a sign-out or a change of language has       *)
(* returned, nothing queued before it is sent.                             *)
SentIsCurrent ==
  WorkerAt("sending") =>
    /\ secret[worker.job.server].enabled
    /\ secret[worker.job.server].generation = worker.job.generation
    /\ locale = worker.job.locale

(* No result outlives its destination or is shown for the next one.        *)
ResultOfDestination ==
  write = NoWrite =>
    \A s \in Servers :
      results[s] # NoResult => results[s].generation = cache[s].generation

(* A destination enabled by another session, or by one that is no longer a *)
(* supporter's, is disabled, also if nothing is ever queued for it.        *)
Entitled(s) ==
  secret[s].enabled => account # 0 /\ secret[s].binding = account
RevokedEventually == \A s \in Servers : ~Entitled(s) ~> Entitled(s)

(* Every notification the worker takes is sent or given up.                *)
DeliveryEnds == WorkerAt("attempt") ~> WorkerAt("loop")
=============================================================================
