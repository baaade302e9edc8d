---------------------- MODULE DiscordNotifications_proofs ----------------------
(***************************************************************************)
(* Proofs about DiscordNotifications under DiscordSpec, for any servers,   *)
(* commands, status calls, identifiers and limit of the queue.  The plan:  *)
(*   1. taking jobs out of the queue leaves a queue, and the least of a    *)
(*      set of identifiers is one of them;                                 *)
(*   2. the types (TypesInv);                                              *)
(*   3. who holds dispatch_lock (LockInv): its holder is the one whose     *)
(*      phase says so, and a change of a configuration is under way only   *)
(*      with it;                                                           *)
(*   4. the cache agrees with the credential store (AgreesInv), so that    *)
(*      what the worker checks when it begins to send is stored, and, as   *)
(*      nobody else has the lock, stays so (SentInv);                      *)
(*   5. results are of the cached destination, except while a change has   *)
(*      yet to forget them (ResultsInv).                                   *)
(***************************************************************************)
EXTENDS DiscordNotifications, WellFoundedInduction, NaturalsInduction, TLAPS

(* What a command, a call of enqueue and the worker may be, by phase.      *)
Accounts      == Sessions \cup {0}
StoredConfigs == Configs \cup {NoConfig}
Results       == [generation : Generations \cup {0}, text : {"not_sent", "queued", "ended"}]
ServerSets    == SUBSET Servers
Changes       == [step : {"store", "forget"}, server : Servers, config : StoredConfigs,
                  cancelled : BOOLEAN]
CommandStates == [phase : {"command"}, cmd : Commands, todo : ServerSets]
TestStates    == [phase : {"testing"}, server : Servers, generation : Generations]
Droppings     == [phase : {"dropping"}]
Admissions    == [phase : {"admit"}, server : Servers, event : Events, config : Configs,
                  locale : {0}]
Pushes        == [phase : {"push"}, server : Servers, event : Events, config : Configs,
                  locale : Locales]
Loops         == [phase : {"loop"}]
Rounds        == [phase : {"round"}, todo : ServerSets, seen : Accounts]
Revocations   == [phase : {"revoke", "disabling"}, server : Servers, todo : ServerSets,
                  seen : Accounts]
Deliveries    == [phase : {"attempt", "sending", "disqualified"}, job : Jobs, tries : Nat]
Dones         == [phase : {"done"}, job : Jobs]

(* The types of all variables.                                             *)
TypesInv ==
  /\ account \in Accounts
  /\ secret \in [Servers -> StoredConfigs]
  /\ cache \in [Servers -> StoredConfigs]
  /\ results \in [Servers -> Results]
  /\ queue \in Seq(Jobs) /\ Len(queue) <= QueueLimit
  /\ recent \in [Servers -> Events \cup {NoEvent}]
  /\ locale \in Locales \cup {0}
  /\ dispatch \in Editors \cup {"worker", "nobody"}
  /\ write \in Changes \cup {NoWrite}
  /\ editor \in [Editors -> {Idle} \cup CommandStates \cup TestStates \cup Droppings]
  /\ emit \in [Emitters -> {Idle} \cup Admissions \cup Pushes]
  /\ worker \in Loops \cup Rounds \cup Revocations \cup Deliveries \cup Dones

(* Who holds dispatch_lock, and that a change is made by its holder.       *)
LockInv ==
  /\ write # NoWrite => dispatch # "nobody"
  /\ dispatch = "worker" <=> worker.phase \in {"disabling", "disqualified", "sending"}
  /\ worker.phase = "sending" => write = NoWrite
  /\ \A e \in Editors :
       /\ editor[e] = Idle => dispatch # e
       /\ editor[e].phase = "command" /\ editor[e].cmd = "setLocale" => dispatch # e
       /\ editor[e].phase \in {"testing", "dropping"} => dispatch = e /\ write = NoWrite

(* What is cached is what is stored.                                       *)
AgreesInv == \A s \in Servers : Present(cache[s]) => cache[s] = secret[s]

(* What is sent is current.                                                *)
SentInv ==
  worker.phase = "sending" =>
    /\ secret[worker.job.server].enabled
    /\ secret[worker.job.server].generation = worker.job.generation
    /\ locale = worker.job.locale

(* A result belongs to the cached destination, except while the change of  *)
(* that has yet to forget it.                                              *)
Forgetting(s) == write # NoWrite /\ write.step = "forget" /\ write.server = s
ResultsInv ==
  /\ write # NoWrite /\ write.cancelled => write.config \in Configs
  /\ \A s \in Servers :
       results[s] # NoResult =>
         /\ results[s].generation # 0
         /\ results[s].generation = cache[s].generation \/ Forgetting(s)

(* A set of naturals has a least one, as < is well founded on them.        *)
LEMMA LeastNatural ==
  ASSUME NEW T \in SUBSET Nat, T # {}
  PROVE  \E n \in T : \A m \in T : n <= m
<1> DEFINE R == {ss \in Nat \X Nat : ss[1] < ss[2]}
<1>1. IsWellFoundedOn(R, Nat)
  BY NatLessThanWellFounded DEF OpToRel
<1> HIDE DEF R
<1>2. \E n \in T : \A m \in T : ~(<<m, n>> \in R)
  BY <1>1, WFMin
<1>3. \A n, m \in Nat : m < n => <<m, n>> \in R
  BY DEF R
<1>4. \A n, m \in Nat : ~(m < n) => n <= m
  OBVIOUS
<1> QED BY <1>2, <1>3, <1>4

(* The least identifier of a set is one of them.                           *)
LEMMA LeastIsOne ==
  ASSUME NEW ids \in SUBSET Nat, ids # {}
  PROVE  Least(ids) \in ids
<1>1. \E id \in ids : \A other \in ids : id <= other
  BY LeastNatural
<1> QED BY <1>1 DEF Least

(* f[i] is what Without keeps of the first i jobs, for i up to n.          *)
Keeps(f, s, n) ==
  f = [i \in 0 .. n |->
        IF i = 0 THEN <<>>
        ELSE IF queue[i].server = s THEN f[i - 1]
        ELSE Append(f[i - 1], queue[i])]

(* Such a function exists for every n: one for the least n without would   *)
(* be obtained from the one for n - 1.                                     *)
LEMMA KeepsExists ==
  ASSUME NEW s, NEW n \in Nat
  PROVE  \E f : Keeps(f, s, n)
<1> DEFINE T == {k \in Nat : ~ \E f : Keeps(f, s, k)}
<1> SUFFICES ASSUME T # {}
             PROVE  FALSE
  OBVIOUS
<1>1. PICK k \in T : \A m \in T : k <= m
  <2>1. T \in SUBSET Nat
    OBVIOUS
  <2> HIDE DEF T
  <2> QED BY <2>1, LeastNatural
<1>2. k \in Nat /\ ~ \E f : Keeps(f, s, k)
  OBVIOUS
<1>3. k # 0
  <2>1. Keeps([i \in 0 .. 0 |-> <<>>], s, 0)
    BY DEF Keeps
  <2> QED BY <1>2, <2>1
<1>4. PICK f : Keeps(f, s, k - 1)
  <2>1. k - 1 \in Nat /\ ~(k <= k - 1)
    BY <1>2, <1>3
  <2>2. k - 1 \notin T
    BY <1>1, <2>1
  <2> QED BY <2>1, <2>2
<1> DEFINE next == IF queue[k].server = s THEN f[k - 1] ELSE Append(f[k - 1], queue[k])
<1> DEFINE g == [i \in 0 .. k |-> IF i = k THEN next ELSE f[i]]
<1>5. Keeps(g, s, k)
  <2>1. \A i \in 0 .. k : i # k => i \in 0 .. (k - 1)
    BY <1>2
  <2>2. \A i \in 0 .. (k - 1) : i \in 0 .. k /\ i # k /\ (i # 0 => i - 1 \in 0 .. (k - 1))
    BY <1>2, <1>3
  <2>3. k - 1 \in 0 .. (k - 1) /\ k \in 0 .. k
    BY <1>2, <1>3
  <2>4. \A i \in 0 .. (k - 1) : g[i] = f[i]
    BY <2>2
  <2>5. g[k] = next
    BY <2>3
  <2>6. \A i \in 0 .. (k - 1) :
          f[i] = IF i = 0 THEN <<>>
                 ELSE IF queue[i].server = s THEN f[i - 1] ELSE Append(f[i - 1], queue[i])
    BY <1>4 DEF Keeps
  <2>7. ASSUME NEW i \in 0 .. k
        PROVE  g[i] = IF i = 0 THEN <<>>
                      ELSE IF queue[i].server = s THEN g[i - 1] ELSE Append(g[i - 1], queue[i])
    <3>1. CASE i = k
      BY <1>3, <2>3, <2>4, <2>5, <3>1
    <3>2. CASE i # k
      BY <2>1, <2>2, <2>4, <2>6, <3>2
    <3> QED BY <3>1, <3>2
  <2>8. g = [i \in 0 .. k |-> g[i]]
    OBVIOUS
  <2> HIDE DEF g
  <2> QED BY <2>7, <2>8 DEF Keeps
<1> HIDE DEF g
<1> QED BY <1>2, <1>5

(* What is kept of the queue is the last value of it.                      *)
LEMMA WithoutKeeps ==
  ASSUME NEW s, Len(queue) \in Nat
  PROVE  \E f : Keeps(f, s, Len(queue)) /\ Without(s) = f[Len(queue)]
<1> DEFINE f == CHOOSE f : Keeps(f, s, Len(queue))
<1>1. Keeps(f, s, Len(queue))
  BY KeepsExists
<1>2. Without(s) = f[Len(queue)]
  BY DEF Without, Keeps
<1> HIDE DEF f
<1> QED BY <1>1, <1>2

(* Jobs taken out of the queue leave a queue of the same jobs, which is    *)
(* not longer.                                                             *)
LEMMA WithoutTyped ==
  ASSUME NEW s, NEW S, queue \in Seq(S)
  PROVE  Without(s) \in Seq(S) /\ Len(Without(s)) <= Len(queue)
<1>1. Len(queue) \in Nat /\ \A i \in 1 .. Len(queue) : queue[i] \in S
  OBVIOUS
<1>2. PICK f : Keeps(f, s, Len(queue)) /\ Without(s) = f[Len(queue)]
  BY <1>1, WithoutKeeps
<1> DEFINE good(i) == f[i] \in Seq(S) /\ Len(f[i]) <= i
<1> DEFINE T == {i \in 0 .. Len(queue) : ~good(i)}
<1>3. T = {}
  <2> SUFFICES ASSUME T # {}
               PROVE  FALSE
    OBVIOUS
  <2>1. PICK i \in T : \A j \in T : i <= j
    <3>1. T \in SUBSET Nat
      BY <1>1
    <3> HIDE DEF T
    <3> QED BY <3>1, LeastNatural
  <2>2. i \in 0 .. Len(queue) /\ i \in Nat /\ ~good(i)
    BY <1>1
  <2>3. \A j \in 0 .. Len(queue) :
          f[j] = IF j = 0 THEN <<>>
                 ELSE IF queue[j].server = s THEN f[j - 1] ELSE Append(f[j - 1], queue[j])
    BY <1>2 DEF Keeps
  <2>4. i # 0
    <3>1. f[0] = <<>>
      BY <1>1, <2>3
    <3>2. <<>> \in Seq(S) /\ Len(<<>>) = 0
      OBVIOUS
    <3>3. good(0)
      BY <3>1, <3>2
    <3> QED BY <2>2, <3>3
  <2>5. i - 1 \in 0 .. Len(queue) /\ i - 1 \in Nat /\ ~(i <= i - 1) /\ i \in 1 .. Len(queue)
    BY <1>1, <2>2, <2>4
  <2>6. i - 1 \notin T
    BY <2>1, <2>5
  <2>7. f[i - 1] \in Seq(S) /\ Len(f[i - 1]) <= i - 1 /\ Len(f[i - 1]) \in Nat
    BY <2>5, <2>6
  <2>8. f[i] = f[i - 1] \/ f[i] = Append(f[i - 1], queue[i])
    BY <2>2, <2>3, <2>4
  <2>9. CASE f[i] = f[i - 1]
    BY <2>2, <2>7, <2>9
  <2>10. CASE f[i] = Append(f[i - 1], queue[i])
    <3>1. queue[i] \in S
      BY <1>1, <2>5
    <3>2. f[i] \in Seq(S) /\ Len(f[i]) = Len(f[i - 1]) + 1
      BY <2>7, <2>10, <3>1
    <3> QED BY <2>2, <2>7, <3>2
  <2> QED BY <2>8, <2>9, <2>10
<1>4. good(Len(queue))
  BY <1>1, <1>3
<1> QED BY <1>2, <1>4

(* A configuration that is present, or enabled, has a generation; to load  *)
(* it keeps the types.                                                     *)
LEMMA Configurations ==
  ASSUME TypesInv, NEW s \in Servers
  PROVE  /\ ConfigOf(s) \in StoredConfigs
         /\ Present(ConfigOf(s)) => ConfigOf(s) \in Configs
         /\ ConfigOf(s).enabled => ConfigOf(s) \in Configs
         /\ Load(s) => cache' \in [Servers -> StoredConfigs]
<1>1. ConfigOf(s) \in StoredConfigs
  BY DEF TypesInv, ConfigOf
<1>2. ~Present(NoConfig) /\ NoConfig.enabled = FALSE
  BY DEF Present, NoConfig
<1>3. Load(s) => cache' \in [Servers -> StoredConfigs]
  BY <1>1 DEF TypesInv, Load
<1> QED BY <1>1, <1>2, <1>3 DEF StoredConfigs

(* What a command makes of a configuration before it has a generation.      *)
Drafts == [generation : Generations \cup {0}, enabled : BOOLEAN, binding : Accounts]

(* What enqueue has read of a configuration is one, of the same generation.*)
LEMMA EnqueuedTyped ==
  ASSUME NEW c \in Configs
  PROVE  Enqueued(c) \in Configs
BY DEF Enqueued, Configs

(* A stored configuration may become another.                              *)
LEMMA StoredAreDrafts == StoredConfigs \subseteq Drafts
<1>1. Configs \subseteq Drafts
  BY DEF Configs, Drafts, Accounts
<1>2. NoConfig \in Drafts
  BY DEF NoConfig, Drafts, Accounts
<1> QED BY <1>1, <1>2 DEF StoredConfigs

(* A change that replaces a configuration stores one with a generation.    *)
LEMMA ReplaceTyped ==
  ASSUME NEW s \in Servers, NEW c \in Drafts, NEW cancelled \in BOOLEAN, Replace(s, c, cancelled)
  PROVE  /\ write' \in Changes /\ write'.step = "store" /\ write'.server = s
         /\ write'.config \in Configs
<1> DEFINE free == Generations \ GenerationsInUse
<1>1. Least(free) \in Generations
  <2>1. free \in SUBSET Nat /\ free # {}
    BY IdentifiersAssumption DEF Replace
  <2> HIDE DEF free
  <2>2. Least(free) \in free
    BY <2>1, LeastIsOne
  <2> QED BY <2>2 DEF free
<1> DEFINE id == Least(free)
<1> DEFINE config == [c EXCEPT !.generation = id]
<1>2. config \in Configs
  <2> HIDE DEF id
  <2>1. id \in Generations
    BY <1>1 DEF id
  <2> QED BY <2>1 DEF Configs, Drafts, Accounts
<1>3. write' = [step |-> "store", server |-> s, config |-> config, cancelled |-> cancelled]
  BY DEF Replace, BeginWrite
<1> HIDE DEF config
<1> QED BY <1>2, <1>3 DEF Changes, StoredConfigs

(* disable changes no stored configuration yet.                            *)
LEMMA DisableEffect ==
  ASSUME TypesInv, NEW s \in Servers, Disable(s)
  PROVE  /\ Load(s) /\ cache' \in [Servers -> StoredConfigs]
         /\ queue' \in Seq(Jobs) /\ Len(queue') <= QueueLimit
         /\ \/ write' = write
            \/ write' \in Changes /\ write'.step = "store" /\ write'.config \in Configs
         /\ UNCHANGED <<secret, results, recent>>
<1>1. Load(s) /\ cache' \in [Servers -> StoredConfigs]
  BY Configurations DEF Disable
<1>2. /\ Without(s) \in Seq(Jobs) /\ Len(Without(s)) <= Len(queue)
      /\ Len(Without(s)) \in Nat /\ Len(queue) \in Nat
  <2>1. queue \in Seq(Jobs)
    BY DEF TypesInv
  <2>2. Without(s) \in Seq(Jobs) /\ Len(Without(s)) <= Len(queue)
    BY <2>1, WithoutTyped
  <2> QED BY <2>1, <2>2
<1>3. queue' \in Seq(Jobs) /\ Len(queue') <= QueueLimit
  <2>1. queue' = queue \/ queue' = Without(s)
    BY DEF Disable
  <2>2. queue \in Seq(Jobs) /\ Len(queue) <= QueueLimit
    BY DEF TypesInv
  <2> QED BY <1>2, <2>1, <2>2, QueueAssumption
<1>4. CASE Present(ConfigOf(s))
  <2> DEFINE c == [ConfigOf(s) EXCEPT !.enabled = FALSE]
  <2>1. c \in Drafts
    BY Configurations, <1>4 DEF Configs, Drafts, Accounts
  <2>2. Replace(s, c, TRUE)
    BY <1>4 DEF Disable
  <2> HIDE DEF c
  <2>3. write' \in Changes /\ write'.step = "store" /\ write'.config \in Configs
    BY <2>1, <2>2, ReplaceTyped
  <2> QED BY <1>1, <1>3, <2>3 DEF Disable
<1>5. CASE ~Present(ConfigOf(s))
  BY <1>1, <1>3, <1>5 DEF Disable
<1> QED BY <1>4, <1>5

(* A recorded result is a result.                                          *)
LEMMA RecordedTyped ==
  ASSUME TypesInv, NEW s \in Servers, NEW g \in Generations, NEW text \in {"queued", "ended"}
  PROVE  Recorded(s, g, text) \in [Servers -> Results]
BY DEF TypesInv, Recorded, Results

(* And so is that of a job.                                                *)
LEMMA JobRecordedTyped ==
  ASSUME TypesInv, NEW job \in Jobs
  PROVE  JobRecorded(job) \in [Servers -> Results]
<1>1. job.server \in Servers /\ job.generation \in Generations
  BY DEF Jobs
<1> QED BY <1>1, RecordedTyped DEF JobRecorded, TypesInv

(* What a command has, by its phase.                                       *)
LEMMA CommandHolds ==
  ASSUME TypesInv, NEW e \in Editors
  PROVE  /\ editor[e].phase = "command" => editor[e] \in CommandStates
         /\ editor[e].phase = "testing" => editor[e] \in TestStates
BY DEF TypesInv, Idle, CommandStates, TestStates, Droppings

(* What a call of enqueue has read.                                        *)
LEMMA CallHolds ==
  ASSUME TypesInv, NEW x \in Emitters
  PROVE  /\ emit[x].phase = "admit" => emit[x] \in Admissions
         /\ emit[x].phase = "push" => emit[x] \in Pushes
BY DEF TypesInv, Idle, Admissions, Pushes

(* What the worker has, phase by phase.                                    *)
LEMMA WorkerHolds ==
  ASSUME TypesInv
  PROVE  /\ worker.phase = "round" => worker \in Rounds
         /\ worker.phase \in {"revoke", "disabling"} => worker \in Revocations
         /\ worker.phase \in {"attempt", "sending", "disqualified"} => worker \in Deliveries
         /\ worker.phase = "done" => worker \in Dones
BY DEF TypesInv, Loops, Rounds, Revocations, Deliveries, Dones

(***************************************************************************)
(* Types: one lemma for the steps of each actor.                           *)
(***************************************************************************)

(* Steps of a command.                                                     *)
LEMMA EditorTypes ==
  ASSUME TypesInv, NEW e \in Editors, Edits(e)
  PROVE  TypesInv'
<1> USE DEF discordVars, maps, destinations, telling
<1>0. e \in Emitters /\ account' = account /\ worker' = worker
  BY DEF Edits, Emitters
<1>1. ASSUME NEW s \in Servers, NEW cmds, Turns(e, cmds, s), Turned(e, s)
      PROVE  /\ editor' \in [Editors -> {Idle} \cup CommandStates \cup TestStates \cup Droppings]
             /\ dispatch' \in Editors \cup {"worker", "nobody"}
  <2>1. editor[e] \in CommandStates
    BY <1>1, CommandHolds DEF Turns
  <2>2. [editor[e] EXCEPT !.todo = @ \ {s}] \in CommandStates
    BY <2>1 DEF CommandStates, ServerSets
  <2>3. editor' = [editor EXCEPT ![e] = [editor[e] EXCEPT !.todo = @ \ {s}]] /\ dispatch' = e
    BY <1>1 DEF Turned
  <2> QED BY <2>2, <2>3 DEF TypesInv
<1>2. ASSUME Ends(e)
      PROVE  /\ editor' \in [Editors -> {Idle} \cup CommandStates \cup TestStates \cup Droppings]
             /\ dispatch' \in Editors \cup {"worker", "nobody"}
  BY <1>2 DEF Ends, TypesInv
<1>3. ASSUME NEW s \in Servers, SaveDestination(e, s)
      PROVE  TypesInv'
  <2>1. PICK b \in Bindings : Replace(s, [NoConfig EXCEPT !.binding = b], FALSE)
    BY <1>3 DEF SaveDestination
  <2>2. [NoConfig EXCEPT !.binding = b] \in Drafts
    <3>1. NoConfig \in Drafts
      BY StoredAreDrafts DEF StoredConfigs
    <3>2. b \in Accounts
      BY DEF Bindings, TypesInv, Accounts
    <3> QED BY <3>1, <3>2 DEF Drafts
  <2>3. write' \in Changes
    BY <2>1, <2>2, ReplaceTyped
  <2>4. /\ UNCHANGED <<secret, cache, results, queue, recent, locale, emit>>
        /\ Turns(e, {"save"}, s) /\ Turned(e, s)
    BY <1>3 DEF SaveDestination
  <2>5. /\ editor' \in [Editors -> {Idle} \cup CommandStates \cup TestStates \cup Droppings]
        /\ dispatch' \in Editors \cup {"worker", "nobody"}
    BY <1>1, <2>4
  <2> QED BY <1>0, <2>3, <2>4, <2>5 DEF TypesInv
<1>4. ASSUME NEW s \in Servers, DeleteDestination(e, s)
      PROVE  TypesInv'
  <2>1. write' \in Changes
    BY <1>4 DEF DeleteDestination, BeginWrite, Changes, StoredConfigs
  <2>2. UNCHANGED <<secret, cache, results, queue, recent, locale, emit>>
    BY <1>4 DEF DeleteDestination
  <2>3. Turns(e, {"delete"}, s) /\ Turned(e, s)
    BY <1>4 DEF DeleteDestination
  <2> QED BY <1>0, <1>1, <2>1, <2>2, <2>3 DEF TypesInv
<1>5. ASSUME NEW s \in Servers, LogoutDisables(e, s)
      PROVE  TypesInv'
  <2>1. Disable(s) /\ Turns(e, {"logout"}, s) /\ Turned(e, s) /\ UNCHANGED <<locale, emit>>
    BY <1>5 DEF LogoutDisables
  <2>2. /\ editor' \in [Editors -> {Idle} \cup CommandStates \cup TestStates \cup Droppings]
        /\ dispatch' \in Editors \cup {"worker", "nobody"}
    BY <1>1, <2>1
  <2> QED BY <1>0, <2>1, <2>2, DisableEffect DEF TypesInv
<1>6. ASSUME NEW s \in Servers, Test(e, s)
      PROVE  TypesInv'
  <2>1. /\ cache' \in [Servers -> StoredConfigs]
        /\ UNCHANGED <<secret, results, queue, recent, locale, write>>
        /\ Turns(e, {"test"}, s)
    BY <1>6, Configurations DEF Test
  <2>2. CASE locale # 0 /\ ConfigOf(s).enabled
    <3>1. ConfigOf(s) \in Configs /\ ConfigOf(s).enabled = TRUE
      BY <2>2, Configurations DEF Configs
    <3>2. "test" \in Events
      <4>1. editor[e] \in CommandStates /\ editor[e].cmd = "test"
        BY <2>1, CommandHolds DEF Turns
      <4> QED BY <4>1, EventsAssumption DEF CommandStates
    <3>3. emit' = [emit EXCEPT ![e] = Emission(s, "test", Enqueued(ConfigOf(s)), "admit")]
      BY <1>6, <2>2, <3>1 DEF Test, EmitIfEnabled
    <3>4. Emission(s, "test", Enqueued(ConfigOf(s)), "admit") \in Admissions
      BY <3>1, <3>2, EnqueuedTyped DEF Emission, Admissions
    <3>5. emit' \in [Emitters -> {Idle} \cup Admissions \cup Pushes]
      BY <1>0, <3>3, <3>4 DEF TypesInv
    <3>6. [phase |-> "testing", server |-> s, generation |-> ConfigOf(s).generation] \in TestStates
      BY <3>1 DEF TestStates, Configs
    <3>7. dispatch' = e /\ editor' = [editor EXCEPT ![e] =
             [phase |-> "testing", server |-> s, generation |-> ConfigOf(s).generation]]
      BY <1>6, <2>2 DEF Test
    <3>8. editor' \in [Editors -> {Idle} \cup CommandStates \cup TestStates \cup Droppings]
      BY <3>6, <3>7 DEF TypesInv
    <3> QED BY <1>0, <2>1, <3>5, <3>7, <3>8 DEF TypesInv
  <2>3. CASE ~(locale # 0 /\ ConfigOf(s).enabled)
    <3>1. Turned(e, s) /\ UNCHANGED emit
      BY <1>6, <2>3 DEF Test
    <3>2. /\ editor' \in [Editors -> {Idle} \cup CommandStates \cup TestStates \cup Droppings]
          /\ dispatch' \in Editors \cup {"worker", "nobody"}
      BY <1>1, <2>1, <3>1
    <3> QED BY <1>0, <2>1, <3>1, <3>2 DEF TypesInv
  <2> QED BY <2>2, <2>3
<1>7. ASSUME NEW s \in Servers, NEW retargeted \in BOOLEAN, SetNotifications(e, s, retargeted)
      PROVE  TypesInv'
  <2>1. /\ cache' \in [Servers -> StoredConfigs]
        /\ UNCHANGED <<secret, results, queue, recent, locale, emit>>
        /\ Turns(e, {"enable", "disable"}, s) /\ Turned(e, s)
    BY <1>7, Configurations DEF SetNotifications
  <2>2. /\ editor' \in [Editors -> {Idle} \cup CommandStates \cup TestStates \cup Droppings]
        /\ dispatch' \in Editors \cup {"worker", "nobody"}
    BY <1>1, <2>1
  <2>3. write' \in Changes \cup {NoWrite}
    <3>1. CASE Present(ConfigOf(s))
      <4> DEFINE c(b) == [ConfigOf(s) EXCEPT !.enabled = editor[e].cmd = "enable" /\ ~retargeted,
                                             !.binding = b]
      <4>1. PICK b \in Bindings : Replace(s, c(b), retargeted \/ ConfigOf(s).enabled)
        BY <1>7, <3>1 DEF SetNotifications
      <4>2. ConfigOf(s) \in Configs /\ b \in Sessions \cup {0}
        BY <3>1, Configurations DEF Bindings, TypesInv, Accounts
      <4>3. (editor[e].cmd = "enable" /\ ~retargeted) \in BOOLEAN
        OBVIOUS
      <4>4. c(b) \in Drafts
        BY <4>2, <4>3 DEF Configs, Drafts, Accounts
      <4>5. (retargeted \/ ConfigOf(s).enabled) \in BOOLEAN
        OBVIOUS
      <4> HIDE DEF c
      <4> QED BY <4>1, <4>4, <4>5, ReplaceTyped
    <3>2. CASE ~Present(ConfigOf(s))
      BY <1>7, <3>2 DEF SetNotifications, TypesInv
    <3> QED BY <3>1, <3>2
  <2> QED BY <1>0, <2>1, <2>2, <2>3 DEF TypesInv
<1>8. ASSUME TestQueued(e)
      PROVE  TypesInv'
  <2>1. editor[e] \in TestStates
    BY <1>8, CommandHolds DEF TestQueued
  <2>2. results' \in [Servers -> Results]
    BY <1>8, <2>1, RecordedTyped DEF TestQueued, TestStates
  <2>3. UNCHANGED <<secret, cache, queue, recent, locale, write, emit>> /\ Ends(e)
    BY <1>8 DEF TestQueued
  <2> QED BY <1>0, <1>2, <2>2, <2>3 DEF TypesInv
<1>9. ASSUME SameLocale(e)
      PROVE  TypesInv'
  BY <1>0, <1>9 DEF SameLocale, TypesInv
<1>10. ASSUME SetLocale(e)
       PROVE  TypesInv'
  <2> DEFINE free == Locales \ LocalesInUse
  <2>1. free \in SUBSET Nat /\ free # {} /\ locale' = Least(free)
    BY <1>10, IdentifiersAssumption DEF SetLocale
  <2>2. free \subseteq Locales
    OBVIOUS
  <2> HIDE DEF free
  <2>3. locale' \in Locales
    BY <2>1, <2>2, LeastIsOne
  <2>4. /\ dispatch' = e /\ editor' = [editor EXCEPT ![e] = [phase |-> "dropping"]]
        /\ UNCHANGED <<secret, cache, results, queue, recent, write, emit>>
    BY <1>10 DEF SetLocale
  <2>5. [phase |-> "dropping"] \in Droppings
    BY DEF Droppings
  <2> QED BY <1>0, <2>3, <2>4, <2>5 DEF TypesInv
<1>11. ASSUME DropQueue(e)
       PROVE  TypesInv'
  <2>1. /\ queue' = <<>> /\ recent' = [s \in Servers |-> NoEvent] /\ Ends(e)
        /\ UNCHANGED <<secret, cache, locale, write, emit>>
    BY <1>11 DEF DropQueue
  <2>2. results' \in [Servers -> Results]
    <3>1. \A s \in Servers : /\ cache[s].generation \in Generations \cup {0}
                             /\ results[s] \in Results
      BY DEF TypesInv, StoredConfigs, Configs, NoConfig
    <3>2. \A g \in Generations \cup {0} : [generation |-> g, text |-> "ended"] \in Results
      BY DEF Results
    <3> QED BY <1>11, <3>1, <3>2 DEF DropQueue
  <2>3. queue' \in Seq(Jobs) /\ Len(queue') <= QueueLimit
    BY <2>1, QueueAssumption
  <2> QED BY <1>0, <1>2, <2>1, <2>2, <2>3 DEF TypesInv
<1> QED
  BY <1>3, <1>4, <1>5, <1>6, <1>7, <1>8, <1>9, <1>10, <1>11 DEF Edits, EditorStep

(* Steps of a call of enqueue.                                             *)
LEMMA EmitTypes ==
  ASSUME TypesInv, NEW x \in Emitters, Emits(x)
  PROVE  TypesInv'
<1> USE DEF maps, destinations, telling
<1>1. UNCHANGED <<account, secret, cache, locale, dispatch, write, editor, worker>>
  BY DEF Emits, Admit, Push
<1>2. ASSUME EmitEnds(x)
      PROVE  emit' \in [Emitters -> {Idle} \cup Admissions \cup Pushes]
  BY <1>2 DEF EmitEnds, TypesInv
<1>3. ASSUME Admit(x)
      PROVE  TypesInv'
  <2>1. emit[x] \in Admissions
    BY <1>3, CallHolds DEF Admit
  <2>2. /\ emit[x].server \in Servers /\ emit[x].event \in Events
        /\ emit[x].config \in Configs /\ emit[x].config.generation \in Generations
    BY <2>1 DEF Admissions, Configs
  <2>3. UNCHANGED queue
    BY <1>3 DEF Admit
  <2>4. CASE /\ results' = Recorded(emit[x].server, emit[x].config.generation, "ended")
             /\ EmitEnds(x) /\ UNCHANGED recent
    BY <1>1, <1>2, <2>2, <2>3, <2>4, RecordedTyped DEF TypesInv
  <2>5. CASE EmitEnds(x) /\ UNCHANGED <<results, recent>>
    BY <1>1, <1>2, <2>3, <2>5 DEF TypesInv
  <2>6. CASE /\ locale # 0
             /\ recent' = [recent EXCEPT ![emit[x].server] = emit[x].event]
             /\ emit'   = [emit EXCEPT ![x].phase = "push", ![x].locale = locale]
             /\ UNCHANGED results
    <3> DEFINE call == [emit[x] EXCEPT !.phase = "push", !.locale = locale]
    <3>1. locale \in Locales
      BY <2>6 DEF TypesInv
    <3>2. call \in Pushes
      BY <2>1, <3>1 DEF Admissions, Pushes
    <3>3. emit' = [emit EXCEPT ![x] = call]
      BY <2>6 DEF TypesInv
    <3> HIDE DEF call
    <3>4. emit' \in [Emitters -> {Idle} \cup Admissions \cup Pushes]
      BY <3>2, <3>3 DEF TypesInv
    <3>5. recent' \in [Servers -> Events \cup {NoEvent}]
      BY <2>2, <2>6 DEF TypesInv
    <3> QED BY <1>1, <2>3, <2>6, <3>4, <3>5 DEF TypesInv
  <2> QED BY <1>3, <2>4, <2>5, <2>6 DEF Admit
<1>4. ASSUME Push(x)
      PROVE  TypesInv'
  <2>1. emit[x] \in Pushes
    BY <1>4, CallHolds DEF Push
  <2>2. JobOf(emit[x]) \in Jobs
    BY <2>1 DEF JobOf, Pushes, Configs, Jobs
  <2>3. EmitEnds(x) /\ UNCHANGED recent
    BY <1>4 DEF Push
  <2>4. queue \in Seq(Jobs) /\ Len(queue) <= QueueLimit /\ Len(queue) \in Nat
    BY DEF TypesInv
  <2>5. CASE Len(queue) >= QueueLimit
    <3>1. results' = JobRecorded(JobOf(emit[x])) /\ UNCHANGED queue
      BY <1>4, <2>5 DEF Push
    <3>2. results' \in [Servers -> Results]
      BY <2>2, <3>1, JobRecordedTyped
    <3> QED BY <1>1, <1>2, <2>3, <3>1, <3>2 DEF TypesInv
  <2>6. CASE ~(Len(queue) >= QueueLimit)
    <3>1. queue' = Append(queue, JobOf(emit[x])) /\ UNCHANGED results
      BY <1>4, <2>6 DEF Push
    <3>2. queue' \in Seq(Jobs) /\ Len(queue') = Len(queue) + 1
      BY <2>2, <2>4, <3>1
    <3>3. Len(queue') <= QueueLimit
      BY <2>4, <2>6, <3>2, QueueAssumption
    <3> QED BY <1>1, <1>2, <2>3, <3>1, <3>2, <3>3 DEF TypesInv
  <2> QED BY <2>5, <2>6
<1> QED BY <1>3, <1>4 DEF Emits

(* Commands given and returned, observed events, the account, and the      *)
(* steps of a change.                                                      *)
LEMMA OtherTypes ==
  ASSUME TypesInv
  PROVE  /\ \A e \in Editors : Returns(e) => TypesInv'
         /\ Requests => TypesInv'
         /\ Observes => TypesInv'
         /\ AccountChanges => TypesInv'
         /\ Writes => TypesInv'
         /\ WriteFails => TypesInv'
<1> USE DEF maps, destinations, telling
<1>1. ASSUME NEW e \in Editors, Returns(e)
      PROVE  TypesInv'
  BY <1>1 DEF Returns, Return, Ends, TypesInv
<1>2. ASSUME Requests
      PROVE  TypesInv'
  <2>1. UNCHANGED <<secret, cache, results, queue, recent, locale, dispatch, write, emit, worker>>
    BY <1>2 DEF Requests
  <2>2. PICK e \in Editors, cmd \in Commands, servers \in ServerSets : Issue(e, cmd, servers)
    BY <1>2 DEF Requests, Issue, ServerSets
  <2>3. [phase |-> "command", cmd |-> cmd, todo |-> servers] \in CommandStates
    BY DEF CommandStates
  <2>4. editor' \in [Editors -> {Idle} \cup CommandStates \cup TestStates \cup Droppings]
    BY <2>2, <2>3 DEF Issue, TypesInv
  <2>5. account' \in Accounts
    BY <2>2 DEF Issue, TypesInv, Accounts
  <2> QED BY <2>1, <2>4, <2>5 DEF TypesInv
<1>3. ASSUME Observes
      PROVE  TypesInv'
  <2>1. UNCHANGED <<account, secret, results, queue, recent, locale, dispatch, write, editor,
                    worker>>
    BY <1>3 DEF Observes
  <2>2. PICK x \in Observers, s \in Servers, event \in Events : Observe(x, s, event)
    BY <1>3 DEF Observes
  <2>3. cache' \in [Servers -> StoredConfigs]
    BY <2>2, Configurations DEF Observe
  <2>4. emit' \in [Emitters -> {Idle} \cup Admissions \cup Pushes]
    <3>1. x \in Emitters
      BY DEF Emitters
    <3>2. CASE ConfigOf(s).enabled
      <4>1. Emission(s, event, Enqueued(ConfigOf(s)), "admit") \in Admissions
        BY <3>2, Configurations, EnqueuedTyped DEF Emission, Admissions
      <4>2. emit' = [emit EXCEPT ![x] = Emission(s, event, Enqueued(ConfigOf(s)), "admit")]
        BY <2>2, <3>2 DEF Observe, EmitIfEnabled
      <4> QED BY <3>1, <4>1, <4>2 DEF TypesInv
    <3>3. CASE ~ConfigOf(s).enabled
      <4>1. emit' = [emit EXCEPT ![x] = Idle]
        BY <2>2, <3>3 DEF Observe, EmitIfEnabled
      <4> QED BY <3>1, <4>1 DEF TypesInv
    <3> QED BY <3>2, <3>3
  <2> QED BY <2>1, <2>3, <2>4 DEF TypesInv
<1>4. ASSUME AccountChanges
      PROVE  TypesInv'
  BY <1>4 DEF AccountChanges, TypesInv, Accounts
<1>5. ASSUME Writes
      PROVE  TypesInv'
  <2>1. UNCHANGED <<account, locale, dispatch, editor, emit, worker>>
    BY <1>5 DEF Writes
  <2>2. write \in Changes
    BY <1>5 DEF Writes, Store, ForgetServer, TypesInv, NoWrite
  <2>3. write.server \in Servers /\ write.config \in StoredConfigs
    BY <2>2 DEF Changes
  <2>4. CASE Store
    <3>1. write' \in Changes
      BY <2>2, <2>4 DEF Store, Changes
    <3>2. UNCHANGED <<results, queue, recent>>
      BY <2>4 DEF Store
    <3>3. secret' \in [Servers -> StoredConfigs] /\ cache' \in [Servers -> StoredConfigs]
      BY <2>3, <2>4 DEF Store, TypesInv
    <3> QED BY <2>1, <3>1, <3>2, <3>3 DEF TypesInv
  <2>5. CASE ForgetServer
    <3>1. UNCHANGED <<secret, cache>> /\ write' = NoWrite
      BY <2>5 DEF ForgetServer
    <3>2. recent' \in [Servers -> Events \cup {NoEvent}]
      BY <2>3, <2>5 DEF ForgetServer, TypesInv
    <3>3. results' \in [Servers -> Results]
      <4>1. [generation |-> write.config.generation, text |-> "ended"] \in Results
        BY <2>3 DEF Results, StoredConfigs, Configs, NoConfig
      <4>2. NoResult \in Results
        BY DEF NoResult, Results
      <4> QED BY <2>3, <2>5, <4>1, <4>2 DEF ForgetServer, TypesInv
    <3>4. queue' \in Seq(Jobs) /\ Len(queue') <= QueueLimit
      <4>1. queue \in Seq(Jobs) /\ Len(queue) <= QueueLimit /\ Len(queue) \in Nat
        BY DEF TypesInv
      <4>2. Without(write.server) \in Seq(Jobs) /\ Len(Without(write.server)) <= Len(queue)
        BY <4>1, WithoutTyped
      <4>3. queue' = Without(write.server)
        BY <2>5 DEF ForgetServer
      <4>4. Len(queue') \in Nat
        BY <4>2, <4>3
      <4> QED BY <4>1, <4>2, <4>3, <4>4, QueueAssumption
    <3> QED BY <2>1, <3>1, <3>2, <3>3, <3>4 DEF TypesInv
  <2> QED BY <1>5, <2>4, <2>5 DEF Writes
<1>6. ASSUME WriteFails
      PROVE  TypesInv'
  BY <1>6 DEF WriteFails, StoreRefuses, TypesInv
<1> QED BY <1>1, <1>2, <1>3, <1>4, <1>5, <1>6

(* Steps of the worker.                                                    *)
LEMMA WorkerTypes ==
  ASSUME TypesInv, WorkerRuns \/ WorkerWaits
  PROVE  TypesInv'
<1> USE DEF maps, destinations, telling
<1>0. UNCHANGED <<account, locale, editor, emit>>
  BY DEF WorkerRuns, WorkerWaits
<1>1. ASSUME LookAtAccount
      PROVE  TypesInv'
  <2>1. [phase |-> "round", todo |-> Servers, seen |-> account] \in Rounds
    BY DEF Rounds, TypesInv, ServerSets
  <2> QED BY <1>0, <1>1, <2>1 DEF LookAtAccount, TypesInv
<1>2. ASSUME NEW s \in Servers, Inspect(s)
      PROVE  TypesInv'
  <2>1. worker \in Rounds
    BY <1>2, WorkerHolds DEF Inspect, WorkerAt
  <2>2. cache' \in [Servers -> StoredConfigs]
    BY <1>2, Configurations DEF Inspect
  <2>3. worker' \in Rounds \cup Revocations
    <3> DEFINE rest == worker.todo \ {s}
    <3>1. worker.seen \in Accounts /\ rest \in ServerSets
      BY <2>1 DEF Rounds, ServerSets
    <3>2. [worker EXCEPT !.todo = rest] \in Rounds
      BY <2>1, <3>1 DEF Rounds
    <3>3. [phase |-> "revoke", server |-> s, todo |-> rest, seen |-> worker.seen] \in Revocations
      BY <3>1 DEF Revocations
    <3> QED BY <1>2, <3>2, <3>3 DEF Inspect
  <2>4. UNCHANGED <<secret, results, queue, recent, dispatch, write>>
    BY <1>2 DEF Inspect
  <2> QED BY <1>0, <2>2, <2>3, <2>4 DEF TypesInv
<1>3. ASSUME Revoked
      PROVE  TypesInv'
  <2>1. worker \in Revocations
    BY <1>3, WorkerHolds DEF Revoked, WorkerAt
  <2>2. [phase |-> "round", todo |-> worker.todo, seen |-> worker.seen] \in Rounds
    BY <2>1 DEF Revocations, Rounds
  <2> QED BY <1>0, <1>3, <2>2 DEF Revoked, Release, TypesInv
<1>4. ASSUME TakeJob
      PROVE  TypesInv'
  <2>1. UNCHANGED <<secret, cache, results, recent, dispatch, write>>
    BY <1>4 DEF TakeJob
  <2>2. queue \in Seq(Jobs) /\ Len(queue) <= QueueLimit
    BY DEF TypesInv
  <2>3. CASE queue = <<>>
    BY <1>0, <1>4, <2>1, <2>3 DEF TakeJob, Looping, Loops, TypesInv
  <2>4. CASE queue # <<>>
    <3>1. Head(queue) \in Jobs /\ Tail(queue) \in Seq(Jobs) /\ Len(Tail(queue)) <= Len(queue)
      BY <2>2, <2>4
    <3>2. queue' = Tail(queue) /\ worker' = [phase |-> "attempt", job |-> Head(queue), tries |-> 1]
      BY <1>4, <2>4 DEF TakeJob
    <3>3. worker' \in Deliveries
      BY <3>1, <3>2 DEF Deliveries
    <3>4. queue' \in Seq(Jobs) /\ Len(queue') <= QueueLimit
      BY <2>2, <3>1, <3>2, QueueAssumption
    <3> QED BY <1>0, <2>1, <3>3, <3>4 DEF TypesInv
  <2> QED BY <2>3, <2>4
<1>5. ASSUME Disqualified
      PROVE  TypesInv'
  <2>1. worker \in Deliveries
    BY <1>5, WorkerHolds DEF Disqualified, WorkerAt
  <2>2. worker' \in Dones
    BY <1>5, <2>1 DEF Disqualified, WorkerIsDone, Deliveries, Dones
  <2> QED BY <1>0, <1>5, <2>2 DEF Disqualified, Release, TypesInv
<1>6. ASSUME Respond
      PROVE  TypesInv'
  <2>1. worker \in Deliveries
    BY <1>6, WorkerHolds DEF Respond, WorkerAt
  <2>2. worker' \in Dones
    BY <1>6, <2>1 DEF Respond, WorkerIsDone, Deliveries, Dones
  <2> QED BY <1>0, <1>6, <2>2 DEF Respond, Release, TypesInv
<1>7. ASSUME RateLimited
      PROVE  TypesInv'
  <2>1. worker \in Deliveries
    BY <1>7, WorkerHolds DEF RateLimited, WorkerAt
  <2>2. worker' \in Deliveries
    <3>1. worker.tries + 1 \in Nat
      BY <2>1 DEF Deliveries
    <3>2. worker' = [worker EXCEPT !.phase = "attempt", !.tries = worker.tries + 1]
      BY <1>7 DEF RateLimited
    <3> QED BY <2>1, <3>1, <3>2 DEF Deliveries
  <2> QED BY <1>0, <1>7, <2>2 DEF RateLimited, Release, TypesInv
<1>8. ASSUME RecordResult
      PROVE  TypesInv'
  <2>1. worker \in Dones
    BY <1>8, WorkerHolds DEF RecordResult, WorkerAt
  <2>2. results' \in [Servers -> Results]
    BY <1>8, <2>1, JobRecordedTyped DEF RecordResult, Dones
  <2> QED BY <1>0, <1>8, <2>2 DEF RecordResult, Looping, Loops, TypesInv
<1>9. ASSUME LockToRevoke
      PROVE  TypesInv'
  <2>1. worker \in Revocations /\ worker.server \in Servers
    BY <1>9, WorkerHolds DEF LockToRevoke, WorkerAt, Revocations
  <2>2. worker' \in Revocations
    BY <1>9, <2>1 DEF LockToRevoke, WorkerGoes, Revocations
  <2>3. Disable(worker.server) /\ dispatch' = "worker"
    BY <1>9 DEF LockToRevoke, Acquire
  <2> QED BY <1>0, <2>1, <2>2, <2>3, DisableEffect DEF TypesInv
<1>10. ASSUME Disqualify
       PROVE  TypesInv'
  <2>1. worker \in Deliveries /\ worker.job.server \in Servers
    BY <1>10, WorkerHolds DEF Disqualify, WorkerAt, Deliveries, Jobs
  <2>2. worker' \in Deliveries
    BY <1>10, <2>1 DEF Disqualify, WorkerGoes, Deliveries
  <2>3. Disable(worker.job.server) /\ dispatch' = "worker"
    BY <1>10 DEF Disqualify, Acquire
  <2> QED BY <1>0, <2>1, <2>2, <2>3, DisableEffect DEF TypesInv
<1>11. ASSUME Authorize
       PROVE  TypesInv'
  <2>1. worker \in Deliveries /\ worker.job.server \in Servers
    BY <1>11, WorkerHolds DEF Authorize, WorkerAt, Deliveries, Jobs
  <2>2. worker' \in Deliveries
    BY <1>11, <2>1 DEF Authorize, WorkerGoes, Deliveries
  <2>3. cache' \in [Servers -> StoredConfigs]
    BY <1>11, <2>1, Configurations DEF Authorize
  <2>4. UNCHANGED <<secret, results, queue, recent, write>> /\ dispatch' = "worker"
    BY <1>11 DEF Authorize, Acquire
  <2> QED BY <1>0, <2>2, <2>3, <2>4 DEF TypesInv
<1>12. ASSUME GiveUp
       PROVE  TypesInv'
  <2>1. worker \in Deliveries /\ worker.job.server \in Servers
    BY <1>12, WorkerHolds DEF GiveUp, WorkerAt, Deliveries, Jobs
  <2>2. worker' \in Dones
    BY <1>12, <2>1 DEF GiveUp, WorkerIsDone, Deliveries, Dones
  <2>3. cache' \in [Servers -> StoredConfigs]
    BY <1>12, <2>1, Configurations DEF GiveUp, TypesInv
  <2>4. UNCHANGED <<secret, results, queue, recent, dispatch, write>>
    BY <1>12 DEF GiveUp
  <2> QED BY <1>0, <2>2, <2>3, <2>4 DEF TypesInv
<1> QED
  BY <1>1, <1>2, <1>3, <1>4, <1>5, <1>6, <1>7, <1>8, <1>9, <1>10, <1>11, <1>12
     DEF WorkerRuns, WorkerStep, WorkerWaits, WorkerLocks

(* Every step keeps the types.                                             *)
LEMMA TypesStep ==
  ASSUME TypesInv, [DiscordNext]_discordVars
  PROVE  TypesInv'
<1>1. CASE UNCHANGED discordVars
  BY <1>1 DEF TypesInv, discordVars, maps, destinations, telling
<1>2. CASE DiscordNext
  BY <1>2, EditorTypes, EmitTypes, OtherTypes, WorkerTypes DEF DiscordNext
<1> QED BY <1>1, <1>2

(* They hold at first.                                                     *)
LEMMA TypesInit == DiscordInit => TypesInv
<1> SUFFICES ASSUME DiscordInit
             PROVE  TypesInv
  OBVIOUS
<1>1. secret \in [Servers -> StoredConfigs] /\ cache \in [Servers -> StoredConfigs]
  BY DEF DiscordInit, StoredConfigs
<1>2. results \in [Servers -> Results]
  BY DEF DiscordInit, NoResult, Results
<1>3. queue \in Seq(Jobs) /\ Len(queue) <= QueueLimit
  BY QueueAssumption DEF DiscordInit
<1>4. worker \in Loops
  BY DEF DiscordInit, Looping, Loops
<1> QED BY <1>1, <1>2, <1>3, <1>4 DEF DiscordInit, TypesInv, Accounts

(***************************************************************************)
(* Who holds dispatch_lock.                                                *)
(***************************************************************************)

(* A command that turns to a server holds the lock, and the worker does    *)
(* not.                                                                    *)
LEMMA LockEditor ==
  ASSUME TypesInv, LockInv, NEW e \in Editors, Edits(e)
  PROVE  LockInv'
<1> USE DEF maps, destinations, telling
<1>0. worker' = worker /\ e # "worker" /\ e # "nobody"
  BY ActorsAssumption DEF Edits
<1>1. ASSUME NEW s \in Servers,
             NEW cmds \in SUBSET {"save", "enable", "disable", "delete", "logout", "test"},
             Turns(e, cmds, s), Turned(e, s)
      PROVE  LockInv'
  <2>1. /\ editor[e] \in CommandStates /\ editor[e].cmd # "setLocale"
        /\ dispatch \in {"nobody", e} /\ write = NoWrite
    BY <1>1, CommandHolds DEF Turns, MayLock
  <2>2. dispatch' = e /\ editor' = [editor EXCEPT ![e].todo = @ \ {s}]
    BY <1>1 DEF Turned
  <2>3. editor'[e].phase = "command" /\ editor'[e].cmd # "setLocale" /\ editor'[e] # Idle
    BY <2>1, <2>2 DEF TypesInv, CommandStates, Idle
  <2>4. \A d \in Editors : d # e => editor'[d] = editor[d] /\ dispatch # d
    BY <2>1, <2>2, ActorsAssumption DEF TypesInv
  <2>5. ~(worker.phase \in {"disabling", "disqualified", "sending"})
    BY <1>0, <2>1 DEF LockInv
  <2> QED BY <1>0, <2>2, <2>3, <2>4, <2>5 DEF LockInv
<1>2. ASSUME Ends(e), dispatch = e, write' = NoWrite
      PROVE  LockInv'
  <2>1. /\ dispatch' = "nobody" /\ editor'[e] = Idle
        /\ \A d \in Editors : d # e => editor'[d] = editor[d]
    BY <1>2 DEF Ends, TypesInv
  <2>2. ~(worker.phase \in {"disabling", "disqualified", "sending"})
    BY <1>0, <1>2 DEF LockInv
  <2>3. \A d \in Editors : d # "nobody" /\ ~(d # e /\ editor[d].phase \in {"testing", "dropping"})
    BY <1>2, ActorsAssumption DEF LockInv
  <2> QED BY <1>0, <1>2, <2>1, <2>2, <2>3 DEF LockInv, Idle
<1>3. ASSUME NEW s \in Servers,
             SaveDestination(e, s) \/ DeleteDestination(e, s) \/ LogoutDisables(e, s)
      PROVE  LockInv'
  BY <1>1, <1>3 DEF SaveDestination, DeleteDestination, LogoutDisables
<1>4. ASSUME NEW s \in Servers, NEW retargeted \in BOOLEAN, SetNotifications(e, s, retargeted)
      PROVE  LockInv'
  BY <1>1, <1>4 DEF SetNotifications
<1>5. ASSUME NEW s \in Servers, Test(e, s)
      PROVE  LockInv'
  <2>1. Turns(e, {"test"}, s) /\ UNCHANGED write
    BY <1>5 DEF Test
  <2>2. CASE locale # 0 /\ ConfigOf(s).enabled
    <3>1. dispatch \in {"nobody", e} /\ write = NoWrite
      BY <2>1 DEF Turns, MayLock
    <3>2. dispatch' = e /\ editor' = [editor EXCEPT ![e] =
             [phase |-> "testing", server |-> s, generation |-> ConfigOf(s).generation]]
      BY <1>5, <2>2 DEF Test
    <3>3. editor'[e].phase = "testing" /\ editor'[e] # Idle
      BY <3>2 DEF TypesInv, Idle
    <3>4. \A d \in Editors : d # e => editor'[d] = editor[d] /\ dispatch # d
      BY <3>1, <3>2, ActorsAssumption DEF TypesInv
    <3>5. ~(worker.phase \in {"disabling", "disqualified", "sending"})
      BY <1>0, <3>1 DEF LockInv
    <3> QED BY <1>0, <2>1, <3>1, <3>2, <3>3, <3>4, <3>5 DEF LockInv
  <2>3. CASE ~(locale # 0 /\ ConfigOf(s).enabled)
    BY <1>1, <1>5, <2>1, <2>3 DEF Test
  <2> QED BY <2>2, <2>3
<1>6. ASSUME TestQueued(e)
      PROVE  LockInv'
  BY <1>2, <1>6 DEF TestQueued, LockInv
<1>7. ASSUME SameLocale(e)
      PROVE  LockInv'
  <2>1. editor' = [editor EXCEPT ![e] = Idle] /\ dispatch # e /\ UNCHANGED <<dispatch, write>>
    BY <1>7 DEF SameLocale, TurnsToLocale, LockInv
  <2>2. editor'[e] = Idle /\ \A d \in Editors : d # e => editor'[d] = editor[d]
    BY <2>1 DEF TypesInv
  <2> QED BY <1>0, <2>1, <2>2 DEF LockInv, Idle
<1>8. ASSUME SetLocale(e)
      PROVE  LockInv'
  <2>1. /\ editor[e].phase = "command" /\ editor[e].cmd = "setLocale" /\ dispatch \in {"nobody", e}
        /\ dispatch' = e /\ write' = write
        /\ editor' = [editor EXCEPT ![e] = [phase |-> "dropping"]]
    BY <1>8 DEF SetLocale, TurnsToLocale, MayLock
  <2>2. dispatch = "nobody" /\ write = NoWrite
    BY <2>1 DEF LockInv
  <2>3. editor'[e].phase = "dropping" /\ editor'[e] # Idle
    BY <2>1 DEF TypesInv, Idle
  <2>4. \A d \in Editors : d # e => editor'[d] = editor[d] /\ d # "nobody"
    BY <2>1, ActorsAssumption DEF TypesInv
  <2>5. ~(worker.phase \in {"disabling", "disqualified", "sending"})
    BY <2>2 DEF LockInv
  <2> QED BY <1>0, <2>1, <2>2, <2>3, <2>4, <2>5 DEF LockInv
<1>9. ASSUME DropQueue(e)
      PROVE  LockInv'
  BY <1>2, <1>9 DEF DropQueue, LockInv
<1> QED BY <1>3, <1>4, <1>5, <1>6, <1>7, <1>8, <1>9 DEF Edits, EditorStep

(* A command that returns gives the lock back; nobody else but the worker  *)
(* touches it.                                                             *)
LEMMA LockOthers ==
  ASSUME TypesInv, LockInv
  PROVE  /\ \A e \in Editors : Returns(e) => LockInv'
         /\ \A x \in Emitters : Emits(x) => LockInv'
         /\ Requests => LockInv'
         /\ Observes \/ AccountChanges => LockInv'
         /\ Writes \/ WriteFails => LockInv'
<1> USE DEF maps, destinations, telling
<1>1. ASSUME NEW e \in Editors, Returns(e)
      PROVE  LockInv'
  <2>1. /\ dispatch = e /\ write = NoWrite /\ UNCHANGED <<write, worker>>
        /\ dispatch' = "nobody" /\ editor' = [editor EXCEPT ![e] = Idle]
    BY <1>1 DEF Returns, Return, Ends
  <2>2. editor'[e] = Idle /\ \A d \in Editors : d # e => editor'[d] = editor[d]
    BY <2>1 DEF TypesInv
  <2>3. ~(worker.phase \in {"disabling", "disqualified", "sending"})
    BY <2>1, ActorsAssumption DEF LockInv
  <2>4. \A d \in Editors : d # "nobody" /\ ~(d # e /\ editor[d].phase \in {"testing", "dropping"})
    BY <2>1, ActorsAssumption DEF LockInv
  <2> QED BY <2>1, <2>2, <2>3, <2>4 DEF LockInv, Idle
<1>2. ASSUME NEW x \in Emitters, Emits(x)
      PROVE  LockInv'
  BY <1>2 DEF Emits, LockInv
<1>3. ASSUME Requests
      PROVE  LockInv'
  <2>1. UNCHANGED <<dispatch, write, worker>>
    BY <1>3 DEF Requests
  <2>2. PICK e \in Editors, cmd \in Commands, servers \in ServerSets : Issue(e, cmd, servers)
    BY <1>3 DEF Requests, Issue, ServerSets
  <2>3. editor[e] = Idle /\ editor'[e] = [phase |-> "command", cmd |-> cmd, todo |-> servers]
        /\ \A d \in Editors : d # e => editor'[d] = editor[d]
    BY <2>2 DEF Issue, TypesInv
  <2>4. editor'[e].phase = "command" /\ dispatch # e
    BY <2>3 DEF LockInv
  <2> QED BY <2>1, <2>3, <2>4 DEF LockInv
<1>4. ASSUME Observes \/ AccountChanges
      PROVE  LockInv'
  BY <1>4 DEF Observes, AccountChanges, LockInv
<1>5. ASSUME Writes \/ WriteFails
      PROVE  LockInv'
  <2>1. UNCHANGED <<dispatch, editor, worker>>
    BY <1>5 DEF Writes, WriteFails
  <2>2. write # NoWrite
    BY <1>5 DEF Writes, WriteFails, Store, ForgetServer, StoreRefuses, NoWrite
  <2> QED BY <2>1, <2>2 DEF LockInv
<1> QED BY <1>1, <1>2, <1>3, <1>4, <1>5

(* The worker holds the lock exactly in the phases that disable or send.   *)
LEMMA LockWorker ==
  ASSUME TypesInv, LockInv, WorkerRuns \/ WorkerWaits
  PROVE  LockInv'
<1> USE DEF maps, destinations, telling
<1>0. editor' = editor
  BY DEF WorkerRuns, WorkerWaits
<1>1. ASSUME UNCHANGED <<dispatch, write>>,
             ~(worker.phase \in {"disabling", "disqualified", "sending"}),
             ~(worker'.phase \in {"disabling", "disqualified", "sending"})
      PROVE  LockInv'
  BY <1>0, <1>1 DEF LockInv
<1>2. ASSUME worker.phase \in {"disabling", "disqualified", "sending"}, write = NoWrite,
             dispatch' = "nobody", write' = write,
             ~(worker'.phase \in {"disabling", "disqualified", "sending"})
      PROVE  LockInv'
  <2>1. \A d \in Editors : d # "nobody" /\ ~(editor[d].phase \in {"testing", "dropping"})
    BY <1>2, ActorsAssumption DEF LockInv
  <2> QED BY <1>0, <1>2, <2>1 DEF LockInv
<1>3. ASSUME Acquire, worker'.phase \in {"disabling", "disqualified", "sending"},
             worker'.phase = "sending" => write' = write
      PROVE  LockInv'
  <2>1. dispatch = "nobody" /\ dispatch' = "worker" /\ write = NoWrite
    BY <1>3 DEF Acquire, LockInv
  <2>2. \A d \in Editors : d # "worker" /\ ~(editor[d].phase \in {"testing", "dropping"})
    BY <2>1, ActorsAssumption DEF LockInv
  <2> QED BY <1>0, <1>3, <2>1, <2>2 DEF LockInv
<1>4. CASE LookAtAccount
  BY <1>1, <1>4 DEF LookAtAccount, WorkerAt
<1>5. ASSUME NEW s \in Servers, Inspect(s)
      PROVE  LockInv'
  <2>1. worker \in Rounds
    BY <1>5, WorkerHolds DEF Inspect, WorkerAt
  <2>2. worker'.phase \in {"round", "revoke"}
    BY <1>5, <2>1 DEF Inspect, Rounds
  <2> QED BY <1>1, <1>5, <2>2 DEF Inspect, WorkerAt
<1>6. CASE Revoked
  BY <1>2, <1>6 DEF Revoked, WorkerAt, Release
<1>7. CASE TakeJob
  BY <1>1, <1>7 DEF TakeJob, WorkerAt, Looping
<1>8. WorkerIsDone => worker'.phase = "done"
  BY DEF WorkerIsDone
<1>9. CASE Disqualified
  <2>1. worker'.phase = "done"
    BY <1>8, <1>9 DEF Disqualified
  <2> QED BY <1>2, <1>9, <2>1 DEF Disqualified, WorkerAt, Release
<1>10. CASE Respond
  <2>1. worker'.phase = "done"
    BY <1>8, <1>10 DEF Respond
  <2> QED BY <1>2, <1>10, <2>1 DEF Respond, WorkerAt, Release, LockInv
<1>11. CASE RateLimited
  <2>1. worker \in Deliveries
    BY <1>11, WorkerHolds DEF RateLimited, WorkerAt
  <2>2. worker'.phase = "attempt"
    BY <1>11, <2>1 DEF RateLimited, Deliveries
  <2> QED BY <1>2, <1>11, <2>2 DEF RateLimited, WorkerAt, Release, LockInv
<1>12. CASE RecordResult
  BY <1>1, <1>12 DEF RecordResult, WorkerAt, Looping
<1>13. CASE LockToRevoke
  <2>1. worker'.phase = "disabling"
    BY <1>13, WorkerHolds DEF LockToRevoke, WorkerAt, WorkerGoes, Revocations
  <2> QED BY <1>3, <1>13, <2>1 DEF LockToRevoke
<1>14. CASE Disqualify
  <2>1. worker'.phase = "disqualified"
    BY <1>14, WorkerHolds DEF Disqualify, WorkerAt, WorkerGoes, Deliveries
  <2> QED BY <1>3, <1>14, <2>1 DEF Disqualify
<1>15. CASE Authorize
  <2>1. worker'.phase = "sending"
    BY <1>15, WorkerHolds DEF Authorize, WorkerAt, WorkerGoes, Deliveries
  <2> QED BY <1>3, <1>15, <2>1 DEF Authorize
<1>16. CASE GiveUp
  <2>1. worker'.phase = "done"
    BY <1>8, <1>16 DEF GiveUp
  <2> QED BY <1>1, <1>16, <2>1 DEF GiveUp, WorkerAt
<1> QED
  BY <1>4, <1>5, <1>6, <1>7, <1>9, <1>10, <1>11, <1>12, <1>13, <1>14, <1>15, <1>16
     DEF WorkerRuns, WorkerStep, WorkerWaits, WorkerLocks

(* Every step keeps the lock with who says to hold it.                     *)
LEMMA LockStep ==
  ASSUME TypesInv, LockInv, [DiscordNext]_discordVars
  PROVE  LockInv'
<1>1. CASE UNCHANGED discordVars
  BY <1>1 DEF LockInv, discordVars
<1>2. CASE DiscordNext
  BY <1>2, LockEditor, LockOthers, LockWorker DEF DiscordNext
<1> QED BY <1>1, <1>2

(* At first nobody holds it.                                               *)
LEMMA LockInit == DiscordInit => LockInv
<1> SUFFICES ASSUME DiscordInit
             PROVE  LockInv
  OBVIOUS
<1>1. worker.phase = "loop"
  BY DEF DiscordInit, Looping
<1>2. \A e \in Editors : editor[e] = Idle /\ dispatch # e /\ Idle.phase = "idle"
  BY ActorsAssumption DEF DiscordInit, Idle
<1> QED BY <1>1, <1>2 DEF DiscordInit, LockInv

(***************************************************************************)
(* The cache agrees with the credential store.                             *)
(***************************************************************************)

(* What is loaded is what is cached or stored.                             *)
LEMMA LoadAgrees ==
  ASSUME TypesInv, AgreesInv, NEW s \in Servers, Load(s), secret' = secret
  PROVE  AgreesInv'
<1>1. \A d \in Servers : cache'[d] = IF d = s THEN ConfigOf(s) ELSE cache[d]
  BY DEF Load, TypesInv
<1> QED BY <1>1 DEF AgreesInv, ConfigOf, Present

(* What a step may do to destinations: nothing, fill the cache, or store a *)
(* change.                                                                 *)
LEMMA DestinationSteps ==
  ASSUME TypesInv, DiscordNext
  PROVE  \/ UNCHANGED destinations
         \/ \E s \in Servers : Load(s) /\ secret' = secret
         \/ Store
<1> USE DEF destinations, maps
<1>1. ASSUME NEW e \in Editors, Edits(e), ~UNCHANGED destinations
      PROVE  \E s \in Servers : Load(s) /\ secret' = secret
  BY <1>1 DEF Edits, EditorStep, SaveDestination, DeleteDestination, LogoutDisables, Disable, Test,
              SetNotifications, TestQueued, SetLocale, SameLocale, DropQueue
<1>2. ASSUME NEW e \in Editors, Returns(e)
      PROVE  UNCHANGED destinations
  BY <1>2 DEF Returns
<1>3. ASSUME NEW x \in Emitters, Emits(x)
      PROVE  UNCHANGED destinations
  BY <1>3 DEF Emits, Admit, Push
<1>4. ASSUME Requests \/ AccountChanges
      PROVE  UNCHANGED destinations
  BY <1>4 DEF Requests, AccountChanges
<1>5. ASSUME Observes
      PROVE  \E s \in Servers : Load(s) /\ secret' = secret
  BY <1>5 DEF Observes, Observe
<1>6. ASSUME Writes \/ WriteFails
      PROVE  Store \/ UNCHANGED destinations
  BY <1>6 DEF Writes, WriteFails, ForgetServer, StoreRefuses
<1>7. ASSUME WorkerRuns
      PROVE  UNCHANGED destinations \/ \E s \in Servers : Load(s) /\ secret' = secret
  BY <1>7 DEF WorkerRuns, WorkerStep, LookAtAccount, Inspect, Revoked, TakeJob, Disqualified,
              Respond, RateLimited, RecordResult
<1>8. ASSUME WorkerWaits
      PROVE  UNCHANGED destinations \/ \E s \in Servers : Load(s) /\ secret' = secret
  <2>1. CASE LockToRevoke
    <3>1. worker.server \in Servers /\ Disable(worker.server)
      BY <2>1, WorkerHolds DEF LockToRevoke, WorkerAt, Revocations
    <3> QED BY <3>1 DEF Disable
  <2>2. CASE ~LockToRevoke
    <3>1. worker \in Deliveries /\ worker.job.server \in Servers
      BY <1>8, <2>2, WorkerHolds
         DEF WorkerWaits, WorkerLocks, Disqualify, Authorize, GiveUp, WorkerAt, Deliveries, Jobs
    <3>2. CASE Disqualify
      BY <3>1, <3>2 DEF Disqualify, Disable
    <3>3. CASE Authorize
      BY <3>1, <3>3 DEF Authorize
    <3>4. CASE GiveUp
      BY <3>1, <3>4 DEF GiveUp
    <3> QED BY <1>8, <2>2, <3>2, <3>3, <3>4 DEF WorkerWaits, WorkerLocks
  <2> QED BY <2>1, <2>2
<1> QED
  BY <1>1, <1>2, <1>3, <1>4, <1>5, <1>6, <1>7, <1>8 DEF DiscordNext

(* Every step keeps the cache in agreement with the credential store.      *)
LEMMA AgreesStep ==
  ASSUME TypesInv, AgreesInv, [DiscordNext]_discordVars
  PROVE  AgreesInv'
<1>1. CASE UNCHANGED destinations
  BY <1>1 DEF AgreesInv, destinations
<1>2. CASE \E s \in Servers : Load(s) /\ secret' = secret
  BY <1>2, LoadAgrees
<1>3. CASE Store
  <2>1. \A d \in Servers :
          /\ cache'[d] = IF d = write.server THEN write.config ELSE cache[d]
          /\ secret'[d] = IF d = write.server THEN write.config ELSE secret[d]
    BY <1>3 DEF Store, TypesInv
  <2> QED BY <2>1 DEF AgreesInv, Present
<1> QED BY <1>1, <1>2, <1>3, DestinationSteps DEF discordVars, maps

(* At first nothing is cached.                                             *)
LEMMA AgreesInit == DiscordInit => AgreesInv
BY DEF DiscordInit, AgreesInv, Present, NoConfig

(***************************************************************************)
(* While a notification is sent, the worker holds the lock: a change of a  *)
(* configuration is not begun and the language is not set.                 *)
(***************************************************************************)

(* What is sent stays current, and is when the sending begins.             *)
LEMMA SentStep ==
  ASSUME TypesInv, LockInv, AgreesInv, SentInv, [DiscordNext]_discordVars
  PROVE  SentInv'
<1>1. CASE worker.phase = "sending" /\ worker' = worker
  <2>1. dispatch = "worker" /\ write = NoWrite
    BY <1>1 DEF LockInv
  <2>2. secret' = secret
    <3>1. CASE DiscordNext
      <4>1. ~Store
        BY <2>1 DEF Store, NoWrite
      <4> QED BY <3>1, <4>1, DestinationSteps DEF destinations
    <3>2. CASE UNCHANGED discordVars
      BY <3>2 DEF discordVars, maps, destinations
    <3> QED BY <3>1, <3>2
  <2>3. locale' = locale
    <3>1. \A e \in Editors : ~SetLocale(e)
      BY <2>1, ActorsAssumption DEF SetLocale, TurnsToLocale, MayLock
    <3>2. ASSUME NEW e \in Editors, Edits(e)
          PROVE  locale' = locale
      BY <3>1, <3>2 DEF Edits, EditorStep, SaveDestination, DeleteDestination, LogoutDisables, Test,
                        SetNotifications, TestQueued, SameLocale, DropQueue, maps
    <3> QED
      BY <3>2 DEF DiscordNext, discordVars, Returns, Emits, Requests, Observes, AccountChanges,
                  Writes, WriteFails, WorkerRuns, WorkerWaits
  <2> QED BY <1>1, <2>2, <2>3 DEF SentInv
<1>2. CASE worker' # worker /\ worker'.phase = "sending"
  <2>1. DiscordNext /\ (WorkerRuns \/ WorkerWaits)
    BY <1>2 DEF DiscordNext, discordVars, Edits, Returns, Emits, Requests, Observes,
                AccountChanges, Writes, WriteFails
  <2>2. locale' = locale
    BY <2>1 DEF WorkerRuns, WorkerWaits
  <2>3. Authorize
    <3>1. worker'.phase # "sending" \/ Authorize
      <4> SUFFICES ASSUME ~Authorize
                   PROVE  worker'.phase # "sending"
        OBVIOUS
      <4>1. CASE LookAtAccount \/ TakeJob \/ RecordResult \/ Revoked
        BY <4>1 DEF LookAtAccount, TakeJob, RecordResult, Revoked, Looping
      <4>2. ASSUME NEW s \in Servers, Inspect(s)
            PROVE  worker'.phase # "sending"
        <5>1. worker \in Rounds
          BY <4>2, WorkerHolds DEF Inspect, WorkerAt
        <5> QED BY <4>2, <5>1 DEF Inspect, Rounds
      <4>3. CASE RateLimited \/ Disqualify
        <5>1. worker \in Deliveries
          BY <4>3, WorkerHolds DEF RateLimited, Disqualify, WorkerAt
        <5> QED BY <4>3, <5>1 DEF RateLimited, Disqualify, WorkerGoes, Deliveries
      <4>4. CASE LockToRevoke
        BY <4>4, WorkerHolds DEF LockToRevoke, WorkerAt, WorkerGoes, Revocations
      <4>5. CASE Disqualified \/ Respond \/ GiveUp
        BY <4>5 DEF Disqualified, Respond, GiveUp, WorkerIsDone
      <4> QED
        BY <2>1, <4>1, <4>2, <4>3, <4>4, <4>5 DEF WorkerRuns, WorkerStep, WorkerWaits, WorkerLocks
    <3> QED BY <1>2, <3>1
  <2>4. worker \in Deliveries /\ worker.job.server \in Servers
    BY <2>3, WorkerHolds DEF Authorize, WorkerAt, Deliveries, Jobs
  <2>5. worker'.job = worker.job /\ secret' = secret
    BY <2>3, <2>4 DEF Authorize, WorkerGoes, Deliveries
  <2>6. ConfigOf(worker.job.server) = secret[worker.job.server]
    BY <2>4 DEF AgreesInv, ConfigOf
  <2>7. /\ secret[worker.job.server].enabled
        /\ secret[worker.job.server].generation = worker.job.generation
        /\ locale = worker.job.locale
    BY <2>3, <2>6 DEF Authorize, Sendable
  <2> QED BY <2>2, <2>5, <2>7 DEF SentInv
<1> QED BY <1>1, <1>2 DEF SentInv

(* At first nothing is sent.                                               *)
LEMMA SentInit == DiscordInit => SentInv
BY DEF DiscordInit, SentInv, Looping

(***************************************************************************)
(* Results.                                                                *)
(***************************************************************************)

(* A configuration is loaded, or a change begun or refused: no result is   *)
(* of another destination for it.                                          *)
LEMMA ResultsKept ==
  ASSUME TypesInv, ResultsInv, results' = results,
         cache' = cache \/ \E s \in Servers : Load(s),
         \/ write' = write
         \/ write = NoWrite /\ (write'.cancelled => write'.config \in Configs)
         \/ write.step = "store" /\ write' = NoWrite
  PROVE  ResultsInv'
<1>1. ASSUME NEW s \in Servers, results[s] # NoResult
      PROVE  /\ results[s].generation # 0
             /\ results[s].generation = cache[s].generation \/ (Forgetting(s) /\ write' = write)
  BY <1>1 DEF ResultsInv, Forgetting, NoWrite
<1>2. ASSUME NEW s \in Servers, cache[s].generation # 0
      PROVE  cache'[s] = cache[s]
  BY <1>2 DEF Load, ConfigOf, Present, TypesInv
<1>3. ASSUME NEW s \in Servers, results[s] # NoResult
      PROVE  /\ results[s].generation # 0
             /\ results[s].generation = cache'[s].generation \/ Forgetting(s)'
  BY <1>1, <1>2, <1>3 DEF Forgetting
<1>4. write' # NoWrite /\ write'.cancelled => write'.config \in Configs
  BY DEF ResultsInv
<1> QED BY <1>3, <1>4 DEF ResultsInv

(* A result is recorded only of the cached configuration.                  *)
LEMMA ResultsRecorded ==
  ASSUME TypesInv, ResultsInv, UNCHANGED <<cache, write>>,
         NEW s \in Servers, NEW g \in Generations, NEW text,
         results' = results \/ results' = Recorded(s, g, text)
  PROVE  ResultsInv'
<1>1. g # 0
  BY IdentifiersAssumption
<1>2. \A d \in Servers :
        results'[d] = results[d] \/ (results'[d].generation = g /\ cache[d].generation = g)
  BY DEF Recorded, TypesInv
<1> QED BY <1>1, <1>2 DEF ResultsInv, Forgetting

(* Steps of a command.                                                     *)
LEMMA ResultsEditor ==
  ASSUME TypesInv, LockInv, ResultsInv, NEW e \in Editors, Edits(e)
  PROVE  ResultsInv'
<1> USE DEF maps, destinations, telling
<1>1. ASSUME NEW s \in Servers, SaveDestination(e, s) \/ DeleteDestination(e, s)
      PROVE  ResultsInv'
  <2>1. write = NoWrite /\ UNCHANGED <<cache, results>>
    BY <1>1 DEF SaveDestination, DeleteDestination, Turns
  <2>2. \E c : write' = [step |-> "store", server |-> s, config |-> c, cancelled |-> FALSE]
    BY <1>1 DEF SaveDestination, DeleteDestination, Replace, BeginWrite
  <2>3. ~write'.cancelled
    BY <2>2
  <2> QED BY <2>1, <2>3, ResultsKept
<1>2. ASSUME NEW s \in Servers, LogoutDisables(e, s)
      PROVE  ResultsInv'
  <2>1. write = NoWrite /\ Disable(s)
    BY <1>2 DEF LogoutDisables, Turns
  <2> QED BY <2>1, DisableEffect, ResultsKept
<1>3. ASSUME NEW s \in Servers, Test(e, s)
      PROVE  ResultsInv'
  BY <1>3, ResultsKept DEF Test
<1>4. ASSUME NEW s \in Servers, NEW retargeted \in BOOLEAN, SetNotifications(e, s, retargeted)
      PROVE  ResultsInv'
  <2>1. write = NoWrite /\ Load(s) /\ results' = results
    BY <1>4 DEF SetNotifications, Turns
  <2>2. CASE write' = write
    BY <2>1, <2>2, ResultsKept
  <2>3. CASE write' # write
    <3> DEFINE c(b) == [ConfigOf(s) EXCEPT !.enabled = editor[e].cmd = "enable" /\ ~retargeted,
                                           !.binding = b]
    <3>1. Present(ConfigOf(s))
      BY <1>4, <2>3 DEF SetNotifications
    <3>2. PICK b \in Bindings : Replace(s, c(b), retargeted \/ ConfigOf(s).enabled)
      BY <1>4, <3>1 DEF SetNotifications
    <3>3. ConfigOf(s) \in Configs /\ b \in Accounts
      BY <3>1, Configurations DEF Bindings, TypesInv, Accounts
    <3>4. c(b) \in Drafts
      BY <3>3 DEF Configs, Drafts
    <3>5. (retargeted \/ ConfigOf(s).enabled) \in BOOLEAN
      OBVIOUS
    <3> HIDE DEF c
    <3>6. write'.config \in Configs
      BY <3>2, <3>4, <3>5, ReplaceTyped
    <3> QED BY <2>1, <3>6, ResultsKept
  <2> QED BY <2>2, <2>3
<1>5. ASSUME TestQueued(e)
      PROVE  ResultsInv'
  <2>1. editor[e] \in TestStates
    BY <1>5, CommandHolds DEF TestQueued
  <2>2. /\ editor[e].server \in Servers /\ editor[e].generation \in Generations
        /\ results' = Recorded(editor[e].server, editor[e].generation, "queued")
        /\ UNCHANGED <<cache, write>>
    BY <1>5, <2>1 DEF TestQueued, TestStates
  <2> QED BY <2>2, ResultsRecorded
<1>6. ASSUME SameLocale(e) \/ SetLocale(e)
      PROVE  ResultsInv'
  BY <1>6, ResultsKept DEF SameLocale, SetLocale
<1>7. ASSUME DropQueue(e)
      PROVE  ResultsInv'
  <2>1. write = NoWrite /\ UNCHANGED <<cache, write>>
    BY <1>7 DEF DropQueue, LockInv
  <2>2. ASSUME NEW s \in Servers, results'[s] # NoResult
        PROVE  results'[s].generation # 0 /\ results'[s].generation = cache[s].generation
    <3>1. CASE results'[s] = results[s]
      BY <2>1, <2>2, <3>1 DEF ResultsInv, Forgetting
    <3>2. CASE results[s] = [generation |-> cache[s].generation, text |-> "queued"]
      <4>1. results[s] # NoResult
        BY <3>2 DEF NoResult
      <4>2. cache[s].generation # 0
        BY <3>2, <4>1 DEF ResultsInv
      <4>3. results'[s].generation = cache[s].generation
        BY <1>7, <3>2 DEF DropQueue
      <4> QED BY <4>2, <4>3
    <3>3. CASE \E i \in 1 .. Len(queue) :
                 queue[i].server = s /\ queue[i].generation = cache[s].generation
      <4>1. cache[s].generation \in Generations
        <5>1. \A i \in 1 .. Len(queue) : queue[i] \in Jobs
          BY DEF TypesInv
        <5> QED BY <3>3, <5>1 DEF Jobs
      <4>2. results'[s].generation = cache[s].generation
        BY <1>7, <3>3 DEF DropQueue
      <4> QED BY <4>1, <4>2, IdentifiersAssumption
    <3> QED BY <1>7, <3>1, <3>2, <3>3 DEF DropQueue
  <2> QED BY <2>1, <2>2 DEF ResultsInv
<1> QED BY <1>1, <1>2, <1>3, <1>4, <1>5, <1>6, <1>7 DEF Edits, EditorStep

(* The other steps without the worker.                                     *)
LEMMA ResultsOthers ==
  ASSUME TypesInv, ResultsInv
  PROVE  /\ \A e \in Editors : Returns(e) => ResultsInv'
         /\ \A x \in Emitters : Emits(x) => ResultsInv'
         /\ Requests \/ Observes \/ AccountChanges => ResultsInv'
         /\ Writes \/ WriteFails => ResultsInv'
<1> USE DEF maps, destinations, telling
<1>1. ASSUME NEW e \in Editors, Returns(e)
      PROVE  ResultsInv'
  BY <1>1, ResultsKept DEF Returns
<1>2. ASSUME NEW x \in Emitters, Emits(x)
      PROVE  ResultsInv'
  <2>1. emit[x] \in Admissions \cup Pushes
    BY <1>2, CallHolds DEF Emits, Admit, Push
  <2>2. emit[x].server \in Servers /\ emit[x].config.generation \in Generations
    BY <2>1 DEF Admissions, Pushes, Configs
  <2>3. UNCHANGED <<cache, write>>
    BY <1>2 DEF Emits, Admit, Push
  <2>4. \/ results' = results
        \/ results' = Recorded(emit[x].server, emit[x].config.generation, "ended")
    BY <1>2 DEF Emits, Admit, Push, JobRecorded, JobOf
  <2> QED BY <2>2, <2>3, <2>4, ResultsRecorded
<1>3. ASSUME Requests \/ Observes \/ AccountChanges
      PROVE  ResultsInv'
  BY <1>3, ResultsKept DEF Requests, Observes, Observe, AccountChanges
<1>4. ASSUME WriteFails
      PROVE  ResultsInv'
  BY <1>4, ResultsKept DEF WriteFails, StoreRefuses
<1>5. ASSUME Writes
      PROVE  ResultsInv'
  <2>1. write \in Changes
    BY <1>5 DEF Writes, Store, ForgetServer, TypesInv, NoWrite
  <2>2. write # NoWrite /\ write.server \in Servers
    BY <1>5, <2>1 DEF Writes, Store, ForgetServer, NoWrite, Changes
  <2>3. CASE Store
    <3>1. /\ write'.step = "forget" /\ write'.server = write.server
          /\ write'.cancelled = write.cancelled /\ write'.config = write.config
      BY <2>1, <2>3 DEF Store, Changes
    <3>2. /\ results' = results /\ write' # NoWrite
          /\ \A s \in Servers : s # write.server => cache'[s] = cache[s]
      BY <2>3, <3>1 DEF Store, TypesInv, NoWrite
    <3>3. \A s \in Servers : ~Forgetting(s)
      BY <2>3 DEF Store, Forgetting
    <3> QED BY <2>2, <3>1, <3>2, <3>3 DEF ResultsInv, Forgetting
  <2>4. CASE ForgetServer
    <3>1. write' = NoWrite /\ cache' = cache
      BY <2>4 DEF ForgetServer
    <3>2. \A s \in Servers : s # write.server => results'[s] = results[s] /\ ~Forgetting(s)
      BY <2>4 DEF ForgetServer, TypesInv, Forgetting
    <3>3. results'[write.server] # NoResult =>
            /\ results'[write.server].generation # 0
            /\ results'[write.server].generation = cache[write.server].generation
      <4>1. SUFFICES ASSUME results'[write.server] # NoResult
                     PROVE  /\ results'[write.server].generation # 0
                            /\ results'[write.server].generation = cache[write.server].generation
        OBVIOUS
      <4>2. /\ write.cancelled /\ cache[write.server].generation = write.config.generation
            /\ results'[write.server] = [generation |-> write.config.generation, text |-> "ended"]
        BY <2>2, <2>4, <4>1 DEF ForgetServer, TypesInv
      <4>3. write.config.generation \in Generations
        BY <2>2, <4>2 DEF ResultsInv, Configs
      <4> QED BY <4>2, <4>3, IdentifiersAssumption
    <3> QED BY <3>1, <3>2, <3>3 DEF ResultsInv
  <2> QED BY <1>5, <2>3, <2>4 DEF Writes
<1> QED BY <1>1, <1>2, <1>3, <1>4, <1>5

(* Steps of the worker.                                                    *)
LEMMA ResultsWorker ==
  ASSUME TypesInv, LockInv, ResultsInv, WorkerRuns \/ WorkerWaits
  PROVE  ResultsInv'
<1> USE DEF maps, destinations, telling
<1>1. CASE LookAtAccount \/ Revoked \/ TakeJob \/ Disqualified \/ Respond \/ RateLimited
  BY <1>1, ResultsKept DEF LookAtAccount, Revoked, TakeJob, Disqualified, Respond, RateLimited
<1>2. ASSUME NEW s \in Servers, Inspect(s)
      PROVE  ResultsInv'
  BY <1>2, ResultsKept DEF Inspect
<1>3. CASE RecordResult
  <2>1. worker.job \in Jobs
    BY <1>3, WorkerHolds DEF RecordResult, WorkerAt, Dones
  <2>2. worker.job.server \in Servers /\ worker.job.generation \in Generations
    BY <2>1 DEF Jobs
  <2>3. /\ \/ results' = results
           \/ results' = Recorded(worker.job.server, worker.job.generation, "ended")
        /\ UNCHANGED <<cache, write>>
    BY <1>3 DEF RecordResult, JobRecorded
  <2> QED BY <2>2, <2>3, ResultsRecorded
<1>4. ASSUME NEW s \in Servers, Acquire, Disable(s)
      PROVE  ResultsInv'
  <2>1. write = NoWrite
    BY <1>4 DEF Acquire, LockInv
  <2> QED BY <1>4, <2>1, DisableEffect, ResultsKept
<1>5. CASE LockToRevoke
  <2>1. worker.server \in Servers
    BY <1>5, WorkerHolds DEF LockToRevoke, WorkerAt, Revocations
  <2> QED BY <1>4, <1>5, <2>1 DEF LockToRevoke
<1>6. CASE Disqualify \/ Authorize \/ GiveUp
  <2>1. worker.job.server \in Servers
    BY <1>6, WorkerHolds DEF Disqualify, Authorize, GiveUp, WorkerAt, Deliveries, Jobs
  <2>2. CASE Disqualify
    BY <1>4, <2>1, <2>2 DEF Disqualify
  <2>3. CASE Authorize \/ GiveUp
    BY <2>1, <2>3, ResultsKept DEF Authorize, GiveUp
  <2> QED BY <1>6, <2>2, <2>3
<1> QED
  BY <1>1, <1>2, <1>3, <1>5, <1>6 DEF WorkerRuns, WorkerStep, WorkerWaits, WorkerLocks

(* Every step keeps the results with the cached configurations.            *)
LEMMA ResultsStep ==
  ASSUME TypesInv, LockInv, ResultsInv, [DiscordNext]_discordVars
  PROVE  ResultsInv'
<1>1. CASE UNCHANGED discordVars
  BY <1>1, ResultsKept DEF discordVars, maps, destinations, telling
<1>2. CASE DiscordNext
  BY <1>2, ResultsEditor, ResultsOthers, ResultsWorker DEF DiscordNext
<1> QED BY <1>1, <1>2

(* At first there are none.                                                *)
LEMMA ResultsInit == DiscordInit => ResultsInv
BY DEF DiscordInit, ResultsInv, NoWrite, NoResult

(***************************************************************************)
(* The theorems                                                            *)
(***************************************************************************)
DiscordInv == TypesInv /\ LockInv /\ AgreesInv /\ SentInv /\ ResultsInv

(* In every state: the types, the lock with who says to hold it, the cache *)
(* that agrees with the credential store, what is sent, and the results.   *)
THEOREM DiscordInvariant == DiscordSpec => []DiscordInv
<1>1. DiscordInit => DiscordInv
  BY TypesInit, LockInit, AgreesInit, SentInit, ResultsInit DEF DiscordInv
<1>2. DiscordInv /\ [DiscordNext]_discordVars => DiscordInv'
  BY TypesStep, LockStep, AgreesStep, SentStep, ResultsStep DEF DiscordInv
<1> QED BY <1>1, <1>2, PTL DEF DiscordSpec

(* The type invariant: among it, that the queue keeps its limit and that a *)
(* configuration is changed only with dispatch_lock.                       *)
THEOREM DiscordTyped == DiscordSpec => []DiscordTypeOK
<1>1. DiscordInv => DiscordTypeOK
  BY DEF DiscordInv, TypesInv, LockInv, DiscordTypeOK, Accounts, StoredConfigs
<1> QED BY <1>1, DiscordInvariant, PTL

(* No notification is sent to a destination that was replaced, disabled or *)
(* deleted, or in a language that is no longer set: the worker sends with  *)
(* dispatch_lock, checks the job under it, and what it checks agrees with  *)
(* the credential store (start_worker).                                    *)
THEOREM SentCurrent == DiscordSpec => []SentIsCurrent
<1>1. DiscordInv => SentIsCurrent
  BY DEF DiscordInv, SentInv, SentIsCurrent, WorkerAt
<1> QED BY <1>1, DiscordInvariant, PTL

(* A result is shown only of the destination the server has: results are   *)
(* recorded of the cached generation only (record_result), and a change    *)
(* forgets them before it returns.                                         *)
THEOREM ResultsOfDestination == DiscordSpec => []ResultOfDestination
<1>1. DiscordInv => ResultOfDestination
  BY DEF DiscordInv, ResultsInv, Forgetting, ResultOfDestination
<1> QED BY <1>1, DiscordInvariant, PTL
================================================================================
