----------------------- MODULE BusinessConfiguration -----------------------
(***************************************************************************)
(* The business configuration center (business-configuration/service.ts    *)
(* over postgres-store.ts): one dictionary with its draft and releases, and *)
(* one parameter with its value releases, activations and terminations.    *)
(*                                                                         *)
(* Every command is a transaction that takes the advisory lock of its      *)
(* operation identity, looks for a receipt, takes the lock of the resource *)
(* it changes, checks, and inserts its facts, its event and its receipt.   *)
(* PostgreSQL is external: advisory locks last until the transaction ends, *)
(* a statement sees what was committed before it began, and a primary key  *)
(* refuses a second row.  Requests are retried and race.                   *)
(*                                                                         *)
(* A resolution reads the cache, then the database, and answers what the   *)
(* database says; the cache is external: it may lose or keep any entry,    *)
(* and a slow resolution may fill it after the invalidation.  The          *)
(* parameter has a default.                                                *)
(***************************************************************************)
EXTENDS Naturals, FiniteSets, Sequences

CONSTANTS
  ConfigOperations,     \* operation identities
  ConfigCommandsOf,     \* identity -> the commands that are sent under it
  ConfigStories,        \* bound: sets of identities that are asked for together
  ConfigCallers,        \* requests that run concurrently
  ConfigPriority,       \* scope the parameter allows -> its priority (validation.ts:9)
  ConfigAsked,          \* bound: the times resolutions ask about
  MaxConfigTime         \* bound of the clock

Unbounded == MaxConfigTime + 2     \* an activation without effectiveTo

ConfigKinds == {"save", "publish", "register", "value", "activate", "terminate"}

ASSUME BusinessConfigurationAssumption ==
  /\ MaxConfigTime \in Nat
  /\ ConfigStories \subseteq SUBSET ConfigOperations
  /\ ConfigAsked \subseteq Nat
  /\ ConfigPriority \in [DOMAIN ConfigPriority -> 0..1000]
  /\ \A o \in ConfigOperations : \A c \in ConfigCommandsOf[o] :
       /\ c.kind \in ConfigKinds
       /\ c.kind = "save" => c.expected \in Nat
       /\ c.kind = "publish" => c.expected \in Nat \ {0}
       /\ c.kind = "activate" => c.from \in Nat /\ c.from < c.to /\ c.to \in 1..Unbounded
       /\ c.kind = "terminate" => c.to \in 0..MaxConfigTime + 1

VARIABLES
  dictionary,       \* the draft: revision (0: none) and items (codes)
  releases,         \* the dictionary's releases in order: items, from revision
  registered,       \* the parameter's definition exists
  values,           \* number of its value releases
  activations,      \* its activations: id, scope, from, to, value
  terminations,     \* terminations: activation and its new end
  receipts,         \* operation receipts
  configTime,       \* the clock of the service
  configCalls,      \* caller -> where its request is
  configCache,      \* the time asked for -> the resolution the cache holds
  configApplied     \* ghost: operation -> how often it was committed

configVars == <<dictionary, releases, registered, values, activations,
                terminations, receipts, configTime, configCalls,
                configCache, configApplied>>

configFacts == <<dictionary, releases, registered, values, activations, terminations>>

NoConfigCall == [at |-> "idle"]
NoResolution == [source |-> "none"]

ConfigInit ==
  /\ dictionary = [revision |-> 0, items |-> {}]
  /\ releases = <<>>
  /\ registered = FALSE
  /\ values = 0
  /\ activations = {}
  /\ terminations = {}
  /\ receipts = {}
  /\ configTime = 0
  /\ configCalls = [r \in ConfigCallers |-> NoConfigCall]
  /\ configCache = [t \in ConfigAsked |-> NoResolution]
  /\ configApplied = [o \in ConfigOperations |-> 0]

-----------------------------------------------------------------------------
(* Reading.                                                                *)

\* least(a.effective_to, t.effective_to)
EndOf(a) ==
  LET ends == {t.to : t \in {u \in terminations : u.activation = a.id}}
  IN CHOOSE e \in ends \cup {a.to} : \A f \in ends \cup {a.to} : e <= f

\* listEffectiveActivations: what a resolution at a time may select in a scope.
EffectiveAt(scope, at) ==
  {a \in activations : a.scope = scope /\ a.from <= at /\ at < EndOf(a)}

ReceiptOf(o) == {p \in receipts : p.operation = o}

ConfigAt(r, place) == configCalls[r].at = place
ConfigCommand(r) == configCalls[r].command

\* The lock a command takes after the one of its operation.
ResourceOf(c) ==
  CASE c.kind \in {"save", "publish"} -> <<"dictionary">>
    [] c.kind \in {"register", "value"} -> <<"parameter">>
    [] c.kind = "activate" -> <<"activation", c.scope>>
    [] c.kind = "terminate" ->
         <<"activation", (CHOOSE a \in activations : a.id = c.activation).scope>>

OperationLocked(o) ==
  \E r \in ConfigCallers :
    configCalls[r].at \in {"locked", "checked"} /\ configCalls[r].operation = o

\* Another transaction holds the lock, or has inserted a row of the same key.
ResourceLocked(c) ==
  \E r \in ConfigCallers :
    LET d == ConfigCommand(r) IN
      /\ ConfigAt(r, "checked")
      /\ \/ ResourceOf(d) = ResourceOf(c)
         \/ c.kind = "activate" /\ d.kind = "activate" /\ c.id = d.id

-----------------------------------------------------------------------------
(* A request.                                                              *)

\* What the service reads before the transaction: the draft or the definition
\* the command needs, and for a termination the clock.
ReadBefore(c) ==
  CASE c.kind = "save" -> c.expected = 0 \/ dictionary.revision > 0
    [] c.kind = "publish" -> dictionary.revision > 0
    [] c.kind = "register" -> TRUE
    [] c.kind \in {"value", "activate"} -> registered
    [] c.kind = "terminate" -> registered /\ c.to >= configTime

OperationsSeen ==
  {p.operation : p \in receipts} \cup
  {configCalls[r].operation :
     r \in {q \in ConfigCallers : configCalls[q].at \notin {"idle", "cached", "listed"}}}

\* Authorized, with the attempted fact audited.  A denial, a failure of either
\* port or of the read ends a request that has changed nothing.
SubmitConfig(r, o, c) ==
  /\ ConfigAt(r, "idle")
  /\ \E story \in ConfigStories : OperationsSeen \cup {o} \subseteq story
  /\ ReadBefore(c)
  /\ configCalls' = [configCalls EXCEPT ![r] =
       [at |-> "submitted", operation |-> o, command |-> c, occurred |-> configTime]]
  /\ UNCHANGED <<configFacts, receipts, configTime, configCache, configApplied>>

ConfigGoes(r, place) == configCalls' = [configCalls EXCEPT ![r].at = place]

\* The lock of the operation, and its receipt: the same command is replayed,
\* another command under the identity is a conflict.
BeginConfig(r) ==
  /\ ConfigAt(r, "submitted")
  /\ LET o == configCalls[r].operation IN
       /\ ~OperationLocked(o)
       /\ ConfigGoes(r,
            IF ReceiptOf(o) = {} THEN "locked"
            ELSE IF \E p \in ReceiptOf(o) : p.command = ConfigCommand(r)
            THEN "stored" ELSE "failing")
  /\ UNCHANGED <<configFacts, receipts, configTime, configCache, configApplied>>

\* The codes of every release are among those to be published.
KeepsCodes(items) == \A i \in DOMAIN releases : releases[i].items \subseteq items

\* What the transaction verifies under the lock of the resource.
PassesConfig(c, occurred) ==
  CASE c.kind = "save" ->
         IF c.expected = 0 THEN dictionary.revision = 0
         ELSE dictionary.revision = c.expected
    [] c.kind = "publish" ->
         /\ dictionary.revision = c.expected
         /\ KeepsCodes(dictionary.items)
    [] c.kind = "register" -> ~registered
    [] c.kind = "value" -> registered
    [] c.kind = "activate" ->
         /\ \A a \in activations :
              a.scope = c.scope => EndOf(a) <= c.from \/ c.to <= a.from
         /\ \A a \in activations : a.id # c.id
         /\ c.value \in 1..values
    [] c.kind = "terminate" ->
         \E a \in activations :
           /\ a.id = c.activation
           /\ c.to >= occurred /\ c.to > a.from /\ c.to <= a.to
           /\ \A t \in terminations : t.activation # a.id

\* A command about an activation that does not exist has no second lock.
Locks(c) ==
  c.kind = "terminate" => \E a \in activations : a.id = c.activation

\* A defect: the transaction does not wait for the lock of the resource.
CheckConfigUnlocked(r) ==
  /\ ConfigAt(r, "locked")
  /\ LET c == ConfigCommand(r) IN
       ConfigGoes(r, IF Locks(c) /\ PassesConfig(c, configCalls[r].occurred)
                     THEN "checked" ELSE "failing")
  /\ UNCHANGED <<configFacts, receipts, configTime, configCache, configApplied>>

CheckConfig(r) ==
  /\ ConfigAt(r, "locked")
  /\ LET c == ConfigCommand(r) IN
       /\ Locks(c) => ~ResourceLocked(c)
       /\ ConfigGoes(r, IF Locks(c) /\ PassesConfig(c, configCalls[r].occurred)
                        THEN "checked" ELSE "failing")
  /\ UNCHANGED <<configFacts, receipts, configTime, configCache, configApplied>>

\* The facts of a command, its event and its receipt become durable together.
StoresConfig(r) ==
  LET c == ConfigCommand(r)
      o == configCalls[r].operation
  IN
    /\ dictionary' =
         IF c.kind = "save" THEN [revision |-> c.expected + 1, items |-> c.items]
         ELSE dictionary
    /\ releases' =
         IF c.kind = "publish"
         THEN Append(releases, [items |-> dictionary.items, revision |-> c.expected])
         ELSE releases
    /\ registered' = (registered \/ c.kind = "register")
    /\ values' = IF c.kind = "value" THEN values + 1 ELSE values
    /\ activations' =
         IF c.kind = "activate"
         THEN activations \cup {[id |-> c.id, scope |-> c.scope, from |-> c.from,
                                 to |-> c.to, value |-> c.value]}
         ELSE activations
    /\ terminations' =
         IF c.kind = "terminate"
         THEN terminations \cup {[activation |-> c.activation, to |-> c.to]}
         ELSE terminations
    /\ receipts' = receipts \cup {[operation |-> o, command |-> c]}
    /\ configApplied' = [configApplied EXCEPT ![o] = @ + 1]

CommitConfig(r) ==
  /\ ConfigAt(r, "checked")
  /\ StoresConfig(r)
  /\ ConfigGoes(r, "stored")
  /\ UNCHANGED <<configTime, configCache>>

\* The transaction fails, or its answer is lost after it was committed.
CommitConfigFails(r) ==
  /\ configCalls[r].at \in {"submitted", "locked", "checked"}
  /\ \/ ConfigAt(r, "checked") /\ StoresConfig(r)
     \/ UNCHANGED <<configFacts, receipts, configApplied>>
  /\ ConfigGoes(r, "failing")
  /\ UNCHANGED <<configTime, configCache>>

\* The failed fact is audited; the caller gets the error.
FailConfig(r) ==
  /\ ConfigAt(r, "failing")
  /\ configCalls' = [configCalls EXCEPT ![r] = NoConfigCall]
  /\ UNCHANGED <<configFacts, receipts, configTime, configCache, configApplied>>

\* The succeeded fact is audited and the result returned, or the audit fails
\* and the caller is told that the service is unavailable.
FinishConfig(r) ==
  /\ ConfigAt(r, "stored")
  /\ configCalls' = [configCalls EXCEPT ![r] = NoConfigCall]
  /\ UNCHANGED <<configFacts, receipts, configTime, configCache, configApplied>>

ConfigTick ==
  /\ configTime < MaxConfigTime
  /\ configTime' = configTime + 1
  /\ UNCHANGED <<configFacts, receipts, configCalls, configCache, configApplied>>

-----------------------------------------------------------------------------
(* A resolution.                                                           *)

InForceAt(at) == UNION {EffectiveAt(s, at) : s \in DOMAIN ConfigPriority}

\* The activation of the highest scope, with its end as it is now known, or the
\* default; the value it names is a release and never changes.
ResolvedAt(at) ==
  IF InForceAt(at) = {} THEN [source |-> "default"]
  ELSE LET a == CHOOSE b \in InForceAt(at) : \A c \in InForceAt(at) :
                  ConfigPriority[c.scope] <= ConfigPriority[b.scope]
       IN [source |-> "activation", id |-> a.id, scope |-> a.scope, to |-> EndOf(a),
           value |-> a.value]

\* cachedResolution: an entry is what the key could resolve to, or it is ignored;
\* a cache that fails is as good as an empty one.
Plausible(entry, at) ==
  entry.source = "activation" => entry.scope \in DOMAIN ConfigPriority /\ at < entry.to

\* Ghosts: what was terminated and what was in force when it was asked.
AskResolution(r, at) ==
  /\ ConfigAt(r, "idle") /\ registered
  /\ \E entry \in {configCache[at], NoResolution} :
       /\ Plausible(entry, at)
       /\ configCalls' = [configCalls EXCEPT ![r] = [at |-> "cached", time |-> at,
            cached |-> entry, result |-> NoResolution,
            ended |-> {u.activation : u \in terminations},
            lasting |-> {a.id : a \in InForceAt(at)}]]
  /\ UNCHANGED configCache

ListActivations(r) ==
  /\ ConfigAt(r, "cached")
  /\ configCalls' = [configCalls EXCEPT ![r].at = "listed",
                                        ![r].result = ResolvedAt(configCalls[r].time)]
  /\ UNCHANGED configCache

\* A cached resolution is only answered when it equals what was read.
ResolutionAnswered(call) == IF call.cached = call.result THEN call.cached ELSE call.result

\* The cache is filled if it can be, and the resolution answered; a failure of
\* the database ends it earlier.
EndResolution(r) ==
  /\ configCalls[r].at \in {"cached", "listed"}
  /\ \/ /\ ConfigAt(r, "listed")
        /\ configCache' = [configCache EXCEPT ![configCalls[r].time] = configCalls[r].result]
     \/ UNCHANGED configCache
  /\ configCalls' = [configCalls EXCEPT ![r] = NoConfigCall]

\* handleInvalidation, or the cache loses an entry by itself.
LoseEntry(at) ==
  /\ configCache[at] # NoResolution
  /\ configCache' = [configCache EXCEPT ![at] = NoResolution]
  /\ UNCHANGED configCalls

Resolution ==
  /\ \/ \E at \in ConfigAsked : LoseEntry(at)
     \/ \E r \in ConfigCallers :
          \/ \E at \in ConfigAsked : AskResolution(r, at)
          \/ ListActivations(r) \/ EndResolution(r)
  /\ UNCHANGED <<configFacts, receipts, configTime, configApplied>>

ConfigNext ==
  \/ ConfigTick
  \/ Resolution
  \/ \E r \in ConfigCallers :
       \/ \E o \in ConfigOperations : \E c \in ConfigCommandsOf[o] : SubmitConfig(r, o, c)
       \/ BeginConfig(r) \/ CheckConfig(r) \/ CommitConfig(r)
       \/ CommitConfigFails(r) \/ FailConfig(r) \/ FinishConfig(r)

ConfigSpec == ConfigInit /\ [][ConfigNext]_configVars

-----------------------------------------------------------------------------
(* What the store promises, as the memory store of the tests does it: each *)
(* command alone and at once.                                              *)

MemoryAllows(c, occurred) ==
  CASE c.kind = "save" -> c.expected = dictionary.revision
    [] c.kind = "publish" ->
         /\ c.expected = dictionary.revision
         /\ UNION {releases[i].items : i \in DOMAIN releases} \subseteq dictionary.items
    [] c.kind = "register" -> ~registered
    [] c.kind = "value" -> registered
    [] c.kind = "activate" ->
         /\ registered /\ c.value <= values
         /\ ~\E a \in activations :
              a.scope = c.scope /\ a.from < c.to /\ c.from < EndOf(a)
    [] c.kind = "terminate" ->
         /\ c.activation \in {a.id : a \in {b \in activations : b.from < c.to /\ c.to <= b.to}}
         /\ c.activation \notin {u.activation : u \in terminations}
         /\ occurred <= c.to

-----------------------------------------------------------------------------
(* Properties.                                                             *)

\* At any time at most one activation of a scope is in force, whatever is
\* activated, terminated and replaced at once (postgres-store.ts:126-155;
\* ADR-0013, "effective intervals must not form undefined overlaps").
OneActivation ==
  \A s \in {a.scope : a \in activations} : \A t \in 0..MaxConfigTime + 1 :
    Cardinality(EffectiveAt(s, t)) <= 1

\* A code of a release is in every later one, and releases follow the drafts;
\* a command is applied at most once under its identity, and whoever is told
\* success is told of what was applied (postgres-store.ts:81-125).
ConfigurationIsExact ==
  /\ \A i, j \in DOMAIN releases :
       i < j => /\ releases[i].items \subseteq releases[j].items
                /\ releases[i].revision <= releases[j].revision
  /\ \A o \in ConfigOperations : configApplied[o] <= 1
  /\ \A r \in ConfigCallers : ConfigAt(r, "stored") =>
       [operation |-> configCalls[r].operation, command |-> ConfigCommand(r)] \in receipts

\* What the tests show of the memory store carries over: between the checks of a
\* transaction and its commit nothing changes that the memory store would refuse
\* the command for, and no receipt of its identity appears (memory-store.ts).
CommitsLikeMemoryStore ==
  \A r \in ConfigCallers : ConfigAt(r, "checked") =>
    /\ ReceiptOf(configCalls[r].operation) = {}
    /\ MemoryAllows(ConfigCommand(r), configCalls[r].occurred)

\* README, PostgreSQL remains authoritative and the cache replaceable: whatever
\* the cache holds, a resolution answers what the database said after it was
\* asked for; an activation that had been ended by then is answered with its end
\* or not at all, and nothing of a higher scope was in force all along
\* (service.ts:231-277).
ResolutionsAreFresh ==
  \A r \in ConfigCallers : ConfigAt(r, "listed") =>
    LET answer == ResolutionAnswered(configCalls[r])
        at == configCalls[r].time
    IN /\ answer.source = "activation" =>
            \E a \in activations :
              /\ a.id = answer.id /\ a.from <= at /\ at < answer.to
              /\ answer.to \in {a.to, EndOf(a)}
              /\ a.id \in configCalls[r].ended => answer.to = EndOf(a)
       /\ \A a \in InForceAt(at) : a.id \in configCalls[r].lasting =>
            /\ answer.source = "activation"
            /\ ConfigPriority[a.scope] <= ConfigPriority[answer.scope]

\* What is in force, what it was built from, and what is answered.
ConfigurationIsSound ==
  /\ OneActivation /\ ConfigurationIsExact
  /\ CommitsLikeMemoryStore /\ ResolutionsAreFresh
=============================================================================
