# Verification of the AI-CRM platform

TLA+ specifications of this repository (a TypeScript monorepo: an API, a worker,
clients, and the platform modules they compose over PostgreSQL, RabbitMQ, Redis,
an object store, Keycloak and Flowable), the TLC configurations that check them
on small instances and the proofs TLAPS checks. `PROJECT.json` maps every
definition to the lines it models and lists the hazards each property is for.

## 1. Inventory

`packages/platform-modules/*` own the facts, each with a service, a memory
store, a PostgreSQL store and its schema. `apps/api` and `apps/worker` compose
them. Modules call each other through ports; what crosses a process goes
through the outbox, RabbitMQ and the inbox.

| Component | State | Operations | What makes it correct |
|---|---|---|---|
| Outbox and publisher (`eventing-outbox`, `publishBatch`) | `outbox_records`: status, attempts, claim token, availability | append, claim with lease, publish with confirm, mark, isolate, operator replay | a row says published only if the broker took it; one owner per claim; duplicates only after faults; replays audited |
| Inbox and jobs (`consume`, `handleRabbitDelivery`) | `inbox_receipts`, `job_requests`, `isolations`; the broker's queues | submit, cancel, consume under an advisory lock, isolate, ack, retry, dead-letter | one effect per message and consumer, one execution per job, no acknowledged copy vanishes |
| Integration runtime | limiter slots and queue, breaker, rate window, per-call budget; replay keys of webhooks | execute, abort, time out, retry; accept a webhook | no leaked slot or half-open place, an aborted call starts nothing, every call ends; a replay needs a slow verifier |
| Worker RabbitMQ adapter (`rabbit-adapter.ts`) | connections, channels, confirm claims, consumer tags, in-flight deliveries | acquire, publish, confirm, consume, stop, drain, close | a confirm settles its own publication; after stop nothing is in flight; an open connection has an owner |
| Worker life cycle (`index.ts`, `bootstrap.ts`, `production-composition.ts`) | resources, handlers, readiness file, fatal reason | acquire, start, ready, signal, fail, drain, close | each handler stopped once, the file honest, 0 earned, the process returns |
| Task center | projections with versions, event receipts, completion commands with leases | apply event, reconcile, complete | versions never go back, no event receipted and lost, one answer per command |
| Workflow | command ledger, Flowable's task | claim, complete, release, start, cancel | mutated once, published before success is told |
| Notifications | template releases, intents, notifications, marks | publish, submit, mark, archive | same key, same intent; every recipient has the notice |
| File center | files, versions, upload sessions, links, receipts; objects in COS | create, complete, scan, quarantine, clean up, reconcile, link, download | nothing unscanned is available, no clean-up of completed content |
| API sessions (`apps/api/src/auth`) | login transactions, sessions, refresh leases and tokens in Redis; encryption keys | begin, callback, read, rotate, refresh, log out; replace keys | one credential, a revoked session stays revoked, a refusal has a reason |
| Authorization | policy versions, active pointer, publications, cache | check, resolve scope, publish | decisions follow the policy in force and the time of the check |
| Business configuration | drafts, releases, activations, terminations, receipts, cache | save, publish, activate, terminate, resolve | one activation at a time, what is resolved is what is stored |
| Organization | units, placements, positions, people, employments, assignments, associations | create, close, resolve a context | no cycle at any time, receipts backed, ends final, contexts earned |
| Form schema | drafts, releases, receipts | save, publish, make available | releases are what was reviewed, one command per operation |
| App registry | applications, routes, navigation, receipts | mutate, load, resolve | one effect per operation, on record; answers closed |
| Audit | facts by operation, sensitive reads | record, read | disclosed only what is on record as disclosed |
| AI gateway | outcomes, proposals, confirmations | invoke, confirm | charged once, no confirmed proposal without its record |
| Database runtime | ambient transaction, pool, migration tables | withTransaction, execute, migrate, check | a failed statement never commits; each version once |
| API process and HTTP | bindings, probes, readiness; a request's chain of checks | start, probe, serve, stop; every route | readiness earned, exit code true, an answer says what was so |
| Configuration | the client secret, its file | rotate, read | Keycloak and the file agree |
| Front ends and clients | what the shells know of network and bootstrap | load, retry, lose and regain the network, log out | nothing stale is shown |
| Operations scripts | none of their own | back up, deploy | run one at a time, not modelled |

Hard behaviours: leases that expire under a live owner; confirms, commits and
HTTP answers that are lost; deliveries that come twice, late or after the policy
changed; checks made before a lock or a transaction and relied on inside it;
slots and breaker places shared by calls that time out or settle late; start,
stop and failures crossing each other; steps that touch the database and an
external system without a common transaction; retries of what was already done;
caches filled after their invalidation.

## 2. Modules

| Module | Models | Composes |
|---|---|---|
| `ReliableOutbox` | the promise of the outbox | - |
| `Outbox` | `appendEvent`, the publisher loop over PostgreSQL, replay, time, crashes | refines `ReliableOutbox` |
| `Inbox` | broker copies, `handleRabbitDelivery`, `consume`, `submitJob`, `cancelJob` | - |
| `IntegrationRuntime` | the executor with limiter, breaker, rate limit, deadlines and retries | - |
| `FileCenter` | `FileCenterService` over PostgreSQL and COS | - |
| `ConfirmPort`, `RabbitConsumer` | the confirm channel; the consumer adapter and its stop hook | the second extends the first, which its retries share |
| `RabbitConnections` | acquisition and close of the broker's connections | - |
| `WorkerResources`, `WorkerLifecycle` | what the process owns; its life from bootstrap to exit | the second extends the first |
| `Sessions`, `SessionKeys` | credentials and leases; encryption keys | - |
| `SecretRotation` | the client secret's rotation and its readers | - |
| `Logins` | tokens and the provider | extends `SecretRotation` and `SessionKeys`, for what is promised of the three |
| `Workflow`, `TaskCenter`, `Notifications` | the work of people | - |
| `Authorization`, `PolicyEvaluation` | who checks and publishes; what a policy says | - |
| `Organization`, `BusinessConfiguration`, `FormSchema`, `AppRegistry` | effective-dated and versioned facts | the first two carry the promise of their memory stores |
| `AuditTrail`, `AiGateway`, `Webhook` | operation ids and what hangs on them | - |
| `Database` | the runtime's transactions; the migration runner and check | - |
| `ApiProbes`, `ApiLifecycle`, `ProtectedRequests` | readiness; one life of the process; one request | the last extends the others, for what is promised of the three |
| `Shells` | the portal's and the mobile client's loading | - |
| `OutboxProofs`, `InboxProofs`, `RabbitConsumerProofs` | proofs | each extends the module it names |
| `WorkerProofs` | proofs of the worker's resources and of its life | extends `WorkerLifecycle` |
| `SessionsProofs` | proofs of sessions, the secrets behind them and the API itself | extends `Sessions`, `Logins`, `ProtectedRequests` |
| `RuntimeProofs` | proofs of the limiter, the breaker and the calls | extends `IntegrationRuntime` |
| `DecisionProofs` | proofs of the policies, their publication, the business configuration and the organization | extends `PolicyEvaluation`, `Authorization`, `BusinessConfiguration`, `Organization` |
| `ServiceProofs` | proofs of twelve components, one after the other | extends `TaskCenter`, `AuditTrail`, `Notifications`, `AppRegistry`, `AiGateway`, `FormSchema`, `Webhook`, `RabbitConnections`, `Workflow`, `Shells`, `Database`, `FileCenter` |
| `MC*` | values for TLC | extend what they check |

`MCPlatform` puts 24 small instances side by side. They share nothing at run
time, so a product would only multiply interleavings that mean nothing: `active`,
chosen at the start, names the one that moves, and the others keep their initial
states. A behaviour of the platform is a behaviour of one component, the state
space is the sum of theirs, and an invariant of a component is decided exactly.

What one property of a `.cfg` says is often the conjunction of named parts of its
module, each stated and commented there: `ClaimsAreSound` is five of them.
`DatabaseIsSound` joins `TransactionsAreHonest` and `MigrationsAreExact`,
`ApiIsSound` the readiness, the process and the requests, `SecretsAreSound` the
rotations of secret and key and the logins, `TaskCenterIsSound` projection and commands.

### Outbox

One record of functions per table column: `status`, `sha` (the fingerprint),
`attempt`, `token` (the claim token, a counter: tokens are random and never
repeat), and instead of timestamps `due` (rows whose `available_at` is past) and
`lapsed` (rows whose lease is out). Each publisher has a control point between
the awaits of `publishBatch` and the `batch` it holds; `current` is the row it
has just published. `Crash` is the death of the process or a store call that
throws. Messages the broker took are counted in `copies`; `acked`, `audited`,
`replayed` and the fault counters observe.

`KeepsPromise` checks, and `ImplementsPromise` proves, that with `pending` and
`publishing` read as "queued" every step is a step of `ReliableOutbox` or
stutters.

### Inbox

`queue[d]` counts the broker's ready copies of a delivery (message, consumer,
payload, attempt); `dead` are the dead-lettered ones. A worker is one concurrent
delivery: `received` (before the first look at the receipts), `unlocked`
(before the transaction), `locked` (advisory lock held, before `claimJob`),
`running` (job row locked, handler at work), then `done`, `retryable`,
`terminal` or `retried`. Writes appear at commit and a rollback leaves nothing,
so the transaction's effect is one step at its end, and its locks are read from
the control points. `CommitUnknown` is a commit whose answer is lost.

### IntegrationRuntime

A call goes `checking` (rate limit and acquire), `queued`, `granted` (the slot
is handed over but its continuation has not run), `running`, `settling` (the
breaker has recorded, the slot is not yet released), `backoff` or an end. The
budget's abort removes a queued call, wakes a sleeping one, ends the wait of a
running one and is only discovered later by a granted one, as in the code.
`operations` are the provider's operations still running: they may outlive
their attempt (`LateSettlement`), although the package README says the runtime
waits for settlement: `runWithDeadline` races the operation with its deadline. Error categories are grouped by what the
breaker and the retry policy tell apart.

### FileCenter

A version and its upload session are created together and never meet the rows of
another version, so one version is an instance. An operation id names what it
asks (`Command`, its fingerprint); any number of requests may carry it, and
`receipt` is its row in `operation_receipts`. A request holds the operation in
its `hand` and what it `saw` of the object, and stops at a control point between
two awaits (`inspected` before the completing transaction, `copying` and
`removing` inside the quarantine, `erasing` between the two clean-up
transactions, and so on). A transaction is one step: the store locks the
operation and the row it changes. Every way a request can end early - a refusal,
a replayed answer, a provider's failure, the death of the process - is `Leave`,
and another request may carry the operation again.

`Put` is the browser's upload through the signed URL, which works until the
session's expiry rounded up to a second (`clock` is `open`, then `expired`,
then `closed`); `Put`, `Lose` (the object vanishes) and `Tick` are external. The
numbering of a file's versions and the download grant, which changes no state,
are left out. There is no liveness: the commands of the maintenance handler
come from a source outside this repository.

### ConfirmPort and RabbitConsumer

`ConfirmPort` gives the parts of steps that run inside the port; a caller
publishes at most once, so a publication has its caller's name. The port's list
is the set `operations` with the order `older` in which they were pushed: what the
code looks for is the first of those that fit, and a removal leaves the order of the
rest. `claims` says who waits for whose confirm (after a full write buffer that need
not be one's own).

`RabbitConsumer` gives `run()` its place in the registration loop (`asked`: a
consume call is out; `cancelling`: the cancel of a late tag is out) and then at
its completion. An execution of `schedule` is `waiting` on the snapshot in
`race`, `woken` or `thrown` by the first of them to settle, or accepted:
`running` its handler, or inside `retry` (`draining`, `drained`, `confirming`,
`refused`). `Stop` is the worker's stop: the abort listener of `run()` takes the
tags in the same turn, so `stop()` finds none and the drain begins before the
cancels are answered; only when `run()` has already ended does `stop()` wait for
them itself. `Lose` is everything that follows when a channel goes. A promise
rejected while nobody waits for it sets `crashed`, and nothing happens after it:
that is Node's default, and the worker installs no handler. What the handler of
a delivery does with its database is `Inbox`; here it settles, asks for a retry
or throws.

### Sessions

Keys of different logins never meet, so one login is an instance. `transaction`
is the stored login, `record` the revisions that have a session record under the
index of their credential, `family` the revision the family key points to,
`lease` the owner of the refresh lease. The store makes a fresh random credential
for every revision, so a credential is its revision number. Each Lua script is
one step; a request stops between the scripts and the calls to the provider and
the audit: `exchanging`, `auditing` and `discarding` of a login or a refresh,
`looked`, `leased` (before the second read) and `refreshing`, `releasing` and
`failing` of the finally block, `leaving` and `revoking` of a log-out. The two
reads before the lease, which change nothing but the idle TTL, are one `Look`.
`Expire` may come at any time: it covers the idle and the absolute end, because
both keys are always written with one TTL. `Throws` is a call that fails inside the
try block of the refresh (its effect done or not), `Dies` everything that ends a
request without it. `given`, `audited`, `lost`, `overrun` and `ended` observe.
There is no liveness: browsers owe nothing, and everything in Redis expires.

The decision record of the login session asks that concurrent refreshes be merged
or locked. `LeaseProtects` says how far the lock reaches: nothing renews the
lease, and its TTL (at least a second) is not tied to the provider's timeout (up to a
minute), so a refresh that outlasts it (`overrun`) may be joined by another.

### RabbitConnections, WorkerResources, WorkerLifecycle

`RabbitConnections` follows one factory (the probe, the publisher or the consumer)
from `acquireModel` to `closeResources`: the connector may answer late,
a signal may be aborted while a close is under way, and connection or channel may go
at any time. `ConnectionsAreOwned`: an open connection is held by somebody who closes it.

`WorkerResources` knows a connection only as acquired, given up or closed, and
adds the pool, the checks of bootstrap, the probes and the close that is shared by
its callers, aborted at its deadline and tried again. `WorkerLifecycle` extends
it with `start()`, the handlers, the readiness file, signals, the first failure,
the drain and the exit code. In production `onStop` is the close of the
resources and closed resources are never ready again, so there is one start. What
the event loop runs without a pause is one step; a second signal may come. A
marker that cannot be written is a fault; its removal does not fail. `LateContext`
is a context that is created after its start timed out: it closes itself.

### Logins, SessionKeys, SecretRotation

`Logins` has the tokens behind a session: the provider numbers its refresh tokens
and signing keys, a process caches the key set, Redis and the provider may fail at
every call, and each failure becomes the error the browser is told. What a token call
may come to (`TokenFailures`) is external: openid-client wraps it, and `dependencyFailure`
looks for a `TypeError`, a status or the process's own failure in at most four causes.
It finds the provider that cannot be reached, is overloaded or sends incomplete tokens;
a time-out (a `DOMException` as the cause), an unreadable answer and an unknown client
secret it takes for refusals, and so does the check of a token where the provider's keys
cannot be read. `RefusalsHaveReasons` says that no other refusal is without a reason,
and names these five in `Misjudged`. The first
command of a request is merged with its arrival, the lease is a boolean, an access
token may be found expired at each check. `SessionKeys` replaces the encryption
key on several processes one at a time while sessions are made, read and
refreshed. `SecretRotation` is the script against Keycloak and the file, with
updates that are carried out after their time-out, and an API that reads the file.

### Workflow, TaskCenter, Notifications

`Workflow` takes the ledger of `testing.ts`, which is also what the README asks of
a durable one; the engine may take a request and lose the answer, and a confirming
read decides. `TaskCenter` has two parts that share no state: the projection, whose events
come in any order and number beside a reconciliation whose read precedes its
transaction, and the leased completion command, whose source executes what it
gets. `Notifications` has two
producers of one intent whose recipients are resolved differently. Failed and
denied audit facts are left out where nothing depends on them.

### Authorization, PolicyEvaluation

`Authorization` reduces a policy version to the times at which it allows the one
request that checkers and publishers make; a check reads the pointer, the cache
and the version, with publications between. `PolicyEvaluation` says what a policy
is: validation, normal form, the decision of a check, the scope of a list, and how
long either may be remembered; its lists that the code sorts are sets.

### Organization, BusinessConfiguration, FormSchema, AppRegistry

A command of these modules is a transaction: it takes its advisory locks one after
the other, looks for a receipt, checks and writes. An operation id may carry
different commands (`OrgCommandsOf`, `ConfigCommandsOf`, ...), which is how a
conflict is asked. `OrgStories` and `ConfigStories` are bounds: the operations
that meet in one behaviour. In `Organization` what the service checked before its
transaction and what the triggers check again under their lock are different
steps; `resolveWorkforceContext` is read by read, and `over` keeps what ended
meanwhile. `MemoryTakes` and `MemoryAllows` are the rules of the memory stores,
which know no concurrency: `CommitsLikeMemory` and `CommitsLikeMemoryStore` say
that every commit of the PostgreSQL stores is one they would have made. A
resolution of the configuration reads the cache and then the database; the
cache is external and may keep what a slow resolution put there after the
invalidation. `FormSchema` reads the draft of a release before its transaction.
`AppRegistry` reads table after table while entries are switched off and on.

### AuditTrail, AiGateway, Webhook

Each is keyed by an id its callers retry or reuse. `AuditTrail` has the facts of an
operation and the sensitive read; `AiGateway` one process's memory of operations,
budget, proposals and confirmations; `Webhook` an acceptance whose clock is read
before the signature is verified.

### Database

The transactions leave the caller's function free: statements, nested transactions,
swallowed errors, aborts at any moment, broken connections. The migrations have
runners of two releases with different catalogs meeting at the advisory lock, any
of which may die, and the application's compatibility check.

### ApiProbes, ApiLifecycle, ProtectedRequests

`ApiProbes` is the health loop with probes that cannot be cancelled behind waiters
that give up. `ApiLifecycle` is one life of the process; a signal or a deadline may
come anywhere. `ProtectedRequests` is one request: its plan is the calls it waits
for, what they look at changes meanwhile, and every error has the answer its
surface gives it. `Fail` is a call whose failure is recognised; `Misjudge` is a failure of
the identity provider answered like a refusal by it, at the callback, the refresh or the
check of a token, and `RefusalsAreTrue` excuses that alone, remembered in `misjudged`.
404, 405 and 422 of forms and 413 of uploads are folded into
classes; two requests may be sent under one idempotency key.

### Shells

The portal goes through its load coordinator, whose generation grows when the
connection is lost; the mobile client calls its port directly and may log out.
A shell that says it is loading has a call to wait for, and the portal shows nothing
of a generation that is over.

## 3. Runs

| Run | What it asks | Bounds | States |
|---|---|---|---|
| `outbox` | claims, budget, duplicates, replays, refinement | 2 messages (one batch may hold both), 2 publishers, 2 payloads, 2 attempts, one each of crash, lease overrun, lost confirm and replay | 1.97 M |
| `outbox_live` | every stored message ends published or isolated | as above with one payload, without lost confirm and replay | 50 k |
| `outbox_confirmed` | finding: a confirmed row can be isolated | as `outbox` | - |
| `inbox_event` | one effect, one payload, nothing vanishes, the queue drains | 3 copies (original, duplicate, and one left by a longer policy) with 2 payloads, 2 workers, 2 attempts, a crash | 225 k |
| `inbox_job` | one execution, settled jobs final | 1 job, 3 consumers (one does not know it), 2 workers, a crash | 2.46 M |
| `integration` | slots, breaker, abort, termination | 3 calls on 2 slots and 1 queue place, one retried, one whose operation ignores aborts, breaker threshold 2 with 2 probes, one permit per window | 588 k |
| `file_center` | rows agree, clean-up spares completed content, quarantine, exact events, final statuses | one version; two operations each to complete, scan and clean up, one each to create, reconcile, link and unlink; 3 concurrent requests; a fitting or an unfit content | 654 k |
| `file_center_missing` | finding: a stale reconciliation loses a version | as above with 2 requests | - |
| `rabbit_consumer` | correlation of retries, drain, late tags, the stop ends | 2 bindings (one registers while the other delivers), 3 deliveries of which 2 share a message id and may be retried, 2 places, 2 failures of the connection or its parts | 1.59 M |
| `worker` | honest file, single stops and closes, exit code, return | 2 handlers, 2 signals, 2 failures; every deadline may pass | 1.0 M |
| `platform` | 24 components, each on its own instance | see below | 631 k |
| `file_audit` | finding: no file operation is answered as done | one request | - |

Two messages are enough for the outbox because rows only meet in a batch; two
publishers because a claim has at most one predecessor at work. Two workers are
enough for the inbox because a third waits on the same lock. Three deliveries on two
places are the least that make one wait while two share the confirm channel.

The platform's instances: two callers of everything that is called, and two
commands or more under an operation id where it may conflict. Sessions: one login,
3 requests, one refresh (`SessionsProofs` covers any number), 2 failures. Time is a
small counter wherever something begins, ends, expires or retains, with every
boundary inside its range (`MaxPolicyTime`, `LastTime`, `MaxConfigTime`,
`MaxKeyTime`, `MaxEvaluationTime`, `MaxWebhookTime`, `MaxAiTime`, `MaxTaskTime`).
Organization: 17 operations in stories of those that can meet (two placements that
would close a cycle, a close under what builds on it, an association beside the
resolution of its subject); three times, so that a change can be scheduled.
Configuration: 10 operations in stories, a scope with priority over another.
Migrations: two releases with 4 versions. Evaluation: two roles, two dimensions with
two values. Requests: one change outside, two sends under one key. Every property of a passing
run has a mutant of the code that breaks it.

Fairness. `Outbox`: the loop keeps polling (`createOutboxPublisherLoopHandler`),
the orchestrator restarts an exited worker, time passes; faults are never owed
and their number is bounded, which is what "eventually settled" needs. `Inbox`:
a subscribed worker keeps handling deliveries and a handler settles because its
timeout aborts it. `IntegrationRuntime`: the event loop runs what is ready and
the total-deadline timer fires; nothing is assumed of the provider.
`RabbitConsumer`: one weak fairness for everything the event loop can do,
including that a handler ends (its timeout aborts it) and that the broker
answers while the connection stands. `WorkerLifecycle`: deadlines pass and the
event loop goes on; handlers, stop hooks and connections may hang for ever, and
the process must return all the same. It is assumed that what has no deadline
there, `createRabbitConfirmTransport` and `loadConfiguration`, settles.
The platform's components are checked for safety only: browsers, operators and
callers owe nothing.

Deadlock checking is off: outboxes empty, queues drain, calls end and requests
run out.

### Findings

- `outbox_confirmed`: `publisher.ts` says a confirmed row must not be isolated
  because it "would falsely describe delivery". A publisher that dies after the
  confirm leaves the row to stale-lease recovery, whose last failing attempt
  isolates it.
- `file_center_missing`: `reconcileContentVersion` inspects the object first and
  applies the answer to the status of a later moment. Inspected before the
  upload and marked after the completion, a version whose object exists becomes
  `object_missing`, which nothing leaves.
- `file_audit`: the facts of one file operation - attempted, then succeeded - go
  to the audit service under one operation id, which keeps the first meaning and
  refuses any other. With everything up, an upload is stored and a download
  signed, and both are answered 503; a confirmation is refused before it starts.

### Divergences stated in the modules, not run

No run asks for these; they are stated beside the code
they are about and TLC refutes them when they are asked for.

- `FileCenter.CompletedIsImmutable`: a completed object is overwritten through its
  upload URL, which the completion does not withdraw.
- `RabbitConsumer.FailureIsDrained`: a failure during the registration loop, or of
  the port while a retry waits for the write buffer (rabbit-adapter.ts:446),
  rejects a promise without a handler and ends the process undrained, where the
  worker's README promises a drain.
- `WorkerLifecycle.BreachRejectsShutdown`: the worker's README:17 says a breached
  deadline rejects the shutdown; `stop()` does not look at the clean-up of the start
  it cancelled (index.ts:271).
- `Workflow.NewestRevisionIsNewest`: the confirming read of one command may be
  answered before another command writes, and its revision taken after
  (workflow README:19, service.ts:52, flowable-rest.ts:175-181).
- `Logins.OutageIsNoRefusal`: a token call that times out, is answered unreadably or
  with the client unknown (its secret rotated under the process) is told to the browser as
  400 `authentication_callback_invalid` or 401 `authentication_required`, not 503
  (oidc.ts:107-146, with the time-out set at 182-183); oidc.test.ts:167 says "classifies a
  Token endpoint outage as a closed dependency failure" and tries a 503 answer alone.
  The time-out's `DOMException` is what openid-client 6 reports; that library is external.
- `FormSchema.FormsAreExact` excuses a publication sent before the draft it names
  was saved: its digest is of another draft (service.ts:88-93, ADR-0013 section 8).
- The package README of the integration runtime says it waits for settlement;
  `runWithDeadline` races the operation with its deadline, and
  `LateSettlement` models the operation that outlives its attempt.

### Met while modelling

Facts a maintainer may want, each visible in its module.

- Sessions and logins: a refresh whose answer is lost after the provider rotated
  leaves a session that can never be refreshed. A token endpoint that times out or answers
  unreadably reads as a refusal: the login has to be begun again, its transaction being
  consumed, and a refresh gets 401 though its session stays. A JWKS answer that is not 200 or
  cannot be parsed, or a token signed with a key newer than the cached set within
  its cool-down, reads as an invalid token and ends the session. Redis is not
  reconnected once its connection is lost. During a rolling change of the session
  key, a process that has not got the new key deletes a session made with it. A
  log-out with a stale cookie gets 401 and the cookie stays.
- Client secret: an update that Keycloak carries out after its time-out can
  overtake the rollback. The script takes no lock. The file it leaves is 0600, and
  production readers require 0400 or 0440.
- HTTP: no route passes `selectedAssignmentId`, so grants held by an assignment
  never apply; `form_operation_conflict` and conflicting associations are answered
  503 where file conflicts are 409; the checks of one request share no transaction.
- API process: every failed start logs `api_start_cleanup_failed` or ends terminal.
- RabbitMQ: with an aborted signal the rejection of `model.close()` goes
  unobserved; without one a `channel.close()` that hangs keeps `model.close()` from
  being called.
- Organization: the close of a position, employment or assignment does not look at
  what builds on it, which `resolveWorkforceContext` filters; one invalid path
  refuses the whole context; paths are walked without a snapshot.
- Configuration: activations may be back-dated; a termination reads its clock before
  its locks, and its retry with an `effectiveTo` that has passed is refused before
  the receipt is looked for. A stale cache entry is harmless since the answer of the
  database decides.
- Authorization: nothing in production calls `invalidatePolicyVersion`; a cached
  decision is compared with a fresh evaluation, so its TTL, counted from the write,
  does no harm.
- App registry: its audit port is keyed by operation and result, the audit service
  by operation; a load of the registry is not a snapshot.
- Migrations: a version below the evidence migration that is applied after it never
  gets evidence.
- Shells: a stale load settles as "unavailable" and may overwrite a newer "ready",
  which fails closed. In the mobile client, a log-out pressed twice with a retry
  between can show "ready" after the second. In the workbench, which is not
  modelled, a log-out does not cancel a refetch under way.

## 4. Proofs

All theorems hold for every value of the constants that meets the assumption of their
module (`OutboxAssumption`, `InboxAssumption`, `IntegrationAssumption`,
`BusinessConfigurationAssumption` and so on): limits, lifetimes and times are natural
numbers, a budget allows an attempt, events and jobs are disjoint, commands have the
fields of their kind, the replay retention is at least twice the skew, priorities lie in the
range `validation.ts` admits. TLC evaluates each of them on a run. No bound of the runs is
used, and no set is assumed finite but that of the organization's units, whose number bounds
the climb of the hierarchy.

`OutboxProofs`. The inductive invariant is `TypeOK /\ ClaimDiscipline /\
DeliveryInv`. `ClaimDiscipline` ties every claim a publisher holds to the row: a
claim whose token is current is of a publishing row at that attempt, tokens are
not shared. Without it a late mark could touch a row claimed by another; with it
`Owns(c)` is enough for `PublishedWasTaken`, `RetryBudget` and `AckedIsStored`,
which together with two auxiliary facts (a publisher in `confirmed` has a copy
at the broker; a waiting claim counts an attempt) form `DeliveryInv`. From the
invariant: `TypeCorrect`, `ClaimsAreDisciplined`, `OneOwner`,
`PublishedIsDelivered`, `BudgetIsKept`, `AcknowledgedIsStored`, the action
property `PublishedStays` and the refinement `ImplementsPromise`.

`RepeatsStayOwed` counts, so it needs books of its own, `RepeatInv`: what a publisher
holds at each place of its batch (`BatchDiscipline`), for each row no more copies than
faults, replays and publications that are under way would explain (`CopiesArePaid`), and no
more replays than audited ones (`ReplaysArePaid`). The publishers at work on a row and the
operators replaying it are finite sets because they start empty and a step moves one.

`InboxProofs`. `SafetyInv` adds to `TypeOK`: workers inside a transaction exclude
each other per key and per job row, a worker inside one has seen no receipt and
a queued job, and effects, receipts and job status agree. The step lemmas follow
the transaction: steps outside it, the step that enters, the step that commits.
From it: `EffectsAtMostOnce`, `JobsExecuteOnce`, `TablesStayInAgreement`,
`FirstPayloadWins`, `SettledJobsAreFinal`. `NothingEverVanishes` follows a key instead:
whatever was published is in the queue, in the hand of a worker that has not let it go, or
on record (`KeptInv`); with `IdleIsEmpty` a worker takes a copy into an empty hand.

`RabbitConsumerProofs`. Neither property is inductive: that nothing is in flight
at the end of the drain needs that nothing was accepted since the snapshot, and
that no consumer is left needs to know where every tag is. `StopInv` says so:
past `stop()` the adapter is stopping and what is in flight is in the snapshot
(`Draining`); a consumer at the broker has its tag in the map, its cancel on the
way, or a `run()` that is cancelling it, and the hook leaves the map empty
(`Owned`). The lemmas reduce the many steps of a delivery to what they do to the
flight: a step inside it, an end, or the loss of a channel. From it:
`DrainLeavesNothing` and `NoConsumerIsLeft`. `RetriesAreBacked` is a counting argument
(`AckInv`): a delivery that has not reached its retry has published nothing
(`NothingEarly`), and every acknowledged retry has used up one confirmed publication of
its message that nobody can take back (`Paid`), whichever of two equal messages the port
confirms first.

`WorkerProofs`. `WorkerIsHonest` speaks of the moment bootstrapWorker returns, but why it
holds is the order of everything before it, so the invariant follows the life of the
process. Of the resources: while they are created nobody has called close, and what a failed
creation acquired is being closed (`CreationIsOpen`); once close is called nothing is open,
what is no target of it any more is closed, and a settled close leaves nothing closing
(`CloseIsHonest`). Of the life: before the start there is nothing to stop (`NotStarted`), the
boot returns after what it began (`BootInOrder`), a start under way has stopped and closed
nothing (`StartIsWhole`) and neither has the worker at work (`WorkIsWhole`), an open context has
somebody who will close it, a late one included (`ContextIsOwned`), one round of stop hooks is
never followed by a start (`StopIsFinal`), and an exit code of 0 waits for a signal that came
first and for a stop whose answers are all in (`StopIsEarned`). From them `WorkerStaysHonest`
and the action property `CloseStaysShared`.

`SessionsProofs`. `SessionInv` adds to the types, `OneCredential` and
`EndedIsFinal` that a login makes one session (`Once`: the transaction is consumed
before the exchange, one request has it, and none is left once the session was
created); without it a second callback could bring an ended session back.
`LeaseHeld` (a refresh has the lease or has outlived it) gives `LeaseProtects`.
`ReachInv` joins the two promises about a new credential, which follow it through
audit, discard, release and answer. Theorems: `TypeCorrect`,
`OneCredentialWorks`, `EndIsFinal`, `LeaseIsExclusive`, `CredentialsAreAudited`,
`SessionsStayWithinReach`.

`SecretsStaySound`, in the same module, rests on three invariants. For the client's secret
(`RotationInv`): one run is under way; from its update to its rename it accounts for
what Keycloak may have (`RunHolds`), otherwise file and Keycloak agree or the difference
is excused (`Excused`), and a secret is confirmed before it is in the file, so whichever
of its contents a reader opened (`ReaderHolds`). For the keys (`KeysInv`): while a
process is behind, it has the key before the newest alone, which the others still read;
a process reads the newest alone only when none is behind and every session that lasts
is under it; and a session under the older key ends before its last reader may give that
key up, counted from the last switch (`NewestHolds`). For the logins
(`LoginsInv`): a request that still has the session's revision carries tokens that are not
older than the stored ones (`JobHolds`), so a rotation loses none that another request
brings, and one request at most is in the login's exchange. A token call fails in one of three
ways (`FailuresAre`): refused, recognised as the provider's failure, or one of `Misjudged`.

`ApiStaysSound`, there too, rests on three more. For the readiness (`ProbesInv`): nothing is
awaited when an outage begins, so no awaited call is older than the last one. For the
process (`LifeInv`): a start that succeeded was not cancelled and is ended by a stop alone;
one that failed is cancelled and leaves nothing open unless the close failed or was late. For
the requests (`RequestsInv`): what was asked of a request when it came holds of it
(`Admitted`), every call behind it says what held at some moment since (`CallPassed`),
what does not hold now was seen not to (`Seen`), and before its last call a request
has done nothing, except an upload that waits for its audit; a misjudged failure ends a
request that has done nothing either (`MisjudgeKeeps`). That the calls of a plan are
enough for what its operation needs is shown plan by plan (`PlansAreSound`, `NeedsAreMet`).

`RuntimeProofs`. The limiter's books (`LimiterInv`): the queue holds every waiting call
once, `active` is the number of calls between their grant and their `finally`, and nobody
waits while a slot is free. The breaker's (`BreakerInv`): a half-open place is of a probe
that still runs, in whichever half-open state it was admitted, since a late report of an
earlier state may not give back a place twice. A call's (`CallInv`): one that backs off
has an attempt left. From these `LimitsStaySound` and the action property
`AbortedStartNothing`.

`DecisionProofs`. For the policies the invariant is that the one in force is the normal
form of a valid one that was sent (`PolicyInForceIsValid`). From it and lemmas on the
normal form, on the combination of scopes and on the next boundary of a grant: a check
allows what the policy means, the scope of a list admits what a check allows, and an
evaluation stays the same for as long as it may be remembered (`EvaluationsAreSound`).
For their publication, `PublishedInv` says that a publication gave its version the content
it still has, under a decision a stored policy gave (`Earned`), and `DecisionHolds` what a
call knows at each place: what allows it was earned, what it audits is published. From
them `PublicationsStaySound`, its action property included: the pointer moves only with a
new publication that expected what it replaced, so no retry moves it back.
For the configuration, `ConfigInv` says what holds of the facts (`DictionaryInv`,
`ParameterInv`, `TimelineInv`, `ReceiptsInv`), what each request has checked and holds
(`CommandHolds`), and why it stays true: of two requests past their checks neither reads
what the other writes (`Meet`, `ConfigApart`), which is what the two locks are for. A
resolution under way (`AnswerHolds`) stays true under terminations it has not seen because
an activation is ended once. From it `ConfigurationStaysSound`.

For the organization, `OrgInv` has one part for commands and one for contexts. A command
past its triggers still has what it found when it commits (`WritesHold`): other
commits are of other rows (`RowsAreApart`) and of other operations (`ClaimsAreApart`), and
one that could overlap it or close a cycle with it needs a lock it holds (`WriteStillHolds`).
The hierarchy takes lemmas on the recursive function that gathers the ancestors: it exists
(`ClimbExists`, by a least number where it would not), it stops at a set that is closed upwards
because there are finitely many units (`AncestorsClosed`) and within every such set
(`AncestorsWithin`), so a new pair whose unit is not above its parent closes no cycle
(`NewPairClosesNothing`). The triggers look for a cycle at the beginning of an interval and at
each change inside it; that this is enough for every time is `LastCheckpoint`: between changes
there are no parents that were not there at the last one. The resolution of a context keeps what it
rests on apart from what was over (`NothingIsOver`), joined to one person (`PersonsAgree`), and
every unit it needs covered or still to be looked for (`PathsAreCovered`). From it
`OrganizationStaysSound`, which includes that every commit is one of the memory store's.

`ServiceProofs`. Each component has an invariant of one shape: what holds of its stored
facts, and what each caller knows at its place, so that a step of one caller has to show
that it takes nothing from the others.

- `ProjectionInv` (a snapshot in hand is a version of the source, the row no older than a
  receipted event) and the leases of the completion command: `ProjectionStaysNewest`,
  `TaskCenterStaysSound`.
- `AuditInv`, `NoticeInv`, `FormInv`, `WorkflowInv`: `TrailStaysSound`,
  `NotificationsStayExact`, `FormsStayExact`, `WorkflowStaysExact`. For forms two requests
  of one operation are never both under its lock; for the workflow one caller owns a
  command from its entry in the ledger to its end.
- `RegistryInv` with `RequestHolds`: what a load has read so far refers to what it has
  read. The navigation that is kept is taken as the greatest closed set of candidates,
  which is what the code's loop reaches. `RegistryStaysSound`.
- `ConnectionInv`: who has the connection at each place of the factory and of the close.
  `ConnectionsStayOwned`.
- `AiInv`: an operation has one owner, and an entry, its proposal and its charge agree.
  `AiStaysAccountable`.
- `WebhookInv`: what is accepted has reserved its keys for as long as a copy of it could be
  fresh, unless its verification took longer than the retention allows. `WebhooksAreOnce`.
- `ShellInv`: a shell that shows it is loading has a call of its generation to wait for.
  `ShellsStayHonest`.
- `TransactionInv` (the pool's slots, and what a unit may have been told: `Slots`,
  `Outcomes`) and `MigrationInv` (a runner holds the lock and has read what is applied):
  `TransactionsStayHonest`, `MigrationsStayExact`, together `DatabaseStaysSound`.
- `FileTyped` and `FileSafetyInv`: a completion has seen contents of an object, a request
  holds one operation (`OneInHand`), of the kind its control point belongs to
  (`HandsMatch`), a clean-up receipt exists only once the version is abandoned
  (`CleanupReceipts`, which is why a late or repeated deletion spares completed content),
  and a request past the copy of a quarantine has left it in the store (`CopiesMade`).
  `FileEventInv` counts events and adds that a version is announced as available once.
  `FileTypesStay`, `RowsAgree`, `CleanupSparesCompleted`, `QuarantineHolds`,
  `EventsAreExact` and the action property `SettledStatusesStay`.

The properties of the runs that are conjunctions have theorems of their own, made of
those above: `ClaimsStaySound`, `OneEffectEver`, `OneExecutionEver`,
`VersionsStaySound`, `StopsAreClean`, `SessionsAreSound`, `CredentialsStay`.

Every safety invariant and action property of the passing runs is a theorem. Only
model-checked is liveness, which with fairness and ENABLED is out of the prover's reach:
`EventuallySettled`, `EventuallyDrained`, `EveryCallEnds`, `StopSettles` and `Returns`. No operator of the modules is
declared RECURSIVE. Of the recursive functions, what `AncestorsIn` computes is proved as far as
the hierarchy needs it; the library's induction theorems cannot be instantiated, so those
lemmas argue by a least counterexample.

## 5. Not modelled, and the plan

PostgreSQL's isolation is taken at read committed with row and advisory locks
as the statements use them; RabbitMQ's durability and the delay of the retry
layers are external (a delayed copy is ready at any time). Validation of input
shapes, formats, logging and telemetry are left out.

Not modelled: the parsing of the worker's and the API's configuration and the
adapters of the scanner and the object store, which keep no state; the pages,
components and typed clients of the front ends, which show what they are answered;
the scripts for backup and deployment, run by an operator one at a time. Of the
file center, the numbering of versions of one file and the download grant; of the
task center, queries and links.

What would come next: the composition of `Sessions` with `Logins` over one lease, which both
model; liveness of the task projection once the retry of its consumer is bounded by
something in the code.
