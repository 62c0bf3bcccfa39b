------------------------------- MODULE Inbox --------------------------------
(***************************************************************************)
(* Consumption of events and jobs: handleRabbitDelivery and core.consume   *)
(* of packages/platform-modules/eventing-outbox, run by the workers on the *)
(* deliveries of RabbitMQ, over the tables inbox_receipts, job_requests    *)
(* and isolations.                                                         *)
(*                                                                         *)
(* A worker handles one delivery at a time (one variable of control per    *)
(* concurrent delivery).  The database is modelled at read committed: a    *)
(* transaction's writes appear when it commits, its advisory lock and its  *)
(* row lock on the job are held until then, and a rollback leaves nothing. *)
(***************************************************************************)
EXTENDS Naturals, FiniteSets

CONSTANTS
  Events, Jobs,    \* message ids of events and of jobs
  Payloads,        \* payload fingerprints
  Consumers,       \* consumer names, one queue each
  Supported,       \* the pairs <<message, consumer>> the handler matches
  Workers,         \* concurrent deliveries
  MaxAttempts,     \* retry policy: delivery attempts
  StaleAttempts,   \* attempts of copies left by an earlier, longer policy
  MaxCopies,       \* bound: copies of a message published to one queue
  MaxCrashes       \* bound: crashes and lost channels

Messages == Events \cup Jobs
Keys == Messages \X Consumers
Attempts == 1..MaxAttempts \cup StaleAttempts
Delivery == [message : Messages, consumer : Consumers,
             payload : Payloads, attempt : Attempts]

ASSUME InboxAssumption ==
  /\ MaxAttempts \in Nat \ {0}
  /\ StaleAttempts \in SUBSET {n \in Nat : n > MaxAttempts}
  /\ Events \cap Jobs = {}
  /\ MaxCopies \in Nat /\ MaxCrashes \in Nat
  /\ Supported \in SUBSET ((Events \cup Jobs) \X Consumers)

VARIABLES
  (* the broker (external): ready copies and dead letters *)
  queue, dead,
  (* committed tables *)
  receipts, isolations, job, fingerprint,
  (* the workers: control point and delivery in hand *)
  pc, hand,
  (* observation: committed handler effects, copies published, crashes *)
  effects, published, crashes

tables == <<receipts, isolations, job, fingerprint>>
vars == <<queue, dead, tables, pc, hand, effects, published, crashes>>

JobStatuses == {"none", "queued", "completed", "cancelled", "isolated"}
Reasons == {"unsupported_message", "payload_conflict", "authoritative_state_rejected"}

TypeOK ==
  /\ queue \in [Delivery -> Nat]
  /\ dead \in SUBSET Delivery
  /\ receipts \in [Keys -> SUBSET Payloads]
  /\ isolations \in SUBSET (Keys \X Payloads \X Reasons)
  /\ job \in [Jobs -> JobStatuses]
  /\ fingerprint \in [Jobs -> SUBSET Payloads]
  /\ pc \in [Workers -> {"idle", "received", "unlocked", "locked", "running",
                         "done", "retryable", "terminal", "retried"}]
  /\ hand \in [Workers -> SUBSET Delivery]
  /\ effects \in [Keys -> Nat]
  /\ published \in [Keys -> Nat]
  /\ crashes \in Nat

Init ==
  /\ queue = [d \in Delivery |-> 0]
  /\ dead = {}
  /\ receipts = [k \in Keys |-> {}]
  /\ isolations = {}
  /\ job = [j \in Jobs |-> "none"]
  /\ fingerprint = [j \in Jobs |-> {}]
  /\ pc = [w \in Workers |-> "idle"]
  /\ hand = [w \in Workers |-> {}]
  /\ effects = [k \in Keys |-> 0]
  /\ published = [k \in Keys |-> 0]
  /\ crashes = 0

Key(d) == <<d.message, d.consumer>>
Goto(w, l) == pc' = [pc EXCEPT ![w] = l] /\ UNCHANGED hand

-----------------------------------------------------------------------------
(* Producers *)

\* submitJob: the job row and its outbox row commit together; a second submit
\* under the same key returns the first or conflicts, changing nothing.
SubmitJob(j, s) ==
  /\ job[j] = "none"
  /\ job' = [job EXCEPT ![j] = "queued"]
  /\ fingerprint' = [fingerprint EXCEPT ![j] = {s}]
  /\ UNCHANGED <<queue, dead, receipts, isolations, pc, hand, effects, published, crashes>>

\* Mutant: the job is read without a lock.
JobNeverLocked(j) == FALSE

\* The row lock of a job is held by the transaction that claimed it.
JobLocked(j) == \E w \in Workers : pc[w] = "running" /\ \E d \in hand[w] : d.message = j

\* Mutant: the update does not ask for a queued job.
CancelAnyJob(j) ==
  /\ job[j] # "none" /\ ~JobLocked(j)
  /\ job' = [job EXCEPT ![j] = "cancelled"]
  /\ UNCHANGED <<queue, dead, receipts, isolations, fingerprint, pc, hand, effects, published, crashes>>

\* cancelJob: waits for the row lock, then changes a queued job only.
CancelJob(j) ==
  /\ job[j] = "queued" /\ ~JobLocked(j)
  /\ job' = [job EXCEPT ![j] = "cancelled"]
  /\ UNCHANGED <<queue, dead, receipts, isolations, fingerprint, pc, hand, effects, published, crashes>>

\* The outbox publishes a copy (attempt 1), possibly another one of the same
\* message; a faulty producer may reuse an id with another payload.
Publish(d) ==
  /\ d.attempt \in {1} \cup StaleAttempts
  /\ d.message \in Jobs => job[d.message] # "none"
  /\ published[Key(d)] < MaxCopies
  /\ queue' = [queue EXCEPT ![d] = @ + 1]
  /\ published' = [published EXCEPT ![Key(d)] = @ + 1]
  /\ UNCHANGED <<dead, tables, pc, hand, effects, crashes>>

-----------------------------------------------------------------------------
(* One delivery *)

Receive(w, d) ==
  /\ pc[w] = "idle" /\ queue[d] > 0
  /\ queue' = [queue EXCEPT ![d] = @ - 1]
  /\ pc' = [pc EXCEPT ![w] = "received"]
  /\ hand' = [hand EXCEPT ![w] = {d}]
  /\ UNCHANGED <<dead, tables, effects, published, crashes>>

\* The delivery leaves the worker: acknowledged or rejected for good.
LetGo(w) == pc' = [pc EXCEPT ![w] = "idle"] /\ hand' = [hand EXCEPT ![w] = {}]

\* Past the policy's attempts the copy is dead-lettered without consuming it.
RejectStale(w, d) ==
  /\ pc[w] = "received" /\ d.attempt > MaxAttempts
  /\ dead' = dead \cup {d}
  /\ LetGo(w)
  /\ UNCHANGED <<queue, tables, effects, published, crashes>>

Isolate(d, reason) == isolations' = isolations \cup {<<Key(d), d.payload, reason>>}

\* A receipt of this message and consumer: the same payload is a duplicate,
\* another payload is isolated.
Settled(d) == receipts[Key(d)] # {}
ReportSettled(d) ==
  IF d.payload \in receipts[Key(d)] THEN UNCHANGED isolations
                                    ELSE Isolate(d, "payload_conflict")

\* The unmatched handler and the first look at the receipts, outside any
\* transaction.
Precheck(w, d) ==
  /\ pc[w] = "received" /\ d.attempt <= MaxAttempts
  /\ \/ /\ Key(d) \notin Supported
        /\ Isolate(d, "unsupported_message")
        /\ Goto(w, "done")
     \/ /\ Key(d) \in Supported /\ Settled(d)
        /\ ReportSettled(d)
        /\ Goto(w, "done")
     \/ /\ Key(d) \in Supported /\ ~Settled(d)
        /\ UNCHANGED isolations
        /\ Goto(w, "unlocked")
  /\ UNCHANGED <<queue, dead, receipts, job, fingerprint, effects, published, crashes>>

\* pg_advisory_xact_lock on messageId:consumer.
LockFree(d) ==
  \A w \in Workers : pc[w] \in {"locked", "running"} =>
    \A e \in hand[w] : Key(e) # Key(d)

\* Mutant: the receipts are not looked at again under the lock.
BeginWithoutRecheck(w, d) ==
  /\ pc[w] = "unlocked" /\ LockFree(d)
  /\ \/ d.message \in Jobs /\ fingerprint[d.message] = {d.payload} /\ Goto(w, "locked")
     \/ d.message \in Events /\ Goto(w, "running")
  /\ UNCHANGED <<queue, dead, tables, effects, published, crashes>>

\* withInboxTransaction: take the lock and look at the receipts again; a job
\* must exist with this fingerprint.
BeginTransaction(w, d) ==
  /\ pc[w] = "unlocked" /\ LockFree(d)
  /\ \/ /\ Settled(d)
        /\ ReportSettled(d)
        /\ Goto(w, "done")
     \/ /\ ~Settled(d)
        /\ d.message \in Jobs /\ fingerprint[d.message] # {d.payload}
        /\ Isolate(d, "payload_conflict")
        /\ Goto(w, "done")
     \/ /\ ~Settled(d)
        /\ d.message \in Jobs /\ fingerprint[d.message] = {d.payload}
        /\ UNCHANGED isolations
        /\ Goto(w, "locked")
     \/ /\ ~Settled(d)
        /\ d.message \in Events
        /\ UNCHANGED isolations
        /\ Goto(w, "running")
  /\ UNCHANGED <<queue, dead, receipts, job, fingerprint, effects, published, crashes>>

Receipt(d) == receipts' = [receipts EXCEPT ![Key(d)] = @ \cup {d.payload}]

\* claimJob: wait for the row lock, then queued -> processing.  A job that is
\* already settled only gets this consumer's receipt.
ClaimJob(w, d) ==
  /\ pc[w] = "locked" /\ ~JobLocked(d.message)
  /\ \/ /\ job[d.message] = "queued"
        /\ UNCHANGED receipts
        /\ Goto(w, "running")
     \/ /\ job[d.message] \in {"cancelled", "completed", "isolated"}
        /\ Receipt(d)
        /\ Goto(w, "done")
  /\ UNCHANGED <<queue, dead, isolations, job, fingerprint, effects, published, crashes>>

\* The handler's effect, the job's completion and the receipt commit together.
CommitHandled(d) ==
  /\ effects' = [effects EXCEPT ![Key(d)] = @ + 1]
  /\ job' = [j \in Jobs |-> IF j = d.message THEN "completed" ELSE job[j]]
  /\ Receipt(d)
  /\ UNCHANGED <<queue, dead, isolations, fingerprint, published, crashes>>

\* The authoritative state no longer allows the job.
CommitRejected(d) ==
  /\ d.message \in Jobs
  /\ job' = [job EXCEPT ![d.message] = "isolated"]
  /\ Isolate(d, "authoritative_state_rejected")
  /\ Receipt(d)
  /\ UNCHANGED <<queue, dead, fingerprint, effects, published, crashes>>

Handle(w, d) ==
  /\ pc[w] = "running"
  /\ CommitHandled(d) \/ CommitRejected(d)
  /\ Goto(w, "done")

\* The commit reaches the database but its answer does not: consume throws.
CommitUnknown(w, d) ==
  /\ pc[w] = "running"
  /\ CommitHandled(d) \/ CommitRejected(d)
  /\ \E class \in {"retryable", "terminal"} : Goto(w, class)

\* The handler or a store call throws, or the handler runs into its timeout:
\* the transaction rolls back and the binding classifies the error.
Fail(w, d) ==
  /\ \/ pc[w] \in {"unlocked", "locked", "running"}
     \/ pc[w] = "received" /\ d.attempt <= MaxAttempts
  /\ \E class \in {"retryable", "terminal"} : Goto(w, class)
  /\ UNCHANGED <<queue, dead, tables, effects, published, crashes>>

Ack(w, d) ==
  /\ pc[w] \in {"done", "retried"}
  /\ LetGo(w)
  /\ UNCHANGED <<queue, dead, tables, effects, published, crashes>>

\* Mutants: the copy is acknowledged without its successor; the successor keeps
\* the attempt number.
RetryDropped(w, d) ==
  /\ pc[w] = "retryable" /\ d.attempt < MaxAttempts
  /\ Goto(w, "retried")
  /\ UNCHANGED <<queue, dead, tables, effects, published, crashes>>

RetrySameAttempt(w, d) ==
  /\ pc[w] = "retryable" /\ d.attempt < MaxAttempts
  /\ queue' = [queue EXCEPT ![d] = @ + 1]
  /\ Goto(w, "retried")
  /\ UNCHANGED <<dead, tables, effects, published, crashes>>

\* A retryable error with attempts left: publish the next attempt to the retry
\* layer, wait for its confirm, then acknowledge this one.
Retry(w, d) ==
  /\ pc[w] = "retryable" /\ d.attempt < MaxAttempts
  /\ queue' = [queue EXCEPT ![[d EXCEPT !.attempt = @ + 1]] = @ + 1]
  /\ Goto(w, "retried")
  /\ UNCHANGED <<dead, tables, effects, published, crashes>>

DeadLetter(w, d) ==
  /\ pc[w] = "terminal" \/ (pc[w] = "retryable" /\ d.attempt >= MaxAttempts)
  /\ dead' = dead \cup {d}
  /\ LetGo(w)
  /\ UNCHANGED <<queue, tables, effects, published, crashes>>

\* The process dies, or its channel closes, or the retry publication fails (the
\* error stops the consumer): the unacknowledged copy is delivered again with
\* the same attempt and an open transaction is rolled back.
Crash(w, d) ==
  /\ crashes < MaxCrashes
  /\ crashes' = crashes + 1
  /\ queue' = [queue EXCEPT ![d] = @ + 1]
  /\ LetGo(w)
  /\ UNCHANGED <<dead, tables, effects, published>>

-----------------------------------------------------------------------------
Progress(w) ==
  \/ \E d \in Delivery : Receive(w, d)
  \/ \E d \in hand[w] :
       \/ RejectStale(w, d) \/ Precheck(w, d) \/ BeginTransaction(w, d)
       \/ ClaimJob(w, d) \/ Handle(w, d) \/ CommitUnknown(w, d) \/ Fail(w, d)
       \/ Ack(w, d) \/ Retry(w, d) \/ DeadLetter(w, d)

Next ==
  \/ \E j \in Jobs : CancelJob(j) \/ \E s \in Payloads : SubmitJob(j, s)
  \/ \E d \in Delivery : Publish(d)
  \/ \E w \in Workers : Progress(w) \/ \E d \in hand[w] : Crash(w, d)

Spec == Init /\ [][Next]_vars

\* Workers keep taking and finishing deliveries: the consumer is subscribed for
\* the worker's lifetime, handlers settle (their timeout aborts them) and locks
\* are released by commit or rollback.
FairSpec == Spec /\ \A w \in Workers : WF_vars(Progress(w))

-----------------------------------------------------------------------------
(* Properties *)

\* However copies are duplicated, redelivered, raced by other workers or
\* retried, the handler's effect commits at most once per message and consumer.
EffectAtMostOnce == \A k \in Keys : effects[k] <= 1

\* A job is executed by at most one of its consumers.
JobExecutedOnce ==
  \A j \in Jobs : \A b, c \in Consumers :
    effects[<<j, b>>] > 0 /\ effects[<<j, c>>] > 0 => b = c

\* Effects, receipts and job status agree: an effect has its receipt, a
\* completed job has its effect and no other job status has one.
TablesAgree ==
  /\ \A k \in Keys : effects[k] > 0 => receipts[k] # {}
  /\ \A e \in Events, c \in Consumers :
       receipts[<<e, c>>] # {} => effects[<<e, c>>] > 0
  /\ \A j \in Jobs :
       job[j] = "completed" <=> \E c \in Consumers : effects[<<j, c>>] > 0

\* A message and consumer is settled by one payload for ever.
OnePayload == \A k \in Keys : \A s, t \in receipts[k] : s = t

\* At most one worker is inside the inbox transaction of a message and consumer.
Serialized ==
  \A v, w \in Workers : \A d \in hand[v], e \in hand[w] :
    /\ v # w /\ pc[v] \in {"locked", "running"} /\ pc[w] \in {"locked", "running"}
    => Key(d) # Key(e)

\* No acknowledged copy vanishes: what was published for a key is still queued
\* or in hand, or has left a receipt, an isolation or a dead letter.
NothingVanishes ==
  \A k \in Keys : published[k] > 0 =>
    \/ \E d \in Delivery : Key(d) = k /\ queue[d] > 0
    \/ \E w \in Workers : \E d \in hand[w] : Key(d) = k
    \/ receipts[k] # {}
    \/ \E i \in isolations : i[1] = k
    \/ \E d \in dead : Key(d) = k

\* A settled job never changes: in particular a cancelled job never runs and a
\* completed one is never cancelled.
JobIsFinal ==
  [][\A j \in Jobs : job[j] \in {"completed", "cancelled", "isolated"}
                       => job'[j] = job[j]]_vars

\* The broker drains: copies are not retried or redelivered for ever.
Drained == (\A d \in Delivery : queue[d] = 0) /\ \A w \in Workers : hand[w] = {}
EventuallyDrained == <>[]Drained

\* A message has one effect for a consumer, and one payload.
OneEffect == EffectAtMostOnce /\ OnePayload

\* A job has one effect in all, and every table says so.
OneExecution == TypeOK /\ JobExecutedOnce /\ TablesAgree
=============================================================================
