------------------------------- MODULE Outbox -------------------------------
(***************************************************************************)
(* The transactional outbox of packages/platform-modules/eventing-outbox:  *)
(* the rows of platform_eventing.outbox_messages, the publishers that      *)
(* claim them, publish them with broker confirms and mark the outcome, and *)
(* the manual replay of isolated rows.                                     *)
(*                                                                         *)
(* Time is abstracted to the two comparisons the code makes with it:       *)
(* available_at <= at (the row is in "due") and claimed_at <= at - lease   *)
(* (the row is in "lapsed").  A backoff or a lease may run out at any      *)
(* moment, so every timing of the real clock is covered.                   *)
(***************************************************************************)
EXTENDS Naturals, FiniteSets

CONSTANTS
  Messages,        \* message ids
  Payloads,        \* payload fingerprints (payload_sha256)
  Publishers,      \* worker processes running the publisher loop
  Operators,       \* people running the manual replay operation
  MaxAttempts,     \* options.maxAttempts
  BatchSize,       \* options.batchSize
  MaxCrashes,      \* bound: process crashes
  MaxOverruns,     \* bound: leases that run out under a live publisher
  MaxLostConfirms, \* bound: messages the broker took but did not confirm
  MaxReplays       \* bound: recorded replay intents

ASSUME OutboxAssumption ==
  /\ MaxAttempts \in Nat \ {0}
  /\ BatchSize \in Nat \ {0}
  /\ MaxCrashes \in Nat
  /\ MaxOverruns \in Nat
  /\ MaxLostConfirms \in Nat
  /\ MaxReplays \in Nat

VARIABLES
  (* the outbox table, one entry per message id *)
  status, sha, attempt, token, due, lapsed,
  (* the publishers: control point, claimed rows, the row being published *)
  pc, batch, current,
  (* the operators: the message whose replay intent was just recorded *)
  replaying,
  (* observation: producers told "stored", copies taken by the broker,     *)
  (* messages whose confirm reached a publisher, replay intents and        *)
  (* replays, and the faults so far                                        *)
  acked, copies, confirmed, audited, replayed, crashes, overruns, lost

table == <<status, sha, attempt, token, due, lapsed>>
loop == <<pc, batch, current>>
faults == <<crashes, overruns, lost>>
replays == <<audited, replayed>>
vars == <<table, loop, replaying, acked, copies, confirmed, replays, faults>>

Statuses == {"absent", "pending", "publishing", "published", "isolated"}
Claim == [message : Messages, token : Nat, attempt : Nat]

TypeOK ==
  /\ status \in [Messages -> Statuses]
  /\ sha \in [Messages -> SUBSET Payloads]
  /\ attempt \in [Messages -> Nat]
  /\ token \in [Messages -> Nat]
  /\ due \in SUBSET Messages
  /\ lapsed \in SUBSET Messages
  /\ pc \in [Publishers -> {"idle", "ready", "confirmed", "failed", "down"}]
  /\ batch \in [Publishers -> SUBSET Claim]
  /\ current \in [Publishers -> SUBSET Claim]
  /\ replaying \in [Operators -> SUBSET Messages]
  /\ acked \in SUBSET (Messages \X Payloads)
  /\ copies \in [Messages -> Nat]
  /\ confirmed \in SUBSET Messages
  /\ audited \in [Messages -> Nat]
  /\ replayed \in [Messages -> Nat]
  /\ crashes \in Nat /\ overruns \in Nat /\ lost \in Nat

Init ==
  /\ status = [m \in Messages |-> "absent"]
  /\ sha = [m \in Messages |-> {}]
  /\ attempt = [m \in Messages |-> 0]
  /\ token = [m \in Messages |-> 0]
  /\ due = {}
  /\ lapsed = {}
  /\ pc = [p \in Publishers |-> "idle"]
  /\ batch = [p \in Publishers |-> {}]
  /\ current = [p \in Publishers |-> {}]
  /\ replaying = [o \in Operators |-> {}]
  /\ acked = {}
  /\ copies = [m \in Messages |-> 0]
  /\ confirmed = {}
  /\ audited = [m \in Messages |-> 0]
  /\ replayed = [m \in Messages |-> 0]
  /\ crashes = 0 /\ overruns = 0 /\ lost = 0

-----------------------------------------------------------------------------
(* Producers *)

\* appendEvent: the row is inserted inside the owner's transaction.  A second
\* append of the same id is a duplicate if the fingerprint agrees and is
\* refused otherwise (no step: nothing changes and nothing is acknowledged).
Store(m, s) ==
  /\ status[m] = "absent"
  /\ status' = [status EXCEPT ![m] = "pending"]
  /\ sha' = [sha EXCEPT ![m] = {s}]
  /\ \/ due' = due \cup {m}      \* availableAt is in the past ...
     \/ due' = due               \* ... or the message is scheduled
  /\ UNCHANGED <<attempt, token, lapsed>>

IsDuplicate(m, s) == status[m] # "absent" /\ sha[m] = {s}

AppendEvent(m, s) ==
  /\ \/ Store(m, s)
     \/ IsDuplicate(m, s) /\ UNCHANGED table
  /\ acked' = acked \cup {<<m, s>>}
  /\ UNCHANGED <<loop, replaying, copies, confirmed, replays, faults>>

-----------------------------------------------------------------------------
(* The publisher loop *)

\* Mutants: a claim is taken over before its lease is out, or never.
ClaimableAnyTime == {m \in Messages : m \in due \/ status[m] = "publishing"}
ClaimablePending == {m \in Messages : status[m] = "pending" /\ m \in due}
Claimable == {m \in Messages : \/ status[m] = "pending" /\ m \in due
                               \/ status[m] = "publishing" /\ m \in lapsed}

\* Mutant: a row taken over keeps the token of the claim that lapsed.
ClaimOutboxKeepingToken(p, S) ==
  LET Fresh(m) == IF status[m] = "publishing" THEN token[m] ELSE token[m] + 1 IN
  /\ pc[p] = "idle"
  /\ S \subseteq Claimable /\ S # {} /\ Cardinality(S) <= BatchSize
  /\ status' = [m \in Messages |-> IF m \in S THEN "publishing" ELSE status[m]]
  /\ attempt' = [m \in Messages |-> IF m \in S THEN attempt[m] + 1 ELSE attempt[m]]
  /\ token' = [m \in Messages |-> IF m \in S THEN Fresh(m) ELSE token[m]]
  /\ due' = due \ S
  /\ lapsed' = lapsed \ S
  /\ batch' = [batch EXCEPT ![p] =
        {[message |-> m, token |-> Fresh(m), attempt |-> attempt[m] + 1] : m \in S}]
  /\ pc' = [pc EXCEPT ![p] = "ready"]
  /\ UNCHANGED <<sha, current, replaying, acked, copies, confirmed, replays, faults>>

\* claimOutbox: the rows of S move to publishing under fresh tokens.  Which
\* rows the query returns, and whether it fills the batch, depends on the
\* order of available_at, on rows other transactions hold locked (skip
\* locked) and on how old "at" is: any non-empty set up to the limit.
ClaimOutbox(p, S) ==
  /\ pc[p] = "idle"
  /\ S \subseteq Claimable /\ S # {} /\ Cardinality(S) <= BatchSize
  /\ status' = [m \in Messages |-> IF m \in S THEN "publishing" ELSE status[m]]
  /\ attempt' = [m \in Messages |-> IF m \in S THEN attempt[m] + 1 ELSE attempt[m]]
  /\ token' = [m \in Messages |-> IF m \in S THEN token[m] + 1 ELSE token[m]]
  /\ due' = due \ S
  /\ lapsed' = lapsed \ S
  /\ batch' = [batch EXCEPT ![p] =
        {[message |-> m, token |-> token[m] + 1, attempt |-> attempt[m] + 1] : m \in S}]
  /\ pc' = [pc EXCEPT ![p] = "ready"]
  /\ UNCHANGED <<sha, current, replaying, acked, copies, confirmed, replays, faults>>

\* transport.publish of the next row of the batch returns: the broker took a
\* copy and its confirm arrived.
PublishConfirmed(p, c) ==
  /\ pc[p] = "ready" /\ c \in batch[p]
  /\ copies' = [copies EXCEPT ![c.message] = @ + 1]
  /\ confirmed' = confirmed \cup {c.message}
  /\ pc' = [pc EXCEPT ![p] = "confirmed"]
  /\ current' = [current EXCEPT ![p] = {c}]
  /\ UNCHANGED <<table, batch, replaying, acked, replays, faults>>

\* Mutant: a returned message is not noticed (takeReturned is not asked).
PublishReturned(p, c) ==
  /\ pc[p] = "ready" /\ c \in batch[p]
  /\ pc' = [pc EXCEPT ![p] = "confirmed"]
  /\ current' = [current EXCEPT ![p] = {c}]
  /\ UNCHANGED <<table, batch, replaying, acked, copies, confirmed, replays, faults>>

\* transport.publish throws: no route, nack, returned or closed channel.  The
\* broker has no copy, or it has one and the confirm was lost.
PublishFailed(p, c) ==
  /\ pc[p] = "ready" /\ c \in batch[p]
  /\ \/ UNCHANGED <<copies, lost>>
     \/ /\ lost < MaxLostConfirms
        /\ lost' = lost + 1
        /\ copies' = [copies EXCEPT ![c.message] = @ + 1]
  /\ pc' = [pc EXCEPT ![p] = "failed"]
  /\ current' = [current EXCEPT ![p] = {c}]
  /\ UNCHANGED <<table, batch, replaying, acked, confirmed, replays, crashes, overruns>>

\* The where clause of both mark statements: status and claim token.
Owns(c) == status[c.message] = "publishing" /\ token[c.message] = c.token

\* row.attemptCount >= options.maxAttempts
Exhausted(c) == c.attempt >= MaxAttempts

\* Go on with the rows of the batch that are left after c.
NextRow(p, c) ==
  /\ batch' = [batch EXCEPT ![p] = @ \ {c}]
  /\ current' = [current EXCEPT ![p] = {}]
  /\ pc' = [pc EXCEPT ![p] = IF batch[p] = {c} THEN "idle" ELSE "ready"]

\* publishBatch throws: the loop handler rejects and the worker goes down
\* with the rest of its batch still claimed.
Down(p) ==
  /\ batch' = [batch EXCEPT ![p] = {}]
  /\ current' = [current EXCEPT ![p] = {}]
  /\ pc' = [pc EXCEPT ![p] = "down"]

\* markOutboxPublished after the confirm.
MarkPublished(p, c) ==
  /\ pc[p] = "confirmed" /\ c \in current[p]
  /\ \/ /\ Owns(c)
        /\ status' = [status EXCEPT ![c.message] = "published"]
        /\ lapsed' = lapsed \ {c.message}
        /\ UNCHANGED <<sha, attempt, token, due>>
        /\ NextRow(p, c)
     \/ /\ ~Owns(c)
        /\ UNCHANGED table
        /\ Down(p)
  /\ UNCHANGED <<replaying, acked, copies, confirmed, replays, faults>>

\* markOutboxFailure after transport.publish threw: isolate the exhausted row,
\* otherwise back to pending until the backoff of this attempt is over.
MarkFailure(p, c) ==
  /\ pc[p] = "failed" /\ c \in current[p]
  /\ \/ /\ Owns(c)
        /\ status' = [status EXCEPT ![c.message] =
                        IF Exhausted(c) THEN "isolated" ELSE "pending"]
        /\ lapsed' = lapsed \ {c.message}
        /\ due' = due \ {c.message}
        /\ UNCHANGED <<sha, attempt, token>>
        /\ NextRow(p, c)
     \/ /\ ~Owns(c)
        /\ UNCHANGED table
        /\ Down(p)
  /\ UNCHANGED <<replaying, acked, copies, confirmed, replays, faults>>

\* The process dies, or a store call throws with its effect committed or not:
\* the claimed rows stay claimed until their leases run out.
Crash(p) ==
  /\ pc[p] # "down" /\ crashes < MaxCrashes
  /\ Down(p)
  /\ crashes' = crashes + 1
  /\ UNCHANGED <<table, replaying, acked, copies, confirmed, replays, overruns, lost>>

Restart(p) ==
  /\ pc[p] = "down"
  /\ pc' = [pc EXCEPT ![p] = "idle"]
  /\ UNCHANGED <<table, batch, current, replaying, acked, copies, confirmed, replays, faults>>

-----------------------------------------------------------------------------
(* Time *)

\* now reaches available_at
BackoffElapses(m) ==
  /\ status[m] = "pending" /\ m \notin due
  /\ due' = due \cup {m}
  /\ UNCHANGED <<status, sha, attempt, token, lapsed>>
  /\ UNCHANGED <<loop, replaying, acked, copies, confirmed, replays, faults>>

Held(m) == \E p \in Publishers : \E c \in batch[p] : c.message = m /\ c.token = token[m]

\* now reaches claimed_at + lease, the claim having no live holder ...
LeaseElapses(m) ==
  /\ status[m] = "publishing" /\ m \notin lapsed
  /\ ~Held(m)
  /\ lapsed' = lapsed \cup {m}
  /\ UNCHANGED <<status, sha, attempt, token, due>>
  /\ UNCHANGED <<loop, replaying, acked, copies, confirmed, replays, faults>>

\* ... or a publisher that is still at work on its batch.
LeaseOverrun(m) ==
  /\ status[m] = "publishing" /\ m \notin lapsed
  /\ Held(m) /\ overruns < MaxOverruns
  /\ lapsed' = lapsed \cup {m}
  /\ overruns' = overruns + 1
  /\ UNCHANGED <<status, sha, attempt, token, due>>
  /\ UNCHANGED <<loop, replaying, acked, copies, confirmed, replays, crashes, lost>>

-----------------------------------------------------------------------------
(* Manual replay *)

\* replayOutbox, up to the recorded audit intent: authorization and the audit
\* record do not look at the row.
RecordReplay(o, m) ==
  /\ replaying[o] = {}
  /\ audited[m] < MaxReplays
  /\ replaying' = [replaying EXCEPT ![o] = {m}]
  /\ audited' = [audited EXCEPT ![m] = @ + 1]
  /\ UNCHANGED <<table, loop, acked, copies, confirmed, replayed, faults>>

\* store.replayOutbox: only an isolated row changes, otherwise the caller is
\* told not_found.
ApplyReplay(o, m) ==
  /\ m \in replaying[o]
  /\ \/ /\ status[m] = "isolated"
        /\ status' = [status EXCEPT ![m] = "pending"]
        /\ attempt' = [attempt EXCEPT ![m] = 0]
        /\ due' = due \cup {m}
        /\ replayed' = [replayed EXCEPT ![m] = @ + 1]
        /\ UNCHANGED <<sha, token, lapsed>>
     \/ status[m] # "isolated" /\ UNCHANGED <<table, replayed>>
  /\ replaying' = [replaying EXCEPT ![o] = {}]
  /\ UNCHANGED <<loop, acked, copies, confirmed, audited, faults>>

-----------------------------------------------------------------------------
PublisherStep(p) ==
  \/ \E S \in SUBSET Messages : ClaimOutbox(p, S)
  \/ \E c \in batch[p] : PublishConfirmed(p, c) \/ PublishFailed(p, c)
  \/ \E c \in current[p] : MarkPublished(p, c) \/ MarkFailure(p, c)
  \/ Restart(p)

OperatorStep(o) == \E m \in Messages : RecordReplay(o, m) \/ ApplyReplay(o, m)

Next ==
  \/ \E m \in Messages, s \in Payloads : AppendEvent(m, s)
  \/ \E p \in Publishers : PublisherStep(p) \/ Crash(p)
  \/ \E m \in Messages : BackoffElapses(m) \/ LeaseElapses(m) \/ LeaseOverrun(m)
  \/ \E o \in Operators : OperatorStep(o)

Spec == Init /\ [][Next]_vars

\* The loop keeps polling, the orchestrator restarts a worker that exited, and
\* time passes.  Crashes, overruns and replays are never owed.
Fairness ==
  /\ \A p \in Publishers : WF_vars(PublisherStep(p))
  /\ \A m \in Messages : WF_vars(BackoffElapses(m)) /\ WF_vars(LeaseElapses(m))

FairSpec == Spec /\ Fairness

-----------------------------------------------------------------------------
(* Properties *)

\* A row says "published" only if the broker took a copy of the message:
\* marking requires the confirm and the claim under which it was published.
PublishedWasTaken == \A m \in Messages : status[m] = "published" => copies[m] > 0

\* At most one live publisher works under the current claim of a row, however
\* leases, crashes and restarts interleave (the fresh token of claimOutbox).
SingleOwner ==
  \A p, q \in Publishers : \A c \in batch[p], d \in batch[q] :
    c.message = d.message /\ c.token = d.token /\ c.token = token[c.message] => p = q

\* A row waiting for publication still has attempts left (so its backoff was
\* an entry of backoffSeconds) and an isolated row has none.
RetryBudget ==
  \A m \in Messages :
    /\ status[m] = "pending" => attempt[m] < MaxAttempts
    /\ status[m] = "isolated" => attempt[m] >= MaxAttempts

\* Every copy beyond the first is owed to a fault: a crash, a lease that ran
\* out under a live publisher or a lost confirm.  Retries, batches abandoned
\* by publishBatch and replays add none of their own.
DuplicatesAccountedFor ==
  \A m \in Messages : copies[m] <= 1 + crashes + overruns + lost

\* What a producer was told is stored is stored, with its fingerprint.
AckedIsStored ==
  \A a \in acked : status[a[1]] # "absent" /\ sha[a[1]] = {a[2]}

\* An isolated row comes back only as often as a replay intent was recorded.
ReplaysWereAudited == \A m \in Messages : replayed[m] <= audited[m]

\* A published row is never touched again, whoever still holds an old claim.
PublishedIsFinal ==
  [][\A m \in Messages : status[m] = "published" => status'[m] = "published"]_vars

\* The claims publishers hold describe the table: a claim whose token is still
\* the row's token is of a publishing row at the same attempt, two claims
\* never share a token, and the row being published belongs to the batch.
\* This is what makes every mark safe, and the inductive core of the proofs.
ClaimDiscipline ==
  \A p \in Publishers :
    /\ current[p] \subseteq batch[p]
    /\ pc[p] \in {"idle", "ready", "down"} => current[p] = {}
    /\ \A c \in batch[p] :
         /\ status[c.message] # "absent"
         /\ c.token <= token[c.message]
         /\ c.token = token[c.message] =>
              status[c.message] = "publishing" /\ attempt[c.message] = c.attempt
         /\ \A q \in Publishers : \A d \in batch[q] :
              c.message = d.message /\ c.token = d.token => p = q /\ c = d

\* Every stored message is eventually published or isolated.
EventuallySettled ==
  \A m \in Messages : status[m] \in {"pending", "publishing"}
                        ~> status[m] \in {"published", "isolated"}

\* The promise: this specification implements ReliableOutbox, the claim and
\* retry states being "queued" and the broker's copies being "taken".
Stage(m) == IF status[m] \in {"pending", "publishing"} THEN "queued" ELSE status[m]

Promise == INSTANCE ReliableOutbox
  WITH stage <- [m \in Messages |-> Stage(m)],
       taken <- {m \in Messages : copies[m] > 0}

\* Claims, leases, crashes, retries and replays are invisible to ReliableOutbox.
KeepsPromise == Promise!Spec

\* The comment in publisher.ts: a row whose publication the broker confirmed
\* must not be isolated, that "would falsely describe delivery".
ConfirmedNotIsolated == \A m \in confirmed : status[m] # "isolated"

\* What the table, the claims on it and the producers' answers make of one
\* another, in every order of claims, leases, marks, crashes and replays.
ClaimsAreSound == TypeOK /\ SingleOwner /\ ClaimDiscipline /\ RetryBudget /\ AckedIsStored

\* Nothing is published again, or comes back, without a reason on record.
RepeatsAreOwed == DuplicatesAccountedFor /\ ReplaysWereAudited
=============================================================================
