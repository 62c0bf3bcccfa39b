----------------------------- MODULE TaskCenter -----------------------------
(***************************************************************************)
(* The task center (task-center): its projection of one task of a source   *)
(* system, and the command that completes a task.                          *)
(***************************************************************************)
EXTENDS Naturals

-----------------------------------------------------------------------------
(* The projection (postgres-store.ts), fed by the source's lifecycle       *)
(* events as the worker's consumer delivers them                           *)
(* (task-projection-composition.ts) and repaired by reconciliation.        *)
(*                                                                         *)
(* The source is external: it changes its task in versions, each with an   *)
(* event.  Nothing is assumed of the order or the number of times events   *)
(* are delivered; a delivery whose transaction is aborted changes nothing. *)
(* apply and reconcile are one transaction under the task's advisory lock, *)
(* hence one step; the read of the source that precedes a reconciliation   *)
(* is a step of its own.                                                   *)

CONSTANTS
  MaxVersion,      \* bound: versions of the task at its source
  Reconcilers      \* reconciliations that run concurrently

ASSUME TaskProjectionAssumption == MaxVersion \in Nat \ {0}

VARIABLES
  source,        \* external: version -> status, the task's history so far
  projection,    \* the row of task_projections: version and status, or none
  projectionReceipts,      \* projection_events: the event ids with a receipt
  snapshot       \* reconciliation -> what it read at the source and carries

projectionVars == <<source, projection, projectionReceipts, snapshot>>

TaskStatuses == {"open", "completed", "cancelled"}
NoRow == [version |-> 0, status |-> "none"]
NoSnapshot == [id |-> <<"none", 0>>, version |-> 0, status |-> "none"]

ProjectionInit ==
  /\ source = [v \in {1} |-> "open"]
  /\ projection = NoRow
  /\ projectionReceipts = {}
  /\ snapshot = [r \in Reconcilers |-> NoSnapshot]

Newest == CHOOSE v \in DOMAIN source : \A u \in DOMAIN source : u <= v

\* External: the source changes the task and announces it.
SourceChanges(s) ==
  /\ Newest < MaxVersion
  /\ source' = [v \in 1 .. Newest + 1 |-> IF v = Newest + 1 THEN s ELSE source[v]]
  /\ UNCHANGED <<projection, projectionReceipts, snapshot>>

EventOf(v) == [id |-> <<"event", v>>, version |-> v, status |-> source[v]]

Supersedes(e) == e.version > projection.version
Row(e) == [version |-> e.version, status |-> e.status]

\* apply: the receipt and the newer projection are written together; an event
\* that has its receipt, or is older, changes no projection.
Apply(v) ==
  /\ LET e == EventOf(v) IN
       /\ e.id \notin projectionReceipts
       /\ projection' = IF Supersedes(e) THEN Row(e) ELSE projection
       /\ projectionReceipts' = projectionReceipts \cup {e.id}
  /\ UNCHANGED <<source, snapshot>>

\* reconcile, first half: the authoritative snapshot, under the identity of
\* the event that announced it or under one of its own.
ReadSource(r, kind) ==
  /\ snapshot[r] = NoSnapshot
  /\ snapshot' = [snapshot EXCEPT ![r] =
                    [EventOf(Newest) EXCEPT !.id = <<kind, Newest>>]]
  /\ UNCHANGED <<source, projection, projectionReceipts>>

\* A defect: a stale snapshot leaves no receipt, but is written all the same.
ReconcileBlindly(r) ==
  /\ snapshot[r] # NoSnapshot
  /\ projection' = Row(snapshot[r])
  /\ projectionReceipts' = IF snapshot[r].version < projection.version THEN projectionReceipts
                           ELSE projectionReceipts \cup {snapshot[r].id}
  /\ snapshot' = [snapshot EXCEPT ![r] = NoSnapshot]
  /\ UNCHANGED source

\* reconcile, second half: an older snapshot is stale and leaves no receipt;
\* an equal or newer one is written with its receipt.
Reconcile(r) ==
  /\ snapshot[r] # NoSnapshot
  /\ IF snapshot[r].version < projection.version
     THEN UNCHANGED <<projection, projectionReceipts>>
     ELSE /\ projection' = Row(snapshot[r])
          /\ projectionReceipts' = projectionReceipts \cup {snapshot[r].id}
  /\ snapshot' = [snapshot EXCEPT ![r] = NoSnapshot]
  /\ UNCHANGED source

\* The transaction fails or is aborted, or the source reader throws.
ReconcileFails(r) ==
  /\ snapshot[r] # NoSnapshot
  /\ snapshot' = [snapshot EXCEPT ![r] = NoSnapshot]
  /\ UNCHANGED <<source, projection, projectionReceipts>>

ProjectionNext ==
  \/ \E s \in TaskStatuses : SourceChanges(s)
  \/ \E v \in DOMAIN source : Apply(v)
  \/ \E r \in Reconcilers :
       \/ \E kind \in {"event", "snapshot"} : ReadSource(r, kind)
       \/ Reconcile(r)
       \/ ReconcileFails(r)

ProjectionSpec == ProjectionInit /\ [][ProjectionNext]_projectionVars

-----------------------------------------------------------------------------
(* The completion command (service.ts, complete): calls that carry one     *)
(* idempotency key, for a task that has its projection.  A call claims the *)
(* row of the key under a lease, routes the request to the source system,  *)
(* and records the source's answer if the row is still its own.            *)
(*                                                                         *)
(* The source is external and executes a request every time it gets one:   *)
(* that adapters honour the key is a demand of the README, which what is   *)
(* checked here does not need.  The statements of the store are atomic.    *)

CONSTANTS
  TaskCallers,     \* concurrent calls of complete
  TaskActors,      \* who calls; part of the command's fingerprint
  TaskLease,       \* commandLeaseMs, in ticks
  MaxTaskTime,     \* bound: ticks
  MaxRuns          \* bound: completion requests the source receives

ASSUME TaskCommandAssumption ==
  TaskLease \in Nat \ {0} /\ MaxTaskTime \in Nat /\ MaxRuns \in Nat

VARIABLES
  command,       \* the row of task_commands for the key, or none
  completing,    \* caller -> where its call of complete is
  taskTime,      \* the clock the leases are compared with
  runs,          \* external: completion requests the source has executed
  told           \* ghost: <<actor, result>> told to callers

commandVars == <<command, completing, taskTime, runs, told>>

NoCommand == [status |-> "none"]

CommandInit ==
  /\ command = NoCommand
  /\ completing = [r \in TaskCallers |-> [at |-> "idle"]]
  /\ taskTime = 0
  /\ runs = 0
  /\ told = {}

TaskTick ==
  /\ taskTime < MaxTaskTime
  /\ taskTime' = taskTime + 1
  /\ UNCHANGED <<command, completing, runs, told>>

\* complete: the projection is found and the call authorized and audited;
\* it takes its time and a lease token.
CallComplete(r, a) ==
  /\ completing[r].at = "idle"
  /\ completing' = [completing EXCEPT ![r] =
                      [at |-> "claiming", actor |-> a, since |-> taskTime]]
  /\ UNCHANGED <<command, taskTime, runs, told>>

\* The conditional upsert: the key is new, or it is the same command's and
\* its lease is over at the caller's own time.
Claimable(r) ==
  \/ command.status = "none"
  \/ /\ command.status = "running"
     /\ command.actor = completing[r].actor
     /\ command.expires <= completing[r].since

Claim(r) ==
  /\ completing[r].at = "claiming"
  /\ Claimable(r)
  /\ command' = [status |-> "running", actor |-> completing[r].actor, token |-> r,
                 expires |-> completing[r].since + TaskLease]
  /\ completing' = [completing EXCEPT ![r].at = "routing"]
  /\ UNCHANGED <<taskTime, runs, told>>

\* A recorded result is told again; a running or a conflicting row is refused.
ClaimAnswered(r) ==
  /\ completing[r].at = "claiming"
  /\ ~Claimable(r)
  /\ told' = IF command.status = "accepted" /\ command.actor = completing[r].actor
             THEN told \cup {<<completing[r].actor, command.result>>} ELSE told
  /\ completing' = [completing EXCEPT ![r] = [at |-> "idle"]]
  /\ UNCHANGED <<command, taskTime, runs>>

\* External: the source executes the request.  Its answer names the execution,
\* so that a source which does not honour the key is covered too.
SourceExecutes(r) ==
  /\ completing[r].at = "routing"
  /\ runs < MaxRuns
  /\ runs' = runs + 1
  /\ completing' = [completing EXCEPT ![r] = [at |-> "accepting",
                      actor |-> @.actor, since |-> @.since, result |-> runs + 1]]
  /\ UNCHANGED <<command, taskTime, told>>

\* The router fails, after the source has executed the request or before:
\* release deletes the row if it is still this call's.
HoldsCommand(r) == command.status = "running" /\ command.token = r

RouterFails(r) ==
  /\ completing[r].at \in {"routing", "accepting"}
  /\ command' = IF HoldsCommand(r) THEN NoCommand ELSE command
  /\ completing' = [completing EXCEPT ![r] = [at |-> "idle"]]
  /\ UNCHANGED <<taskTime, runs, told>>

\* A defect: the acceptance is not fenced by the lease token.
AcceptUnfenced(r) ==
  /\ completing[r].at = "accepting"
  /\ command' = [status |-> "accepted", actor |-> completing[r].actor,
                 result |-> completing[r].result]
  /\ told' = told \cup {<<completing[r].actor, completing[r].result>>}
  /\ completing' = [completing EXCEPT ![r] = [at |-> "idle"]]
  /\ UNCHANGED <<taskTime, runs>>

\* acceptCommand, fenced by the token; the loser is told to retry.  The final
\* audit may fail after the acceptance, and then the caller is told an error.
Accept(r) ==
  /\ completing[r].at = "accepting"
  /\ IF HoldsCommand(r)
     THEN /\ command' = [status |-> "accepted", actor |-> completing[r].actor,
                         result |-> completing[r].result]
          /\ \/ told' = told \cup {<<completing[r].actor, completing[r].result>>}
             \/ UNCHANGED told
     ELSE UNCHANGED <<command, told>>
  /\ completing' = [completing EXCEPT ![r] = [at |-> "idle"]]
  /\ UNCHANGED <<taskTime, runs>>

\* The process dies: the row stays running until its lease is over.
TaskCallerDies(r) ==
  /\ completing[r].at # "idle"
  /\ completing' = [completing EXCEPT ![r] = [at |-> "idle"]]
  /\ UNCHANGED <<command, taskTime, runs, told>>

CommandNext ==
  \/ TaskTick
  \/ \E r \in TaskCallers :
       \/ \E a \in TaskActors : CallComplete(r, a)
       \/ Claim(r) \/ ClaimAnswered(r) \/ SourceExecutes(r)
       \/ RouterFails(r) \/ Accept(r) \/ TaskCallerDies(r)

CommandSpec == CommandInit /\ [][CommandNext]_commandVars

-----------------------------------------------------------------------------
(* Properties.                                                             *)

\* The projection is always a version the source had, and whenever every event
\* has its receipt it is the newest one: no event is recorded as processed and
\* lost, whatever order, repetition or reconciliation it met
\* (postgres-store.ts:40-63).
ProjectionSettles ==
  /\ projection # NoRow => /\ projection.version \in DOMAIN source
                           /\ projection.status = source[projection.version]
  /\ (\A v \in DOMAIN source : EventOf(v).id \in projectionReceipts)
       => projection = Row(EventOf(Newest))

\* README: "an older source version cannot replace a newer projection".
NeverOlder == [][projection'.version >= projection.version]_projectionVars

\* Both: what the projection ends at, and that it never turns back on the way.
ProjectionIsNewest == []ProjectionSettles /\ NeverOlder

\* One idempotency key has one answer: all that are ever told a result are
\* told the same one, the one that is recorded, and by the same actor's
\* command, whatever leases ran out meanwhile (service.ts:20).
OneAnswer ==
  \A t \in told : /\ command.status = "accepted"
                  /\ command.actor = t[1] /\ command.result = t[2]

\* The task center: what it shows of the tasks, and what it answers of their completion
\* (task-center/src/postgres-store.ts:40-68).
TaskCenterIsSound == ProjectionIsNewest /\ []OneAnswer

=============================================================================
