------------------------------ MODULE Workflow ------------------------------
(***************************************************************************)
(* The workflow facade (workflow/src/service.ts) over one process with one *)
(* human task in the BPMN engine (flowable-rest.ts), with the command      *)
(* ledger it is given: a caller's command passes authorization and the     *)
(* attempted audit fact, is run at most once under its ledger entry, and   *)
(* its lifecycle fact is published before success is told.  Callers retry. *)
(*                                                                         *)
(* The engine is external.  The ledger is the one of testing.ts, which is  *)
(* also the contract the README puts on a durable one: an entry per        *)
(* (operation, key), a running entry shared by its callers, completed and  *)
(* reconciliation_required entries kept.  An HTTP exchange with the engine *)
(* is two steps only where other callers may come between: the engine's    *)
(* answer to a read and the moment the caller acts on it.                  *)
(***************************************************************************)
EXTENDS Naturals, FiniteSets

CONSTANTS
  WorkflowCommands,   \* the (operation, idempotency key) pairs in use
  OperationOf,        \* command -> operation
  WorkflowCallers,    \* requests that run concurrently
  Principals          \* actors: part of a command's fingerprint

TaskOperations == {"task_claim", "task_complete", "task_release"}

WorkflowOperations ==
  TaskOperations \cup {"process_cancel", "process_start", "definition_deploy"}

ASSUME WorkflowAssumption ==
  OperationOf \in [WorkflowCommands -> WorkflowOperations]

VARIABLES
  engine,       \* external: the task, its process, a second process, a definition
  ledger,       \* command -> its entry
  revision,     \* the last source revision allocated in the task's scope
  calls,        \* caller -> where its request is
  facts,        \* lifecycle facts the sink has stored, by event key
  effects,      \* ghost: command -> writes of it the engine has executed
  succeeded     \* ghost: <<command, principal>> told that they succeeded

workflowVars == <<engine, ledger, revision, calls, facts, effects, succeeded>>

Idle == [at |-> "idle"]
Absent == [status |-> "absent"]

WorkflowInit ==
  /\ engine = [status |-> "active", assigned |-> FALSE,
               started |-> FALSE, deployed |-> FALSE]
  /\ ledger = [c \in WorkflowCommands |-> Absent]
  /\ revision = 0
  /\ calls = [r \in WorkflowCallers |-> Idle]
  /\ facts = {}
  /\ effects = [c \in WorkflowCommands |-> 0]
  /\ succeeded = {}

-----------------------------------------------------------------------------
(* What a command asks of the engine.  Completing the only task completes  *)
(* the process and cancelling the process cancels the task.                *)

\* The reads a command makes before it writes: active(task), the instance's
\* status, the assignee, the definition.
Admissible(op) ==
  CASE op \in {"task_claim", "task_complete", "process_cancel"} ->
         engine.status = "active"
    [] op = "task_release" -> engine.status = "active" /\ engine.assigned
    [] op = "process_start" -> engine.deployed
    [] op = "definition_deploy" -> TRUE

\* What the engine itself accepts: a task or process that is over is not found.
EngineTakes(op) ==
  op \in TaskOperations \cup {"process_cancel"} => engine.status = "active"

Executed(op) ==
  CASE op = "task_claim" -> [engine EXCEPT !.assigned = TRUE]
    [] op = "task_release" -> [engine EXCEPT !.assigned = FALSE]
    [] op = "task_complete" -> [engine EXCEPT !.status = "completed"]
    [] op = "process_cancel" -> [engine EXCEPT !.status = "cancelled"]
    [] op = "process_start" -> [engine EXCEPT !.started = TRUE]
    [] op = "definition_deploy" -> [engine EXCEPT !.deployed = TRUE]

Asks(r, place) == calls[r].at = place
Op(r) == OperationOf[calls[r].command]

\* The request ends with an error: the failed fact is audited, nothing kept.
Refused(r) == calls' = [calls EXCEPT ![r] = Idle]

\* The promise of the running entry settles: its owner and all who share it
\* go on together.
SettledFor(c, next) ==
  [r \in WorkflowCallers |->
     IF calls[r].at \in {"sharing", "checking", "writing", "confirming", "recording"}
        /\ calls[r].command = c
     THEN next[r] ELSE calls[r]]

-----------------------------------------------------------------------------
(* One request.                                                            *)

\* authorize: allowed, and the attempted fact is audited.  A denial, or a
\* failure of either port, ends the request before it has done anything.
Request(r, c, a) ==
  /\ Asks(r, "idle")
  /\ calls' = [calls EXCEPT ![r] = [at |-> "ledger", command |-> c, actor |-> a]]
  /\ UNCHANGED <<engine, ledger, revision, facts, effects, succeeded>>

LedgerConflict(r) ==
  /\ Asks(r, "ledger")
  /\ LET entry == ledger[calls[r].command] IN
       /\ entry.status # "absent"
       /\ entry.by # calls[r].actor \/ entry.status = "reconciliation_required"
  /\ Refused(r)
  /\ UNCHANGED <<engine, ledger, revision, facts, effects, succeeded>>

LedgerKnows(r) ==
  /\ Asks(r, "ledger")
  /\ LET entry == ledger[calls[r].command] IN
       /\ entry.status \in {"completed", "running"}
       /\ entry.by = calls[r].actor
       /\ calls' = [calls EXCEPT ![r].at =
                      IF entry.status = "completed" THEN "publishing" ELSE "sharing"]
  /\ UNCHANGED <<engine, ledger, revision, facts, effects, succeeded>>

LedgerRuns(r) ==
  /\ Asks(r, "ledger")
  /\ ledger[calls[r].command].status = "absent"
  /\ ledger' = [ledger EXCEPT ![calls[r].command] =
                  [status |-> "running", by |-> calls[r].actor]]
  /\ calls' = [calls EXCEPT ![r].at = "checking"]
  /\ UNCHANGED <<engine, revision, facts, effects, succeeded>>

\* The entry of an action that failed: forgotten, unless the outcome at the
\* engine is unknown.
Fails(r, status) ==
  LET c == calls[r].command IN
    /\ ledger' = [ledger EXCEPT ![c] =
                    IF status = "absent" THEN Absent ELSE [@ EXCEPT !.status = status]]
    /\ calls' = SettledFor(c, [u \in WorkflowCallers |-> Idle])
    /\ UNCHANGED <<revision, facts, succeeded>>

Check(r) ==
  /\ Asks(r, "checking")
  /\ Admissible(Op(r))
  /\ calls' = [calls EXCEPT ![r].at = "writing"]
  /\ UNCHANGED <<engine, ledger, revision, facts, effects, succeeded>>

\* A precondition does not hold, or the read of it fails.
CheckFails(r) ==
  /\ Asks(r, "checking")
  /\ Fails(r, "absent")
  /\ UNCHANGED <<engine, effects>>

EngineExecutes(r) ==
  /\ EngineTakes(Op(r))
  /\ engine' = Executed(Op(r))
  /\ effects' = [effects EXCEPT ![calls[r].command] = @ + 1]

Write(r) ==
  /\ Asks(r, "writing")
  /\ EngineExecutes(r)
  /\ calls' = [calls EXCEPT ![r].at = "confirming"]
  /\ UNCHANGED <<ledger, revision, facts, succeeded>>

\* A status the engine gives before it executes anything (4xx, 404, 409).
WriteRejected(r) ==
  /\ Asks(r, "writing")
  /\ Fails(r, "absent")
  /\ UNCHANGED <<engine, effects>>

\* A timeout, a broken connection, a 5xx or an answer that cannot be read:
\* the write was executed or not, and the caller cannot know.
Ambiguous(r) == Fails(r, "reconciliation_required")

WriteUnanswered(r) ==
  /\ Asks(r, "writing")
  /\ EngineExecutes(r) \/ UNCHANGED <<engine, effects>>
  /\ Ambiguous(r)

\* The confirming read: the engine answers with the task or process it has now.
Confirm(r) ==
  /\ Asks(r, "confirming")
  /\ calls' = [calls EXCEPT ![r] =
       [at |-> "recording", command |-> @.command, actor |-> @.actor,
        read |-> [status |-> engine.status, assigned |-> engine.assigned]]]
  /\ UNCHANGED <<engine, ledger, revision, facts, effects, succeeded>>

ConfirmFails(r) ==
  /\ Asks(r, "confirming")
  /\ Ambiguous(r)
  /\ UNCHANGED <<engine, effects>>

\* The action's promise resolves: a task command takes the next revision of
\* its scope, and the entry keeps the result.
Record(r) ==
  /\ Asks(r, "recording")
  /\ LET c == calls[r].command
         rev == IF Op(r) \in TaskOperations THEN revision + 1 ELSE 0
     IN
       /\ revision' = IF rev = 0 THEN revision ELSE rev
       /\ ledger' = [ledger EXCEPT ![c] =
            [status |-> "completed", by |-> calls[r].actor,
             revision |-> rev, value |-> calls[r].read]]
       /\ calls' = SettledFor(c, [u \in {v \in WorkflowCallers : ~Asks(v, "idle")} |->
            [at |-> "publishing", command |-> c, actor |-> calls[u].actor]])
  /\ UNCHANGED <<engine, facts, effects, succeeded>>

\* The fact of a completed entry.  Its key is a hash of operation and key.
FactOf(c) ==
  [key |-> c, revision |-> ledger[c].revision, value |-> ledger[c].value]

\* A deployment has no lifecycle event.
Publishes(c) ==
  facts' = IF OperationOf[c] = "definition_deploy" THEN facts
           ELSE facts \cup {FactOf(c)}

Publish(r) ==
  /\ Asks(r, "publishing")
  /\ Publishes(calls[r].command)
  /\ calls' = [calls EXCEPT ![r].at = "finishing"]
  /\ UNCHANGED <<engine, ledger, revision, effects, succeeded>>

\* A defect: the failed publication also drops the ledger's entry.
PublishFailsForgets(r) ==
  /\ Asks(r, "publishing")
  /\ OperationOf[calls[r].command] # "definition_deploy"
  /\ ledger' = [ledger EXCEPT ![calls[r].command] = Absent]
  /\ Refused(r)
  /\ UNCHANGED <<engine, revision, facts, effects, succeeded>>

\* WORKFLOW_EVENT_PUBLICATION_FAILED, retryable; the sink may have stored it.
PublishFails(r) ==
  /\ Asks(r, "publishing")
  /\ OperationOf[calls[r].command] # "definition_deploy"
  /\ Publishes(calls[r].command) \/ UNCHANGED facts
  /\ Refused(r)
  /\ UNCHANGED <<engine, ledger, revision, effects, succeeded>>

\* The succeeded fact is audited and the caller told; or the audit fails.
Finish(r) ==
  /\ Asks(r, "finishing")
  /\ \/ succeeded' = succeeded \cup {<<calls[r].command, calls[r].actor>>}
     \/ UNCHANGED succeeded
  /\ Refused(r)
  /\ UNCHANGED <<engine, ledger, revision, facts, effects>>

WorkflowNext ==
  \E r \in WorkflowCallers :
    \/ \E c \in WorkflowCommands, a \in Principals : Request(r, c, a)
    \/ LedgerConflict(r) \/ LedgerKnows(r) \/ LedgerRuns(r)
    \/ Check(r) \/ CheckFails(r)
    \/ Write(r) \/ WriteRejected(r) \/ WriteUnanswered(r)
    \/ Confirm(r) \/ ConfirmFails(r) \/ Record(r)
    \/ Publish(r) \/ PublishFails(r) \/ Finish(r)

WorkflowSpec == WorkflowInit /\ [][WorkflowNext]_workflowVars

-----------------------------------------------------------------------------
(* Properties.                                                             *)

\* However callers retry, share an entry, lose answers or fail to publish,
\* the engine executes a command at most once (service.ts:49; README,
\* "retries the remaining step without repeating the engine mutation").
MutatedOnce == \A c \in WorkflowCommands : effects[c] <= 1

\* A caller is told success only of its own command, after the engine executed
\* it and its fact was stored; and a fact is only of an executed command, one
\* fact per command whatever publication was retried (service.ts:49).
SuccessIsWhole ==
  /\ \A s \in succeeded :
       /\ ledger[s[1]].status = "completed" /\ ledger[s[1]].by = s[2]
       /\ effects[s[1]] = 1
       /\ OperationOf[s[1]] # "definition_deploy" => FactOf(s[1]) \in facts
  /\ \A f \in facts :
       ledger[f.key].status = "completed" /\ effects[f.key] = 1 /\ f = FactOf(f.key)

WorkflowIsExact == MutatedOnce /\ SuccessIsWhole

\* README: "Task lifecycle facts include the command Ledger's positive
\* sourceRevision so downstream projections can reject stale updates".  When
\* nothing is in flight or unknown, the fact of the newest revision is what
\* the engine has.  Fails: the confirming read of one command may be answered
\* before another command writes, and its revision taken after (service.ts:52,
\* flowable-rest.ts:179).
NewestRevisionIsNewest ==
  (/\ \A r \in WorkflowCallers : calls[r].at = "idle"
   /\ \A c \in WorkflowCommands : ledger[c].status # "reconciliation_required")
  => \A c \in WorkflowCommands :
       ledger[c].status = "completed" /\ OperationOf[c] \in TaskOperations
         /\ ledger[c].revision = revision
         /\ engine.status # "cancelled"
       => ledger[c].value = [status |-> engine.status, assigned |-> engine.assigned]

=============================================================================
