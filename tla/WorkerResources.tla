--------------------------- MODULE WorkerResources ---------------------------
(***************************************************************************)
(* What the worker process owns (apps/worker/src/production-composition):  *)
(* the database pool, the connection of the publisher and that of the      *)
(* consumer, from their acquisition under deadlines to the close that      *)
(* several callers share, with the readiness the life cycle asks for.      *)
(*                                                                         *)
(* bootstrap.ts creates and checks them once; a signal in that time aborts *)
(* its controller, "cancelled" here.  A deadline may pass at any time.     *)
(***************************************************************************)
EXTENDS Naturals

CONSTANT MaxFaults      \* bound: failures of the environment

ASSUME FaultsAssumption == MaxFaults \in Nat

Connections == {"publisher", "consumer"}
Targets == Connections \cup {"database"}
Closers == {"lifecycle", "bootstrap"}

VARIABLES
  cancelled,      \* the controller of the creation is aborted
  creation,       \* control point of createProductionWorkerResources
  check,          \* control point of assertDatabaseCompatible
  resource,       \* what became of each target
  closed, compatible, healthy, roleReady,   \* the state record
  broker,         \* the adapters report healthy
  probe,          \* the loop of health checks
  targets,        \* closeTargets
  operation,      \* the shared close: none, running, settled
  confirmed,      \* closeConfirmed
  closer,         \* the callers of close()
  closings,       \* observation: close calls that were made of each target
  faults

state == <<closed, compatible, healthy, roleReady>>
closeVars == <<targets, operation, confirmed, closer>>
resourceVars == <<cancelled, creation, check, resource, state, broker, probe,
                  closeVars, closings, faults>>

ResourceTypes ==
  /\ cancelled \in BOOLEAN /\ closed \in BOOLEAN /\ compatible \in BOOLEAN
  /\ healthy \in BOOLEAN /\ roleReady \in BOOLEAN /\ broker \in BOOLEAN
  /\ creation \in Connections \cup {"transport", "built", "cleaning", "failed"}
  /\ check \in {"none", "role", "migrations", "health", "passed", "failed"}
  /\ resource \in [Targets -> {"none", "acquiring", "open", "closing", "closed", "failed"}]
  /\ probe \in {"off", "waiting", "asking", "late"}
  /\ targets \in SUBSET Targets
  /\ operation \in {"none", "running", "settled"} /\ confirmed \in BOOLEAN
  /\ closer \in [Closers -> {"idle", "waiting", "done", "failed"}]
  /\ closings \in [Targets -> Nat] /\ faults \in 0..MaxFaults

ResourceInit ==
  /\ cancelled = FALSE /\ creation = "publisher" /\ check = "none"
  /\ resource = [t \in Targets |-> CASE t = "database" -> "open"
                                     [] t = "publisher" -> "acquiring"
                                     [] OTHER -> "none"]
  /\ closed = FALSE /\ compatible = FALSE /\ healthy = FALSE /\ roleReady = FALSE
  /\ broker = TRUE /\ probe = "off"
  /\ targets = Targets /\ operation = "none" /\ confirmed = FALSE
  /\ closer = [k \in Closers |-> "idle"]
  /\ closings = [t \in Targets |-> 0] /\ faults = 0

Fails == faults < MaxFaults /\ faults' = faults + 1

\* readiness(): every dependency of the process is required.
DependenciesReady == ~closed /\ compatible /\ healthy /\ roleReady /\ broker

-----------------------------------------------------------------------------
(* Closing *)

\* close() of each of them is called.
CloseAll(ts) ==
  /\ resource' = [t \in Targets |-> IF t \in ts THEN "closing" ELSE resource[t]]
  /\ closings' = [t \in Targets |-> IF t \in ts THEN closings[t] + 1 ELSE closings[t]]

\* The state record of closed resources; the probes are obsolete.
MarkClosed ==
  /\ closed' = TRUE /\ compatible' = FALSE /\ healthy' = FALSE /\ roleReady' = FALSE
  /\ probe' = "off"

\* The result of the operation: those that failed are left to be closed.
Failed == {t \in targets : resource[t] = "failed"}
Told(ks) ==
  /\ targets' = Failed /\ confirmed' = (Failed = {}) /\ operation' = "none"
  /\ closer' = [k \in Closers |-> IF k \notin ks THEN closer[k]
                                  ELSE IF Failed = {} THEN "done" ELSE "failed"]

Waits(k) == closer' = [closer EXCEPT ![k] = "waiting"]

\* close(): nothing after a confirmed one, else the operation under way is
\* joined.  One that settled while nobody waited any more is told first.
CallClose(k) ==
  \/ /\ confirmed /\ closer' = [closer EXCEPT ![k] = "done"]
     /\ UNCHANGED <<state, probe, targets, operation, confirmed, resource, closings>>
  \/ /\ ~confirmed /\ MarkClosed
     /\ \/ /\ operation = "none" /\ operation' = "running"
           /\ CloseAll(targets) /\ Waits(k) /\ UNCHANGED <<targets, confirmed>>
        \/ /\ operation = "running" /\ Waits(k)
           /\ UNCHANGED <<targets, operation, confirmed, resource, closings>>
        \/ operation = "settled" /\ Told({k}) /\ UNCHANGED <<resource, closings>>

\* A target answers its close.
TargetCloses(t) ==
  /\ resource[t] = "closing"
  /\ \/ resource' = [resource EXCEPT ![t] = "closed"] /\ UNCHANGED faults
     \/ resource' = [resource EXCEPT ![t] = "failed"] /\ Fails
  /\ UNCHANGED <<cancelled, creation, check, state, broker, probe, closeVars, closings>>

\* Mutant: a failure is told, but what is left to be closed is not narrowed.
SettlesWithAll ==
  /\ operation = "running" /\ \A t \in targets : resource[t] # "closing"
  /\ operation' = "none" /\ confirmed' = (Failed = {}) /\ UNCHANGED targets
  /\ closer' = [k \in Closers |-> IF closer[k] # "waiting" THEN closer[k]
                                  ELSE IF Failed = {} THEN "done" ELSE "failed"]
  /\ UNCHANGED <<cancelled, creation, check, resource, state, broker, probe, closings, faults>>

\* All answers are in and the callers still waiting learn the result.
CloseSettles ==
  /\ operation = "running" /\ \A t \in targets : resource[t] # "closing"
  /\ LET waiting == {k \in Closers : closer[k] = "waiting"}
     IN IF waiting # {} THEN Told(waiting)
        ELSE operation' = "settled" /\ UNCHANGED <<targets, confirmed, closer>>
  /\ UNCHANGED <<cancelled, creation, check, resource, state, broker, probe, closings, faults>>

\* A caller waits for cleanupTimeoutMs and aborts the closes that go on.
CloseTimesOut(k) ==
  /\ closer[k] = "waiting" /\ closer' = [closer EXCEPT ![k] = "failed"]
  /\ UNCHANGED <<cancelled, creation, check, resource, state, broker, probe,
                 targets, operation, confirmed, closings, faults>>

-----------------------------------------------------------------------------
(* Creation *)

After(c) == IF c = "publisher" THEN "consumer" ELSE "transport"

\* The error path: what was acquired is closed.
Abandon(rs) ==
  /\ creation' = "cleaning"
  /\ resource' = [t \in Targets |-> IF rs[t] = "open" THEN "closing" ELSE rs[t]]
  /\ closings' = [t \in Targets |-> IF rs[t] = "open" THEN closings[t] + 1 ELSE closings[t]]

\* acquireRabbit: the connection comes in time.
Acquired(c) ==
  /\ creation = c /\ ~cancelled
  /\ creation' = After(c)
  /\ resource' = [t \in Targets |-> IF t = c THEN "open"
                                    ELSE IF t = "consumer" THEN "acquiring" ELSE resource[t]]
  /\ UNCHANGED <<cancelled, check, state, broker, probe, closeVars, closings, faults>>

\* ... the connector fails ...
AcquireFails(c) ==
  /\ creation = c /\ Fails
  /\ Abandon([resource EXCEPT ![c] = "none"])
  /\ UNCHANGED <<cancelled, check, state, broker, probe, closeVars>>

\* ... or the abort or the deadline comes first.
AcquireGivesUp(c) ==
  /\ creation = c /\ Abandon(resource)
  /\ UNCHANGED <<cancelled, check, state, broker, probe, closeVars, faults>>

\* A connection that comes after its caller gave up closes itself.
LateResource(c) ==
  /\ resource[c] = "acquiring" /\ creation # c
  /\ CloseAll({c})
  /\ UNCHANGED <<cancelled, creation, check, state, broker, probe, closeVars, faults>>

\* An abort or a failure, a deadline that passes included.
Trouble == (cancelled /\ UNCHANGED faults) \/ Fails

\* The confirm transport declares its exchange.
Build ==
  /\ creation = "transport"
  /\ \/ /\ ~cancelled /\ creation' = "built" /\ check' = "role"
        /\ UNCHANGED <<resource, closings, faults>>
     \/ Trouble /\ Abandon(resource) /\ UNCHANGED check
  /\ UNCHANGED <<cancelled, state, broker, probe, closeVars>>

\* closeBounded waits for the closes or for the deadline.
Abandoned ==
  /\ creation = "cleaning" /\ creation' = "failed"
  /\ UNCHANGED <<cancelled, check, resource, state, broker, probe, closeVars, closings, faults>>

-----------------------------------------------------------------------------
(* assertDatabaseCompatible and the probes it starts *)

Checking(from, to) == check = from /\ check' = to

\* The role of the connection and then the migrations are looked at.
CheckRole ==
  /\ \/ Checking("role", "migrations") /\ ~cancelled /\ roleReady' = TRUE /\ UNCHANGED faults
     \/ Checking("role", "failed") /\ Trouble /\ UNCHANGED roleReady
  /\ UNCHANGED <<cancelled, creation, resource, closed, compatible, healthy, broker, probe,
                 closeVars, closings>>

CheckMigrations ==
  /\ \/ Checking("migrations", "health") /\ ~cancelled /\ compatible' = TRUE /\ UNCHANGED faults
     \/ Checking("migrations", "failed") /\ Trouble /\ UNCHANGED compatible
  /\ UNCHANGED <<cancelled, creation, resource, closed, healthy, roleReady, broker, probe,
                 closeVars, closings>>

\* The first health check; the loop goes on even after a bad answer.
CheckHealth ==
  /\ \/ /\ Checking("health", "passed") /\ ~cancelled
        /\ healthy' = TRUE /\ probe' = "waiting" /\ UNCHANGED faults
     \/ /\ Checking("health", "failed") /\ ~cancelled /\ Fails
        /\ healthy' = FALSE /\ probe' \in {"waiting", "late"}
     \/ /\ Checking("health", "failed") /\ cancelled /\ UNCHANGED <<healthy, probe, faults>>
  /\ UNCHANGED <<cancelled, creation, resource, closed, compatible, roleReady, broker,
                 closeVars, closings>>

\* scheduleProbe: the timer, the answer or its deadline, and the next timer
\* only after the answer.  Closing makes the loop obsolete.
Probing ==
  /\ \/ probe = "waiting" /\ probe' = "asking" /\ UNCHANGED <<healthy, faults>>
     \/ probe = "asking" /\ probe' = "waiting" /\ healthy' = TRUE /\ UNCHANGED faults
     \/ probe = "asking" /\ probe' \in {"waiting", "late"} /\ healthy' = FALSE /\ Fails
     \/ probe = "late" /\ probe' = "waiting" /\ UNCHANGED <<healthy, faults>>
  /\ UNCHANGED <<cancelled, creation, check, resource, closed, compatible, roleReady, broker,
                 closeVars, closings>>

\* The broker blocks or closes a connection or a channel.
BrokerLost ==
  /\ creation = "built" /\ broker /\ broker' = FALSE /\ Fails
  /\ UNCHANGED <<cancelled, creation, check, resource, state, probe, closeVars, closings>>

ResourceStep ==
  \/ \E c \in Connections : Acquired(c) \/ AcquireFails(c) \/ AcquireGivesUp(c) \/ LateResource(c)
  \/ Build \/ Abandoned \/ CheckRole \/ CheckMigrations \/ CheckHealth \/ Probing \/ BrokerLost
  \/ \E t \in Targets : TargetCloses(t)
  \/ CloseSettles \/ \E k \in Closers : CloseTimesOut(k)

=============================================================================
