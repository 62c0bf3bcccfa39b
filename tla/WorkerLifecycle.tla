--------------------------- MODULE WorkerLifecycle ---------------------------
(***************************************************************************)
(* The life of a worker process: bootstrap.ts creates the resources and    *)
(* calls start() of apps/worker/src/index.ts once; handlers run until a    *)
(* signal or the first failure stops them; the process returns 0 or 1.     *)
(* The composition closes the resources of WorkerResources as onStop and   *)
(* asks them for readiness; closed resources never become ready again, so  *)
(* one start is all the process makes.                                     *)
(*                                                                         *)
(* What the event loop runs without a pause is one step.  Handlers may     *)
(* end, fail or hang at any point; a deadline may pass while what it bounds *)
(* is not finished.                                                        *)
(***************************************************************************)
EXTENDS WorkerResources

CONSTANTS
  Handlers,       \* the handlers of the composition
  MaxSignals      \* bound: signals; each of SIGTERM and SIGINT is taken once

ASSUME SignalsAssumption == MaxSignals \in Nat

VARIABLES
  boot,           \* control point of bootstrapWorker
  startup,        \* startPromise: none, initialising, in its clean-up
  init,           \* control point of initialize(), which may outlive it
  active,         \* startId = activeStart
  aborted,        \* the controller of the attempt
  running, draining, terminal,
  application,    \* the Nest context as the application variable knows it
  context,        \* the Nest context itself
  exec,           \* executions of the handlers
  hook,           \* stop hooks of the handlers
  stopping,       \* stopPromise: none, waiting for the start, workload, lifecycle
  first,          \* who called stop() first
  late,           \* the workload did not end in its budget
  listening,      \* signal listeners are registered
  error,          \* why the start failed
  marker,         \* the readiness file
  exit, returned, \* the exit promise; what bootstrap returns
  signals, stops  \* observation: signals taken, rounds of stop hooks

flags == <<active, aborted, running, draining, terminal>>
handlerVars == <<exec, hook, stops>>
startVars == <<startup, init, application, context, listening, error>>
stopVars == <<stopping, first, late>>
ends == <<exit, returned, signals>>
lifeVars == <<boot, startVars, flags, handlerVars, stopVars, marker, ends>>
vars == <<resourceVars, lifeVars>>

LifeTypes ==
  /\ boot \in {"creating", "starting", "waiting", "failing", "closing", "returned"}
  /\ startup \in {"none", "init", "cleanup"}
  /\ init \in {"none", "creating", "late", "readying", "racing", "over"}
  /\ {active, aborted, running, draining, terminal, application, late, listening, marker}
       \subseteq BOOLEAN
  /\ context \in {"none", "open", "closing", "closed"}
  /\ exec \in [Handlers -> {"none", "running", "over"}]
  /\ hook \in [Handlers -> {"none", "stopping", "stopped", "failed"}]
  /\ stopping \in {"none", "start", "workload", "lifecycle"}
  /\ first \in {"none", "signal", "fatal"} /\ error \in {"none", "cancelled", "other"}
  /\ {exit, returned} \subseteq {0, 1, 2} /\ signals \in 0..MaxSignals /\ stops \in Nat

Pending == 2            \* exit or returned is not settled

TypeOK == ResourceTypes /\ LifeTypes

Init ==
  /\ ResourceInit
  /\ boot = "creating" /\ startup = "none" /\ init = "none"
  /\ active = FALSE /\ aborted = FALSE /\ running = FALSE /\ draining = FALSE
  /\ terminal = FALSE /\ application = FALSE /\ context = "none"
  /\ exec = [h \in Handlers |-> "none"] /\ hook = [h \in Handlers |-> "none"]
  /\ stopping = "none" /\ first = "none" /\ late = FALSE /\ listening = FALSE
  /\ error = "none" /\ marker = FALSE /\ exit = Pending /\ returned = Pending
  /\ signals = 0 /\ stops = 0

\* What the stop of handlers, of the context and of the resources leaves alone.
otherResources == <<cancelled, creation, check, broker, faults>>
closing == <<resource, state, probe, closeVars, closings>>

-----------------------------------------------------------------------------
(* Parts of the handlers *)

\* stop() of every handler is called; one without a hook is stopped at once.
CallHooks == hook' = [h \in Handlers |-> "stopping"] /\ stops' = stops + 1

\* Mutant: the marker is left to the health timer.
StopWorkQuietly ==
  /\ draining' = TRUE /\ running' = FALSE /\ aborted' = TRUE /\ active' = FALSE
  /\ UNCHANGED marker

\* The process stops taking work: flags, abort, timer and marker in one step.
StopWork ==
  /\ draining' = TRUE /\ running' = FALSE /\ aborted' = TRUE /\ marker' = FALSE
  /\ active' = FALSE

\* The application is taken and its close called, or there was none.
CloseContext ==
  /\ application' = FALSE
  /\ context' = IF application THEN "closing" ELSE context

Executing == \E h \in Handlers : exec[h] = "running"
HooksDone == \A h \in Handlers : hook[h] \in {"stopped", "failed"}
HookFailed == \E h \in Handlers : hook[h] = "failed"

\* cleanupFailedStart up to its wait.
BeginCleanup(e) ==
  /\ startup' = "cleanup" /\ error' = e
  /\ StopWork /\ CallHooks /\ CloseContext /\ CallClose("lifecycle")

\* stop() of a worker that runs, up to its first wait.
BeginDrain == stopping' = "workload" /\ StopWork /\ CallHooks

\* Mutant: the last caller settles the exit.
StopEndsForSignal(ok) ==
  /\ stopping' = "none" /\ first' = "none"
  /\ exit' = IF exit # Pending THEN exit ELSE IF ok /\ signals > 0 THEN 0 ELSE 1

\* Every caller shares one stop; the first of them settles the exit.
StopEnds(ok) ==
  /\ stopping' = "none" /\ first' = "none"
  /\ exit' = IF exit # Pending THEN exit ELSE IF ok /\ first = "signal" THEN 0 ELSE 1

\* triggerFatal of a worker that runs.
Fatal ==
  /\ terminal' = TRUE /\ first' = "fatal"
  /\ BeginDrain
  /\ UNCHANGED <<resourceVars, boot, startVars, late, ends>>

-----------------------------------------------------------------------------
(* start() *)

\* bootstrap.ts makes the application and starts it as soon as the resources
\* are checked; without readiness start() refuses before it does anything.
Start ==
  /\ boot = "creating" /\ check = "passed"
  /\ \/ /\ DependenciesReady
        /\ boot' = "starting" /\ startup' = "init" /\ init' = "creating"
        /\ active' = TRUE /\ listening' = TRUE
     \/ ~DependenciesReady /\ boot' = "failing" /\ UNCHANGED <<startup, init, active, listening>>
  /\ UNCHANGED <<resourceVars, aborted, running, draining, terminal, handlerVars, application,
                 context, error, stopVars, marker, ends>>

Cancelled == aborted \/ ~active

\* initialize() throws: the start cleans up, unless its deadline did already.
InitThrows(e) ==
  /\ init' = "over"
  /\ IF startup = "init" THEN BeginCleanup(e) /\ UNCHANGED <<terminal, exec>>
     ELSE UNCHANGED <<closing, flags, handlerVars, startup, application, context, error, marker>>
  /\ UNCHANGED <<boot, listening, stopVars, ends, cancelled, creation, check, broker>>

\* The Nest context is made; one that comes too late is closed at once.
ContextMade ==
  /\ init = "creating"
  /\ \/ /\ ~Cancelled /\ init' = "readying" /\ application' = TRUE /\ context' = "open"
     \/ /\ Cancelled /\ init' = "late" /\ context' = "closing" /\ UNCHANGED application
  /\ UNCHANGED <<resourceVars, boot, startup, flags, handlerVars, listening, error, stopVars,
                 marker, ends>>

ContextFails == init = "creating" /\ Fails /\ InitThrows("other")

LateContextClosed ==
  init = "late" /\ context = "closed" /\ InitThrows("cancelled") /\ UNCHANGED faults

\* The handlers are ready, the dependencies still are, and every run() begins.
RunHandlers ==
  /\ init = "readying"
  /\ \/ /\ ~Cancelled /\ DependenciesReady
        /\ init' = "racing" /\ exec' = [h \in Handlers |-> "running"]
        /\ UNCHANGED <<resourceVars, boot, startup, application, context, listening, error,
                       flags, hook, stops, stopVars, marker, ends>>
     \/ Cancelled /\ InitThrows("cancelled") /\ UNCHANGED faults
     \/ ~Cancelled /\ ~DependenciesReady /\ InitThrows("other") /\ UNCHANGED faults

\* ready() of a handler fails, of itself or because of the abort.
ReadyFails ==
  /\ init = "readying" /\ InitThrows("other")
  /\ IF aborted THEN UNCHANGED faults ELSE Fails

\* setImmediate comes before any handler ends: the worker runs and says so.
Started ==
  /\ init = "racing" /\ ~Cancelled /\ DependenciesReady
  /\ init' = "over" /\ startup' = "none" /\ boot' = "waiting"
  /\ running' = TRUE /\ marker' = TRUE
  /\ UNCHANGED <<resourceVars, active, aborted, draining, terminal, handlerVars, application,
                 context, listening, error, stopVars, ends>>

\* ... or the start was cancelled, a dependency went or the marker is not written.
StartRefused ==
  /\ init = "racing" /\ InitThrows("other")
  /\ IF Cancelled \/ ~DependenciesReady THEN UNCHANGED faults ELSE Fails

\* startupTimeoutMs passes; initialize() goes on by itself.
StartTimesOut ==
  /\ startup = "init" /\ BeginCleanup("other")
  /\ UNCHANGED <<otherResources, boot, init, terminal, exec, listening, stopVars, ends>>

\* The wait of cleanupFailedStart ends; start() rejects.
CleanupOver(bad) ==
  /\ terminal' = (terminal \/ bad) /\ draining' = FALSE /\ listening' = FALSE
  /\ startup' = "none"
  /\ boot' = IF error = "cancelled" THEN "waiting" ELSE "failing"
  /\ UNCHANGED <<resourceVars, active, aborted, running, handlerVars, init, application, context,
                 error, stopVars, marker, ends>>

Settled(k) == closer[k] \in {"done", "failed"}

CleanupEnds ==
  /\ startup = "cleanup" /\ ~Executing /\ HooksDone /\ Settled("lifecycle")
  /\ context = "closing" => init = "late"
  /\ CleanupOver(HookFailed \/ closer["lifecycle"] = "failed")

\* Mutant: the deadline bounds the executions, not the stop hooks.
CleanupWaitsForHooks == startup = "cleanup" /\ HooksDone /\ CleanupOver(TRUE)

CleanupTimesOut == startup = "cleanup" /\ CleanupOver(TRUE)

-----------------------------------------------------------------------------
(* stop() *)

\* SIGTERM or SIGINT: of the creation, or of the application once it listens.
Signal ==
  /\ signals < MaxSignals /\ signals' = signals + 1
  /\ \/ /\ boot = "creating" /\ creation # "failed" /\ check \notin {"passed", "failed"}
        /\ ~cancelled /\ cancelled' = TRUE
        /\ UNCHANGED <<creation, check, resource, state, broker, probe, closeVars, closings, faults,
                       flags, handlerVars, stopVars, marker>>
     \/ /\ listening /\ stopping # "none"
        /\ UNCHANGED <<resourceVars, flags, handlerVars, stopVars, marker>>
     \/ /\ listening /\ stopping = "none" /\ first' = "signal" /\ UNCHANGED <<resourceVars, late>>
        /\ \/ /\ startup # "none" /\ stopping' = "start"
              /\ active' = FALSE /\ aborted' = TRUE
              /\ UNCHANGED <<running, draining, terminal, handlerVars, marker>>
           \/ startup = "none" /\ BeginDrain /\ UNCHANGED <<terminal, exec>>
  /\ UNCHANGED <<boot, startVars, exit, returned>>

\* Mutant: what the failed start has cleaned up is not looked at.
StopAgain ==
  /\ stopping = "start" /\ startup = "none" /\ BeginDrain
  /\ UNCHANGED <<resourceVars, boot, startVars, terminal, exec, first, late, ends>>

\* The start that stop() waited for has settled, or startupTimeoutMs passed.
StopAfterStart ==
  /\ stopping = "start"
  /\ \/ startup = "none" /\ StopEnds(TRUE)
     \/ startup # "none" /\ StopEnds(FALSE)
  /\ UNCHANGED <<resourceVars, boot, startVars, flags, handlerVars, late, marker, returned, signals>>

\* The hooks have answered and the executions ended, or their budget is over:
\* now the resources and the context are closed.
WorkloadOver(timeout) ==
  /\ stopping = "workload" /\ stopping' = "lifecycle" /\ late' = timeout
  /\ ~timeout => ~Executing /\ HooksDone
  /\ CallClose("lifecycle") /\ CloseContext
  /\ UNCHANGED <<otherResources, boot, startup, init, listening, error, flags, handlerVars, first,
                 marker, ends>>

LifecycleEnds(ok) ==
  /\ StopEnds(ok) /\ terminal' = (terminal \/ ~ok) /\ draining' = FALSE /\ listening' = FALSE
  /\ UNCHANGED <<resourceVars, boot, startup, init, application, context, error, active, aborted,
                 running, handlerVars, late, marker, returned, signals>>

LifecycleOver ==
  /\ stopping = "lifecycle" /\ Settled("lifecycle") /\ context # "closing"
  /\ LifecycleEnds(~late /\ ~HookFailed /\ closer["lifecycle"] = "done")

LifecycleTimesOut == stopping = "lifecycle" /\ LifecycleEnds(FALSE)

-----------------------------------------------------------------------------
(* What the worker does not decide *)

CanDie == running /\ ~draining /\ active

\* run() of a handler ends, at any time and for any reason.
HandlerEnds(h) ==
  /\ exec[h] = "running" /\ exec' = [exec EXCEPT ![h] = "over"]
  /\ \/ CanDie /\ Fatal
     \/ /\ ~CanDie /\ init = "racing" /\ startup = "init"
        /\ init' = "over" /\ BeginCleanup("other")
        /\ UNCHANGED <<otherResources, terminal, boot, listening, stopVars, ends>>
     \/ /\ ~CanDie /\ ~(init = "racing" /\ startup = "init")
        /\ init' = IF init = "racing" THEN "over" ELSE init
        /\ UNCHANGED <<resourceVars, boot, startup, application, context, listening, error, flags,
                       hook, stops, stopVars, marker, ends>>

HookAnswers(h) ==
  /\ hook[h] = "stopping"
  /\ \/ hook' = [hook EXCEPT ![h] = "stopped"] /\ UNCHANGED faults
     \/ hook' = [hook EXCEPT ![h] = "failed"] /\ Fails
  /\ UNCHANGED <<cancelled, creation, check, closing, broker, boot, startVars, flags, exec, stops,
                 stopVars, marker, ends>>

ContextCloses ==
  /\ context = "closing" /\ context' = "closed"
  /\ UNCHANGED <<resourceVars, boot, startup, init, application, listening, error, flags,
                 handlerVars, stopVars, marker, ends>>

\* The health timer finds a dependency lost or cannot write the marker.
HealthTimer == CanDie /\ ~DependenciesReady /\ Fatal /\ UNCHANGED exec

ReportFails ==
  /\ CanDie /\ DependenciesReady /\ faults < MaxFaults
  /\ terminal' = TRUE /\ first' = "fatal" /\ BeginDrain /\ faults' = faults + 1
  /\ UNCHANGED <<cancelled, creation, check, closing, broker, boot, startVars, late, ends, exec>>

-----------------------------------------------------------------------------
(* bootstrap.ts *)

\* The catch block closes the resources it has and returns 1.
BootFails ==
  /\ \/ boot = "failing"
     \/ boot = "creating" /\ check = "failed"
  /\ boot' = "closing" /\ CallClose("bootstrap")
  /\ UNCHANGED <<otherResources, startVars, flags, handlerVars, stopVars, marker, ends>>

BootReturns ==
  /\ boot' = "returned"
  /\ \/ boot = "creating" /\ creation = "failed" /\ returned' = 1
     \/ boot = "closing" /\ Settled("bootstrap") /\ returned' = 1
     \/ boot = "waiting" /\ exit # Pending /\ returned' = exit
  /\ UNCHANGED <<resourceVars, startVars, flags, handlerVars, stopVars, marker, exit, signals>>

Next ==
  \/ ResourceStep /\ UNCHANGED lifeVars
  \/ Start \/ ContextMade \/ ContextFails \/ LateContextClosed \/ RunHandlers \/ ReadyFails
  \/ Started \/ StartRefused \/ StartTimesOut \/ CleanupEnds \/ CleanupTimesOut
  \/ Signal \/ StopAfterStart \/ (\E b \in BOOLEAN : WorkloadOver(b))
  \/ LifecycleOver \/ LifecycleTimesOut
  \/ \E h \in Handlers : HandlerEnds(h) \/ HookAnswers(h)
  \/ ContextCloses \/ HealthTimer \/ ReportFails \/ BootFails \/ BootReturns

-----------------------------------------------------------------------------
(* Deadlines pass and the event loop goes on; handlers, stop hooks, contexts *)
(* and connections may hang for ever.                                        *)
Fairness ==
  /\ \A c \in Connections : WF_vars(AcquireGivesUp(c) /\ UNCHANGED lifeVars)
  /\ WF_vars((Build \/ Abandoned) /\ UNCHANGED lifeVars)
  /\ WF_vars((CheckRole \/ CheckMigrations \/ CheckHealth) /\ UNCHANGED lifeVars)
  /\ WF_vars(CloseTimesOut("bootstrap") /\ UNCHANGED lifeVars)
  /\ WF_vars(Start) /\ WF_vars(StartTimesOut) /\ WF_vars(CleanupTimesOut)
  /\ WF_vars(StopAfterStart) /\ WF_vars(WorkloadOver(TRUE)) /\ WF_vars(LifecycleTimesOut)
  /\ WF_vars(BootFails) /\ WF_vars(BootReturns)

Spec == Init /\ [][Next]_vars /\ Fairness

-----------------------------------------------------------------------------
(* Properties *)

\* The readiness file exists only while the worker takes work: it is not
\* draining, every handler of its start runs, its context and its connections
\* are open (README.md:19 of the worker, "removed before drain or after a
\* handler/dependency failure").
MarkerIsHonest ==
  marker => /\ running /\ ~draining /\ ~aborted /\ context = "open"
            /\ \A h \in Handlers : exec[h] = "running" /\ hook[h] = "none"
            /\ \A t \in Targets : resource[t] = "open"

\* Whatever comes together, a start that fails or times out, signals and
\* handlers that end: stop hooks are called in one round at most, and in one
\* if handlers ran, before bootstrapWorker returns (README.md:21, "every
\* handler is stopped once").
StoppedOnce ==
  /\ stops <= 1
  /\ returned # Pending /\ (\E h \in Handlers : exec[h] # "none") => stops = 1

\* close() is called of a target that is open or whose close explicitly failed,
\* never of one that is closing or closed, whoever calls, retries or gave up
\* waiting; and what is confirmed is closed (README.md:48).
CloseIsShared ==
  [][/\ \A t \in Targets : closings'[t] # closings[t] =>
                             resource[t] \in {"acquiring", "open", "failed"}
     /\ confirmed' => \A t \in Targets : resource'[t] = "closed"]_vars

\* bootstrapWorker does not return while a connection, the pool or the context
\* is open and nobody called its close, late ones included.
NothingLeftOpen ==
  returned # Pending => /\ \A t \in Targets : resource[t] # "open"
                        /\ context # "open"

Drained ==
  /\ ~Executing /\ ~HookFailed /\ context \in {"none", "closed"}
  /\ \A t \in Targets : resource[t] = "closed"

\* The process returns 0 only when a signal came before any handler or
\* dependency failed, and all it had is stopped and closed: the first
\* termination wins (README.md:21).  A start cancelled by the signal may have
\* ended in a clean-up that failed, which leaves the worker terminal.
ZeroIsEarned ==
  returned = 0 => /\ signals > 0
                  /\ Drained \/ terminal
                  /\ error = "cancelled" \/ ~terminal

\* README.md:17 of the worker: "A deadline breach rejects shutdown with the
\* stable worker_drain_timeout category."  A shutdown that ends well has
\* drained.  Violated: stop() does not look at the clean-up of the start it
\* cancelled.
BreachRejectsShutdown == returned = 0 => Drained

\* Once the process is told to stop, has failed or cannot start, bootstrapWorker
\* returns, whatever handlers, hooks and connections do.
Returns ==
  (signals > 0 \/ terminal \/ boot \in {"failing", "closing"}) ~> returned # Pending

\* bootstrapWorker returns with every handler stopped once and nothing open.
ReturnsClean == StoppedOnce /\ NothingLeftOpen

\* The marker while it works, what it leaves behind, and the code it exits with.
WorkerIsHonest == MarkerIsHonest /\ ReturnsClean /\ ZeroIsEarned

=============================================================================
