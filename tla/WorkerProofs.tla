----------------------------- MODULE WorkerProofs -----------------------------
(***************************************************************************)
(* Proofs about the worker (WorkerLifecycle, WorkerResources), for every   *)
(* set of handlers and every number of faults: whatever it meets, its exit *)
(* code and its readiness are honest, and whoever closes its resources     *)
(* shares one close of each.  The invariant is in two parts: of the        *)
(* resources, and of the life that starts and stops what uses them.        *)
(***************************************************************************)
EXTENDS WorkerLifecycle, TLAPS

-----------------------------------------------------------------------------
(* The invariant.                                                          *)

\* Resources that are still being created, or whose creation failed: nobody has
\* called close(), and what a failed creation acquired is being closed.
CreationIsOpen ==
  /\ creation = "publisher" => resource["publisher"] = "acquiring" /\ resource["consumer"] = "none"
  /\ creation = "consumer" => resource["publisher"] = "open" /\ resource["consumer"] = "acquiring"
  /\ creation = "transport" => \A t \in Connections : resource[t] = "open"
  /\ creation \in {"publisher", "consumer", "transport"} => resource["database"] = "open"
  /\ creation \in {"cleaning", "failed"} => \A t \in Targets : resource[t] # "open"
  /\ creation = "built" => \A t \in Targets : resource[t] \notin {"none", "acquiring"}
  /\ creation # "built" => check = "none" /\ ~closed
  /\ check = "none" => creation # "built"

\* Once close() is called nothing is open; what is no longer to be closed is
\* closed, and what is has been called, has answered or waits for a retry.
CloseIsHonest ==
  /\ ~closed => /\ operation = "none" /\ ~confirmed /\ targets = Targets
                /\ creation = "built" => \A t \in Targets : resource[t] = "open"
                /\ \A k \in Closers : closer[k] = "idle"
  /\ closed => /\ \A t \in Targets \ targets : resource[t] = "closed"
               /\ \A t \in targets : resource[t] \in {"closing", "closed", "failed"}
               /\ operation = "none" => \A t \in targets : resource[t] = "failed"
               /\ operation = "settled" => \A t \in targets : resource[t] # "closing"
  /\ confirmed => operation = "none" /\ targets = {}
  /\ \A k \in Closers : closer[k] = "done" => confirmed

\* Before the application starts there is nothing to stop.
NotStarted ==
  boot = "creating" \/ init = "none" =>
    /\ startup = "none" /\ init = "none" /\ ~active /\ ~aborted /\ ~running /\ ~draining
    /\ ~terminal /\ ~application /\ context = "none" /\ ~listening /\ error = "none"
    /\ stopping = "none" /\ first = "none" /\ exit = Pending /\ stops = 0 /\ ~marker
    /\ \A h \in Handlers : exec[h] = "none" /\ hook[h] = "none"
    /\ boot # "starting" /\ boot # "waiting"

\* The boot returns once, after what it began has ended.
BootInOrder ==
  /\ boot = "creating" => returned = Pending /\ ~closed
  /\ boot = "starting" <=> startup # "none"
  /\ returned # Pending <=> boot = "returned"
  /\ boot # "creating" => check \in {"passed", "failed"} \/ (boot = "returned" /\ creation = "failed")
  /\ boot = "failing" => stops = 1 \/ init = "none"
  /\ boot = "closing" => closed /\ (stops = 1 \/ init = "none")
  /\ boot = "returned" =>
       /\ stops = 1 \/ init = "none"
       /\ closed \/ creation = "failed"
       /\ returned = 1 \/ (returned = exit /\ stops = 1 /\ error # "other")
  /\ boot = "returned" /\ stops = 1 => stopping # "workload"
  /\ boot = "waiting" => error # "other"

\* The start on its way: nothing is stopped or closed yet.
StartIsWhole ==
  startup = "init" =>
    /\ init \in {"creating", "late", "readying", "racing"}
    /\ stops = 0 /\ ~running /\ ~draining /\ ~terminal /\ ~marker /\ listening /\ error = "none"
    /\ active = (~aborted) /\ ~closed /\ stopping \in {"none", "start"}
    /\ stopping = "start" \/ exit # Pending => aborted
    /\ \A h \in Handlers : hook[h] = "none"
    /\ init # "racing" => \A h \in Handlers : exec[h] = "none"
    /\ init = "racing" => \A h \in Handlers : exec[h] = "running"
    /\ init = "late" => context \in {"closing", "closed"} /\ ~application /\ aborted
    /\ init \in {"readying", "racing"} => context = "open" /\ application

\* The context belongs to what still has to use or to close it.
ContextIsOwned ==
  /\ init = "creating" => context = "none" /\ ~application
  /\ init = "creating" /\ startup = "none" => stops = 1
  /\ init = "late" => context \in {"closing", "closed"} /\ ~application
  /\ application <=> context = "open"
  /\ application => running \/ startup = "init" \/ stopping = "workload"
  /\ init \notin {"none", "over"} => startup = "init" \/ error = "other"
  /\ \A h \in Handlers : exec[h] # "none" => init \in {"racing", "over"}

\* The worker at work: its start is over and nothing has stopped it.
WorkIsWhole ==
  running =>
    /\ boot = "waiting" /\ init = "over" /\ stops = 0 /\ active /\ ~aborted /\ ~draining /\ ~terminal
    /\ listening /\ stopping = "none" /\ error = "none" /\ exit = Pending /\ context = "open"
    /\ ~closed
    /\ \A h \in Handlers : exec[h] = "running" /\ hook[h] = "none"

\* What one round of stop hooks has stopped never starts again.
StopIsFinal ==
  /\ marker => running
  /\ stops \in {0, 1}
  /\ init # "none" /\ startup # "init" /\ ~running => stops = 1
  /\ stops = 1 =>
       /\ init # "none" /\ startup # "init" /\ ~running /\ ~active /\ aborted
       /\ \A h \in Handlers : hook[h] # "none"
       /\ stopping = "workload" => ~closed /\ context = "open"
       /\ stopping # "workload" => closed /\ context # "open"
       /\ stopping = "start" => startup = "cleanup" \/ ~listening
       /\ stopping \in {"workload", "lifecycle"} => boot = "waiting" /\ init = "over" /\ error = "none"
       /\ error = "none" => boot # "starting" /\ boot # "failing" /\ boot # "closing" /\ init = "over"
                            /\ stopping # "start"
       /\ startup = "cleanup" => error # "none" /\ ~terminal
       /\ startup = "none" /\ stopping \notin {"workload", "lifecycle"} => ~listening
       /\ error = "cancelled" => init = "over" /\ boot \in {"starting", "waiting", "returned"}

\* What the exit code rests on: a signal that came first, and a stop whose
\* answers are all in.
Quiet == ~Executing /\ HooksDone
StopIsEarned ==
  /\ first = "signal" => signals > 0
  /\ stopping # "none" => first # "none"
  /\ exit = 0 => signals > 0 /\ stops = 1
  /\ stops = 1 /\ error = "none" /\ stopping \in {"workload", "lifecycle"} =>
       exit = Pending /\ (terminal => first = "fatal")
  /\ stopping = "lifecycle" /\ ~late => Quiet
  /\ stops = 1 /\ error = "none" /\ exit = 0 => stopping = "none" /\ ~terminal /\ Drained /\ HooksDone
  /\ error = "cancelled" /\ startup = "none" /\ ~terminal => Drained /\ HooksDone
  /\ error = "none" /\ stops = 1 /\ exit = Pending => stopping # "none"

\* The resources, the life, and both.
ResInv == ResourceTypes /\ CreationIsOpen /\ CloseIsHonest
LifeInv ==
  /\ LifeTypes /\ NotStarted /\ BootInOrder /\ StartIsWhole
  /\ ContextIsOwned /\ WorkIsWhole /\ StopIsFinal /\ StopIsEarned
WorkInv == ResInv /\ LifeInv

-----------------------------------------------------------------------------
(* The resources.                                                          *)

\* At the start nothing was created and nobody closes.
LEMMA WorkerResourceInit == ResourceInit => ResInv
<1> SUFFICES ASSUME ResourceInit PROVE ResInv
  OBVIOUS
<1>1. ResourceTypes
  <2>1. resource \in [Targets -> {"none", "acquiring", "open", "closing", "closed", "failed"}]
    BY DEF ResourceInit, Targets, Connections
  <2>2. faults \in 0..MaxFaults
    BY FaultsAssumption DEF ResourceInit
  <2>3. closings \in [Targets -> Nat] /\ targets \in SUBSET Targets
    BY DEF ResourceInit
  <2>4. closer \in [Closers -> {"idle", "waiting", "done", "failed"}]
    BY DEF ResourceInit
  <2> QED BY <2>1, <2>2, <2>3, <2>4 DEF ResourceInit, ResourceTypes, Connections
<1>2. CreationIsOpen
  BY DEF ResourceInit, CreationIsOpen, Targets, Connections
<1>3. CloseIsHonest
  BY DEF ResourceInit, CloseIsHonest
<1> QED BY <1>1, <1>2, <1>3 DEF ResInv

\* The connections, one after the other, and what a failure leaves to clean up.
LEMMA WorkerCreationStep ==
  ASSUME ResInv, NEW c \in Connections,
         Acquired(c) \/ AcquireFails(c) \/ AcquireGivesUp(c) \/ LateResource(c) \/ Build \/
         Abandoned
  PROVE  ResInv'
<1> USE DEF ResInv
<1> USE FaultsAssumption
<1>1. CASE Acquired(c)
  <2>1. ResourceTypes'
    BY <1>1 DEF ResourceTypes, Acquired, After, state, closeVars, Connections
  <2>2. CreationIsOpen' /\ CloseIsHonest'
    BY <1>1 DEF CreationIsOpen, CloseIsHonest, ResourceTypes, Acquired, After, state,
       closeVars, Targets, Connections, Closers
  <2> QED BY <2>1, <2>2
<1>2. CASE AcquireFails(c)
  <2>1. ResourceTypes'
    BY <1>2 DEF ResourceTypes, AcquireFails, Abandon, Fails, state, closeVars
  <2>2. CreationIsOpen' /\ CloseIsHonest'
    BY <1>2 DEF CreationIsOpen, CloseIsHonest, ResourceTypes, AcquireFails, Abandon, Fails,
       state, closeVars, Targets, Connections, Closers
  <2> QED BY <2>1, <2>2
<1>3. CASE AcquireGivesUp(c)
  <2>1. ResourceTypes'
    BY <1>3 DEF ResourceTypes, AcquireGivesUp, Abandon, state, closeVars
  <2>2. CreationIsOpen' /\ CloseIsHonest'
    BY <1>3 DEF CreationIsOpen, CloseIsHonest, ResourceTypes, AcquireGivesUp, Abandon,
       state, closeVars, Targets, Connections, Closers
  <2> QED BY <2>1, <2>2
<1>4. CASE LateResource(c)
  <2>1. ResourceTypes'
    BY <1>4 DEF ResourceTypes, LateResource, CloseAll, state, closeVars
  <2>2. CreationIsOpen' /\ CloseIsHonest'
    BY <1>4 DEF CreationIsOpen, CloseIsHonest, ResourceTypes, LateResource, CloseAll,
       state, closeVars, Targets, Connections, Closers
  <2> QED BY <2>1, <2>2
<1>5. CASE Build
  <2>1. ResourceTypes'
    BY <1>5 DEF ResourceTypes, Build, Abandon, Trouble, Fails, state, closeVars
  <2>2. CreationIsOpen' /\ CloseIsHonest'
    BY <1>5 DEF CreationIsOpen, CloseIsHonest, ResourceTypes, Build, Abandon,
       state, closeVars, Targets, Connections, Closers
  <2> QED BY <2>1, <2>2
<1>6. CASE Abandoned
  BY <1>6 DEF ResourceTypes, CreationIsOpen, CloseIsHonest, Abandoned,
     state, closeVars, Targets, Connections, Closers
<1> QED BY <1>1, <1>2, <1>3, <1>4, <1>5, <1>6

\* The checks of a start, and the probes of a running worker.
LEMMA WorkerCheckStep ==
  ASSUME ResInv,
         CheckRole \/ CheckMigrations \/ CheckHealth \/ Probing \/ BrokerLost
  PROVE  ResInv'
<1>1. ResourceTypes'
  <2>1. faults' \in 0..MaxFaults
    BY FaultsAssumption DEF ResInv, ResourceTypes, CheckRole, CheckMigrations, CheckHealth,
       Probing, BrokerLost,
       Trouble, Fails
  <2>2. UNCHANGED <<cancelled, creation, resource, closed, closeVars, closings>>
    BY DEF CheckRole, CheckMigrations, CheckHealth, Probing, BrokerLost, state
  <2>3. /\ compatible' \in BOOLEAN /\ healthy' \in BOOLEAN /\ roleReady' \in BOOLEAN
        /\ broker' \in BOOLEAN
    BY DEF ResInv, ResourceTypes, CheckRole, CheckMigrations, CheckHealth, Probing, BrokerLost,
       state
  <2>4. /\ check' \in {"none", "role", "migrations", "health", "passed", "failed"}
        /\ probe' \in {"off", "waiting", "asking", "late"}
    BY DEF ResInv, ResourceTypes, CheckRole, CheckMigrations, CheckHealth, Probing, BrokerLost,
       Checking
  <2> QED BY <2>1, <2>2, <2>3, <2>4 DEF ResInv, ResourceTypes, closeVars
<1>2. CreationIsOpen'
  BY DEF ResInv, CreationIsOpen, CheckRole, CheckMigrations, CheckHealth, Probing, BrokerLost,
     Checking, state, closeVars
<1>3. CloseIsHonest'
  BY DEF ResInv, CloseIsHonest, CheckRole, CheckMigrations, CheckHealth, Probing, BrokerLost,
     Checking, state, closeVars
<1> QED BY <1>1, <1>2, <1>3 DEF ResInv

\* A target that closes, or that fails to.
LEMMA WorkerTargetStep ==
  ASSUME ResInv, NEW t \in Targets, NEW k \in Closers,
         TargetCloses(t) \/ CloseSettles \/ CloseTimesOut(k)
  PROVE  ResInv'
<1> USE DEF ResInv
<1> USE FaultsAssumption
<1>1. CASE TargetCloses(t)
  <2>1. ResourceTypes'
    BY <1>1 DEF ResourceTypes, TargetCloses, Fails, state, closeVars
  <2>2. CreationIsOpen' /\ CloseIsHonest'
    BY <1>1 DEF CreationIsOpen, CloseIsHonest, ResourceTypes, TargetCloses,
       state, closeVars, Targets, Connections, Closers
  <2> QED BY <2>1, <2>2
<1>2. CASE CloseSettles
  <2> DEFINE waiting == {j \in Closers : closer[j] = "waiting"}
  <2>0. /\ operation = "running" /\ \A s \in targets : resource[s] # "closing"
        /\ UNCHANGED <<cancelled, creation, check, resource, closed, compatible, healthy, roleReady, broker,
                       probe, closings, faults>>
        /\ Told(waiting) \/ (operation' = "settled" /\ UNCHANGED <<targets, confirmed, closer>>)
    BY <1>2 DEF CloseSettles, state
  <2> HIDE DEF waiting
  <2>1. ResourceTypes'
    <3>1. targets' \in SUBSET Targets /\ confirmed' \in BOOLEAN
      BY <2>0 DEF ResourceTypes, Told, Failed
    <3>2. closer' \in [Closers -> {"idle", "waiting", "done", "failed"}]
      BY <2>0 DEF ResourceTypes, Told
    <3>3. operation' \in {"none", "running", "settled"}
      BY <2>0 DEF Told
    <3> QED BY <2>0, <3>1, <3>2, <3>3 DEF ResourceTypes
  <2>2. CreationIsOpen'
    BY <2>0 DEF CreationIsOpen
  <2>3. CloseIsHonest'
    BY <2>0 DEF CloseIsHonest, ResourceTypes, Told, Failed
  <2> QED BY <2>1, <2>2, <2>3
<1>3. CASE CloseTimesOut(k)
  BY <1>3 DEF ResourceTypes, CreationIsOpen, CloseIsHonest, CloseTimesOut,
     state, closeVars
<1> QED BY <1>1, <1>2, <1>3

\* A call of close() joins the close that is running, or begins one.
LEMMA WorkerCallClose ==
  ASSUME ResInv, NEW k \in Closers, CallClose(k), creation = "built",
         UNCHANGED <<cancelled, creation, check, broker>>, faults' \in 0..MaxFaults
  PROVE  /\ ResInv' /\ closed'
         /\ \A t \in Targets : closings'[t] # closings[t] => resource[t] \in {"open", "failed"}
<1> USE DEF ResInv
<1>1. CASE confirmed
  <2>1. /\ closer' = [closer EXCEPT ![k] = "done"]
        /\ UNCHANGED <<state, probe, targets, operation, confirmed, resource, closings>>
    BY <1>1 DEF CallClose
  <2>2. ResourceTypes'
    BY <2>1 DEF ResourceTypes, state
  <2>3. CreationIsOpen'
    BY <2>1 DEF CreationIsOpen, state
  <2>4. CloseIsHonest' /\ closed'
    BY <1>1, <2>1 DEF CloseIsHonest, state
  <2> QED BY <2>1, <2>2, <2>3, <2>4
<1>2. CASE ~confirmed /\ operation = "none"
  <2>1. /\ MarkClosed /\ operation' = "running" /\ CloseAll(targets) /\ Waits(k)
        /\ UNCHANGED <<targets, confirmed>>
    BY <1>2 DEF CallClose
  <2>2. ResourceTypes'
    <3>1. /\ resource' \in [Targets -> {"none", "acquiring", "open", "closing", "closed", "failed"}]
          /\ closings' \in [Targets -> Nat]
      BY <2>1 DEF ResourceTypes, CloseAll
    <3>2. closer' \in [Closers -> {"idle", "waiting", "done", "failed"}]
      BY <2>1 DEF ResourceTypes, Waits
    <3> QED BY <2>1, <3>1, <3>2 DEF ResourceTypes, MarkClosed
  <2>3. CreationIsOpen'
    BY <2>1 DEF CreationIsOpen, CloseAll
  <2>4. CloseIsHonest' /\ closed'
    BY <1>2, <2>1 DEF ResourceTypes, CloseIsHonest, state, MarkClosed, CloseAll, Waits,
       Targets, Connections
  <2>5. \A t \in Targets : closings'[t] # closings[t] => resource[t] \in {"open", "failed"}
    BY <1>2, <2>1 DEF ResourceTypes, CloseIsHonest, CreationIsOpen, CloseAll
  <2> QED BY <2>2, <2>3, <2>4, <2>5
<1>3. CASE ~confirmed /\ operation = "running"
  <2>1. /\ MarkClosed /\ Waits(k) /\ UNCHANGED <<targets, operation, confirmed, resource, closings>>
    BY <1>3 DEF CallClose
  <2>2. ResourceTypes'
    BY <2>1 DEF ResourceTypes, state, MarkClosed, Waits
  <2>3. CreationIsOpen'
    BY <2>1 DEF CreationIsOpen, state, MarkClosed
  <2>4. CloseIsHonest' /\ closed'
    BY <1>3, <2>1 DEF ResourceTypes, CloseIsHonest, state, MarkClosed, Waits
  <2> QED BY <2>1, <2>2, <2>3, <2>4
<1>4. CASE ~confirmed /\ operation = "settled"
  <2>1. /\ MarkClosed /\ Told({k}) /\ UNCHANGED <<resource, closings>>
    BY <1>4 DEF CallClose
  <2>2. ResourceTypes'
    BY <2>1 DEF ResourceTypes, state, MarkClosed, Told, Failed
  <2>3. CreationIsOpen'
    BY <2>1 DEF CreationIsOpen, state, MarkClosed
  <2>4. CloseIsHonest' /\ closed'
    BY <1>4, <2>1 DEF CloseIsHonest, MarkClosed, Told, Failed
  <2> QED BY <2>1, <2>2, <2>3, <2>4
<1> QED BY <1>1, <1>2, <1>3, <1>4 DEF ResourceTypes, CallClose

\* What a step of the resources means to the life of the worker.
Keeps ==
  /\ closed' = closed
  /\ check \in {"passed", "failed"} => check' = check
  /\ creation \in {"built", "failed"} => creation' = creation
  /\ \A t \in Targets : resource[t] = "closed" => resource'[t] = "closed"

\* Nothing is closed twice, and a confirmed close is of everything.
Shared ==
  /\ \A t \in Targets : closings'[t] # closings[t] => resource[t] \in {"acquiring", "open", "failed"}
  /\ confirmed' => \A t \in Targets : resource'[t] = "closed"

\* A confirmed close has closed everything.
LEMMA WorkerConfirmed == ResInv => (confirmed => \A t \in Targets : resource[t] = "closed")
BY DEF ResInv, CloseIsHonest

\* The resources keep to their invariant, and close nothing that is in use.
LEMMA WorkerResourceStep ==
  ASSUME ResInv, ResourceStep
  PROVE  ResInv' /\ Keeps /\ Shared
<1>1. ResInv'
  BY WorkerCreationStep, WorkerCheckStep, WorkerTargetStep DEF ResourceStep, Connections,
     Closers, Targets
<1>2. confirmed' => \A t \in Targets : resource'[t] = "closed"
  BY <1>1, WorkerConfirmed DEF ResInv, CloseIsHonest
<1>3. closed' = closed
  BY DEF ResourceStep, Acquired, AcquireFails, AcquireGivesUp, LateResource, Build, Abandoned,
     CheckRole,
     CheckMigrations, CheckHealth, Probing, BrokerLost, TargetCloses, CloseSettles, CloseTimesOut,
     state
<1>4. check \in {"passed", "failed"} => check' = check
  BY DEF ResInv, CreationIsOpen, ResourceStep, Acquired, AcquireFails, AcquireGivesUp,
     LateResource, Build, Abandoned,
     CheckRole, CheckMigrations, CheckHealth, Checking, Probing, BrokerLost, TargetCloses,
     CloseSettles, CloseTimesOut
<1>5. creation \in {"built", "failed"} => creation' = creation
  BY DEF ResourceStep, Acquired, AcquireFails, AcquireGivesUp, LateResource, Build, Abandoned,
     CheckRole, Abandon,
     CheckMigrations, CheckHealth, Probing, BrokerLost, TargetCloses, CloseSettles, CloseTimesOut,
     Connections
<1>6. ASSUME NEW t \in Targets
      PROVE  /\ resource[t] = "closed" => resource'[t] = "closed"
             /\ closings'[t] # closings[t] => resource[t] \in {"acquiring", "open", "failed"}
  <2>1. CASE \E c \in Connections : Acquired(c)
    BY <2>1 DEF Acquired, ResInv, CreationIsOpen, Connections
  <2>2. CASE \E c \in Connections : AcquireFails(c)
    BY <2>2 DEF AcquireFails, Abandon, ResInv, CreationIsOpen, Connections
  <2>3. CASE \E c \in Connections : AcquireGivesUp(c)
    BY <2>3 DEF AcquireGivesUp, Abandon
  <2>4. CASE \E c \in Connections : LateResource(c)
    BY <2>4 DEF LateResource, CloseAll
  <2>5. CASE Build \/ Abandoned
    BY <2>5 DEF Build, Abandon, Abandoned
  <2>6. CASE CheckRole \/ CheckMigrations \/ CheckHealth \/ Probing \/ BrokerLost
    BY <2>6 DEF CheckRole, CheckMigrations, CheckHealth, Probing, BrokerLost
  <2>7. CASE \E s \in Targets : TargetCloses(s)
    BY <2>7 DEF TargetCloses, ResInv, ResourceTypes
  <2>8. CASE CloseSettles \/ \E k \in Closers : CloseTimesOut(k)
    BY <2>8 DEF CloseSettles, CloseTimesOut
  <2> QED BY <2>1, <2>2, <2>3, <2>4, <2>5, <2>6, <2>7, <2>8 DEF ResourceStep
<1> QED BY <1>1, <1>2, <1>3, <1>4, <1>5, <1>6 DEF Keeps, Shared

-----------------------------------------------------------------------------
(* The worker's life, action by action.                                    *)

\* The worker before its start.
LEMMA WorkerInit == Init => WorkInv
<1> SUFFICES ASSUME Init PROVE WorkInv
  OBVIOUS
<1>1. ResInv
  BY WorkerResourceInit DEF Init
<1>2. LifeTypes
  <2>1. signals \in 0..MaxSignals /\ stops \in Nat /\ {exit, returned} \subseteq {0, 1, 2}
    BY SignalsAssumption DEF Init, Pending
  <2>2. {active, aborted, running, draining, terminal, application, late, listening, marker} \subseteq BOOLEAN
    BY DEF Init
  <2>3. exec \in [Handlers -> {"none", "running", "over"}]
        /\ hook \in [Handlers -> {"none", "stopping", "stopped", "failed"}]
    BY DEF Init
  <2> QED BY <2>1, <2>2, <2>3 DEF Init, LifeTypes
<1>3. NotStarted /\ BootInOrder /\ StartIsWhole /\ ContextIsOwned /\ WorkIsWhole
  BY DEF Init, ResourceInit, NotStarted, BootInOrder, StartIsWhole, ContextIsOwned, WorkIsWhole
<1>4. StopIsFinal /\ StopIsEarned
  BY DEF Init, ResourceInit, StopIsFinal, StopIsEarned, Pending
<1> QED BY <1>1, <1>2, <1>3, <1>4 DEF WorkInv, LifeInv

\* The resources on their own change nothing of the worker's life.
LEMMA WorkerResourcesKeep ==
  ASSUME WorkInv, ResourceStep, UNCHANGED lifeVars
  PROVE  WorkInv'
<1> USE DEF WorkInv, LifeInv, lifeVars, startVars, flags, handlerVars, stopVars, ends
<1>1. ResInv' /\ Keeps
  BY WorkerResourceStep
<1>2. LifeTypes'
  BY DEF LifeTypes
<1>3. NotStarted'
  BY DEF NotStarted
<1>4. BootInOrder'
  BY <1>1 DEF BootInOrder, Keeps
<1>5. StartIsWhole' /\ WorkIsWhole'
  BY <1>1 DEF StartIsWhole, WorkIsWhole, Keeps
<1>6. ContextIsOwned'
  BY DEF ContextIsOwned
<1>7. StopIsFinal'
  BY <1>1 DEF StopIsFinal, Keeps
<1>8. StopIsEarned'
  BY <1>1 DEF StopIsEarned, Keeps, Drained, Quiet, Executing, HooksDone, HookFailed
<1> QED BY <1>1, <1>2, <1>3, <1>4, <1>5, <1>6, <1>7, <1>8

\* Resources that do not change keep to their invariant.
LEMMA WorkerSame ==
  ASSUME ResInv, UNCHANGED resourceVars
  PROVE  ResInv'
BY DEF ResInv, ResourceTypes, CreationIsOpen, CloseIsHonest, resourceVars, state, closeVars

\* The start: the signals are listened for, and the application is created.
LEMMA WorkerStart ==
  ASSUME WorkInv, Start
  PROVE  WorkInv'
<1> USE DEF WorkInv, LifeInv
<1>1. ResInv'
  BY WorkerSame DEF Start
<1>2. LifeTypes'
  BY DEF LifeTypes, Start, handlerVars, stopVars, ends
<1>3. NotStarted'
  BY DEF NotStarted, Start, handlerVars, stopVars, ends
<1>4. BootInOrder'
  BY DEF BootInOrder, Start, NotStarted, resourceVars, ends
<1>5. StartIsWhole'
  BY DEF StartIsWhole, Start, DependenciesReady, NotStarted, resourceVars, state, handlerVars,
     stopVars, ends
<1>6. ContextIsOwned'
  BY DEF ContextIsOwned, Start, NotStarted, handlerVars
<1>7. WorkIsWhole'
  BY DEF WorkIsWhole, Start
<1>8. StopIsFinal'
  BY DEF StopIsFinal, Start, NotStarted, handlerVars
<1>9. StopIsEarned'
  BY DEF StopIsEarned, Start, NotStarted, handlerVars, stopVars, ends
<1> QED BY <1>1, <1>2, <1>3, <1>4, <1>5, <1>6, <1>7, <1>8, <1>9

\* The application context is made, in time or late.
LEMMA WorkerContextMade ==
  ASSUME WorkInv, ContextMade
  PROVE  WorkInv'
<1> USE DEF WorkInv, LifeInv
<1>1. ResInv'
  BY WorkerSame DEF ContextMade
<1>2. LifeTypes'
  BY DEF LifeTypes, ContextMade, NotStarted, StartIsWhole, ContextIsOwned, StopIsFinal, flags,
     handlerVars, stopVars, ends
<1>3. NotStarted'
  BY DEF NotStarted, ContextMade
<1>4. BootInOrder'
  BY DEF BootInOrder, ContextMade, resourceVars, state, handlerVars, stopVars, ends
<1>5. StartIsWhole'
  BY DEF StartIsWhole, ContextMade, Cancelled, ContextIsOwned, resourceVars, state, flags,
     handlerVars, stopVars, ends
<1>6. ContextIsOwned'
  BY DEF ContextIsOwned, ContextMade, Cancelled, StopIsFinal, WorkIsWhole, handlerVars
<1>7. WorkIsWhole'
  BY DEF WorkIsWhole, ContextMade, flags
<1>8. StopIsFinal'
  BY DEF StopIsFinal, ContextMade, Cancelled, resourceVars, state, flags, handlerVars, stopVars
<1>9. StopIsEarned'
  BY DEF StopIsEarned, ContextMade, StartIsWhole, StopIsFinal, WorkIsWhole, handlerVars,
     stopVars, ends
<1> QED BY <1>1, <1>2, <1>3, <1>4, <1>5, <1>6, <1>7, <1>8, <1>9

\* The start is over: the worker is at work.
LEMMA WorkerStarted ==
  ASSUME WorkInv, Started
  PROVE  WorkInv'
<1> USE DEF WorkInv, LifeInv
<1>1. ResInv'
  BY WorkerSame DEF Started
<1>2. LifeTypes'
  BY DEF LifeTypes, Started, handlerVars, stopVars, ends
<1>3. NotStarted'
  BY DEF NotStarted, Started
<1>4. BootInOrder'
  BY DEF BootInOrder, Started, Cancelled, StartIsWhole, StopIsFinal, WorkIsWhole, resourceVars, ends
<1>5. StartIsWhole'
  BY DEF StartIsWhole, Started
<1>6. ContextIsOwned'
  BY DEF ContextIsOwned, Started
<1>7. WorkIsWhole'
  BY DEF WorkIsWhole, Started, Cancelled, StartIsWhole, StopIsFinal, resourceVars, state,
     handlerVars, stopVars, ends
<1>8. StopIsFinal'
  BY DEF StopIsFinal, Started, Cancelled, handlerVars
<1>9. StopIsEarned'
  BY DEF StopIsEarned, Started, StartIsWhole, StopIsFinal, WorkIsWhole, handlerVars, stopVars, ends
<1> QED BY <1>1, <1>2, <1>3, <1>4, <1>5, <1>6, <1>7, <1>8, <1>9

\* A context that nobody is to use is closed.
LEMMA WorkerContextCloses ==
  ASSUME WorkInv, ContextCloses
  PROVE  WorkInv'
<1> USE DEF WorkInv, LifeInv
<1>1. ResInv'
  BY WorkerSame DEF ContextCloses
<1>2. LifeTypes'
  BY DEF LifeTypes, ContextCloses, flags, handlerVars, stopVars, ends
<1>3. NotStarted'
  BY DEF NotStarted, ContextCloses
<1>4. BootInOrder'
  BY DEF BootInOrder, ContextCloses, resourceVars, state, handlerVars, stopVars, ends
<1>5. StartIsWhole'
  BY DEF StartIsWhole, ContextCloses, ContextIsOwned, resourceVars, state, flags, handlerVars,
     stopVars
<1>6. ContextIsOwned'
  BY DEF ContextIsOwned, ContextCloses, handlerVars
<1>7. WorkIsWhole'
  BY DEF WorkIsWhole, ContextCloses, flags
<1>8. StopIsFinal'
  BY DEF StopIsFinal, ContextCloses, resourceVars, state, flags, handlerVars, stopVars
<1>9. StopIsEarned'
  BY DEF StopIsEarned, ContextCloses, flags, handlerVars, stopVars, ends, Drained, Quiet,
     Executing, HooksDone
<1> QED BY <1>1, <1>2, <1>3, <1>4, <1>5, <1>6, <1>7, <1>8, <1>9

\* A start that was aborted stops what it had started.
LEMMA WorkerStopAfterStart ==
  ASSUME WorkInv, StopAfterStart
  PROVE  WorkInv'
<1> USE DEF WorkInv, LifeInv
<1>1. ResInv'
  BY WorkerSame DEF StopAfterStart
<1>2. LifeTypes'
  BY DEF LifeTypes, StopAfterStart, StopEnds, startVars, flags, handlerVars
<1>3. NotStarted'
  BY DEF NotStarted, StopAfterStart, startVars
<1>4. BootInOrder'
  BY DEF BootInOrder, StopAfterStart, StopEnds, resourceVars, state, startVars, handlerVars
<1>5. StartIsWhole'
  BY DEF StartIsWhole, StopAfterStart, StopEnds, resourceVars, state, startVars, flags, handlerVars
<1>6. ContextIsOwned'
  BY DEF ContextIsOwned, StopAfterStart, WorkIsWhole, startVars, handlerVars
<1>7. WorkIsWhole'
  BY DEF WorkIsWhole, StopAfterStart, flags
<1>8. StopIsFinal'
  BY DEF StopIsFinal, StopAfterStart, StopEnds, resourceVars, state, startVars, flags, handlerVars
<1>9. StopIsEarned'
  BY DEF StopIsEarned, StopAfterStart, StopEnds, NotStarted, StopIsFinal, WorkIsWhole,
     resourceVars, startVars, flags, handlerVars, Drained, Executing, HooksDone, HookFailed
<1> QED BY <1>1, <1>2, <1>3, <1>4, <1>5, <1>6, <1>7, <1>8, <1>9

\* The lifecycle has ended: what is left is stopped, and the exit code told.
LEMMA WorkerLifecycleEnds ==
  ASSUME WorkInv, LifecycleOver \/ LifecycleTimesOut
  PROVE  WorkInv'
<1> USE DEF WorkInv, LifeInv
<1>1. ResInv'
  BY WorkerSame DEF LifecycleOver, LifecycleTimesOut, LifecycleEnds
<1>2. LifeTypes'
  BY DEF LifeTypes, LifecycleOver, LifecycleTimesOut, LifecycleEnds, StopEnds, handlerVars
<1>3. NotStarted'
  BY DEF NotStarted, LifecycleOver, LifecycleTimesOut, LifecycleEnds
<1>4. BootInOrder'
  BY DEF BootInOrder, LifecycleOver, LifecycleTimesOut, LifecycleEnds, NotStarted, StopIsFinal,
     resourceVars
<1>5. StartIsWhole'
  BY DEF StartIsWhole, LifecycleOver, LifecycleTimesOut, LifecycleEnds
<1>6. ContextIsOwned'
  BY DEF ContextIsOwned, LifecycleOver, LifecycleTimesOut, LifecycleEnds, StopEnds, NotStarted,
     StartIsWhole, StopIsFinal, WorkIsWhole
<1>7. WorkIsWhole'
  BY DEF WorkIsWhole, LifecycleOver, LifecycleTimesOut, LifecycleEnds
<1>8. StopIsFinal'
  BY DEF StopIsFinal, LifecycleOver, LifecycleTimesOut, LifecycleEnds, StopEnds, resourceVars,
     state, handlerVars
<1>9. StopIsEarned'
  <2>1. /\ stopping = "lifecycle" /\ stopping' = "none" /\ first' = "none"
        /\ UNCHANGED <<boot, startup, error, stops, signals, exec, hook, context, resource>>
    BY DEF LifecycleOver, LifecycleTimesOut, LifecycleEnds, StopEnds, handlerVars, resourceVars
  <2>2. stops = 1 /\ error = "none" /\ exit = Pending /\ startup = "none" /\ boot = "waiting"
    BY <2>1 DEF LifeTypes, NotStarted, StartIsWhole, WorkIsWhole, StopIsFinal, StopIsEarned
  <2>3. exit' # Pending
    BY DEF LifecycleOver, LifecycleTimesOut, LifecycleEnds, StopEnds, Pending
  <2>4. ASSUME exit' = 0 PROVE signals > 0 /\ ~terminal' /\ Drained /\ HooksDone
    <3>1. /\ LifecycleOver /\ first = "signal" /\ ~late /\ ~HookFailed /\ closer["lifecycle"] = "done"
          /\ terminal' = terminal /\ context # "closing"
      BY <2>2, <2>4 DEF LifecycleOver, LifecycleTimesOut, LifecycleEnds, StopEnds, LifeTypes
    <3>2. \A t \in Targets : resource[t] = "closed"
      BY <3>1, WorkerConfirmed DEF ResInv, CloseIsHonest, Closers
    <3>3. ~terminal /\ signals > 0 /\ Quiet
      BY <2>1, <2>2, <3>1 DEF StopIsEarned
    <3>4. context \in {"none", "closed"}
      BY <2>1, <2>2, <3>1 DEF StopIsFinal, LifeTypes
    <3> QED BY <3>1, <3>2, <3>3, <3>4 DEF Drained, Quiet
  <2>5. (Drained /\ HooksDone) => (Drained /\ HooksDone)'
    BY <2>1 DEF Drained, HooksDone, Executing, HookFailed
  <2> QED BY <2>1, <2>2, <2>3, <2>4, <2>5 DEF StopIsEarned
<1> QED BY <1>1, <1>2, <1>3, <1>4, <1>5, <1>6, <1>7, <1>8, <1>9

\* The cleanup of a failed start is over.
LEMMA WorkerCleanupOver ==
  ASSUME WorkInv, CleanupEnds \/ CleanupTimesOut
  PROVE  WorkInv'
<1> USE DEF WorkInv, LifeInv
<1>1. ResInv'
  BY WorkerSame DEF CleanupEnds, CleanupTimesOut, CleanupOver
<1>2. LifeTypes'
  BY DEF LifeTypes, CleanupEnds, CleanupTimesOut, CleanupOver, BootInOrder, handlerVars,
     stopVars, ends
<1>3. NotStarted'
  BY DEF NotStarted, CleanupEnds, CleanupTimesOut, CleanupOver
<1>4. BootInOrder'
  BY DEF BootInOrder, CleanupEnds, CleanupTimesOut, CleanupOver, StopIsFinal, WorkIsWhole,
     resourceVars, handlerVars, ends
<1>5. StartIsWhole'
  BY DEF StartIsWhole, CleanupEnds, CleanupTimesOut, CleanupOver
<1>6. ContextIsOwned'
  BY DEF ContextIsOwned, CleanupEnds, CleanupTimesOut, CleanupOver, NotStarted, StopIsFinal,
     WorkIsWhole, handlerVars
<1>7. WorkIsWhole'
  BY DEF WorkIsWhole, CleanupEnds, CleanupTimesOut, CleanupOver, BootInOrder
<1>8. StopIsFinal'
  BY DEF StopIsFinal, CleanupEnds, CleanupTimesOut, CleanupOver, resourceVars, state,
     handlerVars, stopVars
<1>9. StopIsEarned'
  <2>1. /\ startup = "cleanup" /\ startup' = "none"
        /\ UNCHANGED <<error, stops, signals, exec, hook, context, resource, stopping, first, late, exit>>
    BY DEF CleanupEnds, CleanupTimesOut, CleanupOver, stopVars, handlerVars, resourceVars, ends
  <2>2. stops = 1 /\ error # "none" /\ stopping \notin {"workload", "lifecycle"}
    BY <2>1 DEF NotStarted, WorkIsWhole, StopIsFinal, BootInOrder
  <2>3. ASSUME error = "cancelled", ~terminal' PROVE Drained /\ HooksDone
    <3>1. /\ CleanupEnds /\ ~Executing /\ HooksDone /\ ~HookFailed /\ closer["lifecycle"] = "done"
          /\ context = "closing" => init = "late"
      BY <2>3 DEF CleanupEnds, CleanupTimesOut, CleanupOver, Settled, LifeTypes
    <3>2. \A t \in Targets : resource[t] = "closed"
      BY <3>1, WorkerConfirmed DEF ResInv, CloseIsHonest, Closers
    <3>3. context \in {"none", "closed"}
      BY <2>1, <2>2, <2>3, <3>1 DEF StopIsFinal, LifeTypes
    <3> QED BY <3>1, <3>2, <3>3 DEF Drained
  <2>4. (Drained /\ HooksDone) => (Drained /\ HooksDone)'
    BY <2>1 DEF Drained, HooksDone, Executing, HookFailed
  <2>5. Quiet => Quiet'
    BY <2>1 DEF Quiet, HooksDone, Executing
  <2> QED BY <2>1, <2>2, <2>3, <2>4, <2>5 DEF StopIsEarned, LifeTypes
<1> QED BY <1>1, <1>2, <1>3, <1>4, <1>5, <1>6, <1>7, <1>8, <1>9

\* The process returns its exit code.
LEMMA WorkerBootReturns ==
  ASSUME WorkInv, BootReturns
  PROVE  WorkInv'
<1> USE DEF WorkInv, LifeInv
<1>1. ResInv'
  BY WorkerSame DEF BootReturns
<1>2. LifeTypes'
  BY DEF LifeTypes, BootReturns, startVars, flags, handlerVars, stopVars
<1>3. NotStarted'
  BY DEF NotStarted, BootReturns, startVars, flags, handlerVars, stopVars
<1>4. BootInOrder'
  BY DEF BootInOrder, BootReturns, NotStarted, StopIsFinal, StopIsEarned, WorkIsWhole, Pending,
     resourceVars, state, startVars, handlerVars, stopVars
<1>5. StartIsWhole'
  BY DEF StartIsWhole, BootReturns, BootInOrder, startVars
<1>6. ContextIsOwned'
  BY DEF ContextIsOwned, BootReturns, NotStarted, StopIsFinal, StopIsEarned, WorkIsWhole,
     startVars, handlerVars
<1>7. WorkIsWhole'
  BY DEF WorkIsWhole, BootReturns, flags
<1>8. StopIsFinal'
  BY DEF StopIsFinal, BootReturns, StopIsEarned, resourceVars, state, startVars, flags,
     handlerVars, stopVars
<1>9. StopIsEarned'
  BY DEF StopIsEarned, BootReturns, NotStarted, StartIsWhole, StopIsFinal, WorkIsWhole,
     resourceVars, startVars, flags, handlerVars, stopVars, Drained, Executing, HooksDone,
     HookFailed
<1> QED BY <1>1, <1>2, <1>3, <1>4, <1>5, <1>6, <1>7, <1>8, <1>9

\* A stop hook answers, or fails.
LEMMA WorkerHookAnswers ==
  ASSUME WorkInv, NEW h \in Handlers, HookAnswers(h)
  PROVE  WorkInv'
<1> USE DEF WorkInv, LifeInv
<1>1. ResInv'
  BY FaultsAssumption DEF HookAnswers, closing, Fails, ResInv, ResourceTypes, CreationIsOpen,
     CloseIsHonest, state, closeVars
<1>2. LifeTypes'
  BY DEF LifeTypes, HookAnswers, startVars, flags, stopVars, ends
<1>3. NotStarted'
  BY DEF NotStarted, HookAnswers, startVars
<1>4. BootInOrder'
  BY DEF BootInOrder, HookAnswers, closing, state, startVars, stopVars, ends
<1>5. StartIsWhole'
  BY DEF StartIsWhole, HookAnswers, startVars
<1>6. ContextIsOwned'
  BY DEF ContextIsOwned, HookAnswers, WorkIsWhole, startVars, stopVars
<1>7. WorkIsWhole'
  BY DEF WorkIsWhole, HookAnswers, flags
<1>8. StopIsFinal'
  BY DEF StopIsFinal, HookAnswers, closing, LifeTypes, state, startVars, flags, stopVars
<1>9. StopIsEarned'
  BY DEF StopIsEarned, HookAnswers, startVars, flags, stopVars, ends, Quiet, HooksDone
<1> QED BY <1>1, <1>2, <1>3, <1>4, <1>5, <1>6, <1>7, <1>8, <1>9

\* A start that failed stops its handlers, once.
LEMMA WorkerCleanupBegins ==
  ASSUME WorkInv, NEW e \in {"cancelled", "other"}, startup = "init", BeginCleanup(e),
         UNCHANGED <<boot, listening, stopVars, terminal, ends, cancelled, creation, check,
         broker>>,
         faults' \in 0..MaxFaults, init' \in {init, "over"}, e = "cancelled" => init' = "over",
         exec' \in [Handlers -> {"none", "running", "over"}], exec' = exec \/ init' = "over"
  PROVE  WorkInv'
<1> USE DEF WorkInv, LifeInv
<1>0. closed'
  <2>1. creation = "built"
    BY DEF BootInOrder, ResInv, CreationIsOpen
  <2> QED BY <2>1, WorkerCallClose DEF BeginCleanup, Closers
<1>1. ResInv'
  <2>1. creation = "built"
    BY DEF BootInOrder, ResInv, CreationIsOpen
  <2> QED BY <2>1, WorkerCallClose DEF BeginCleanup, Closers
<1>2. LifeTypes'
  <2>1. hook' \in [Handlers -> {"none", "stopping", "stopped", "failed"}] /\ stops' \in Nat
    BY DEF LifeTypes, BeginCleanup, CallHooks
  <2>2. /\ {active', aborted', running', draining', application', marker'} \subseteq BOOLEAN
        /\ context' \in {"none", "open", "closing", "closed"} /\ startup' = "cleanup" /\ error' = e
    BY DEF LifeTypes, BeginCleanup, StopWork, CloseContext
  <2>3. init' \in {"none", "creating", "late", "readying", "racing", "over"}
    BY DEF LifeTypes
  <2> QED BY <2>1, <2>2, <2>3 DEF LifeTypes, stopVars, ends
<1>3. NotStarted'
  BY <1>0 DEF NotStarted
<1>4. BootInOrder'
  BY <1>0 DEF BootInOrder, BeginCleanup, ends
<1>5. StartIsWhole'
  BY <1>0 DEF StartIsWhole, BeginCleanup
<1>6. ContextIsOwned'
  BY <1>0 DEF ContextIsOwned, BeginCleanup, CloseContext
<1>7. WorkIsWhole'
  BY <1>0 DEF WorkIsWhole, BeginCleanup, StopWork
<1>8. StopIsFinal'
  BY <1>0 DEF StopIsFinal, BeginCleanup, StopWork, CallHooks, CloseContext, StartIsWhole,
     ContextIsOwned, BootInOrder, stopVars
<1>9. StopIsEarned'
  BY <1>0 DEF StopIsEarned, BeginCleanup, StartIsWhole, stopVars, ends
<1> QED BY <1>1, <1>2, <1>3, <1>4, <1>5, <1>6, <1>7, <1>8, <1>9

\* A running worker drains: it is not ready, and its hooks are asked to stop.
LEMMA WorkerDrainBegins ==
  ASSUME WorkInv, running, BeginDrain, first' \in {"signal", "fatal"},
         UNCHANGED <<boot, startVars, late, exit, returned, closed, check, creation>>, ResInv',
         signals' \in 0..MaxSignals, signals' >= signals, terminal' \in BOOLEAN,
         first' = "signal" => signals' > 0 /\ terminal' = terminal,
         exec' \in [Handlers -> {"none", "running", "over"}]
  PROVE  WorkInv'
<1> USE DEF WorkInv, LifeInv
<1>1. ResInv'
  OBVIOUS
<1>2. LifeTypes'
  <2>1. hook' \in [Handlers -> {"none", "stopping", "stopped", "failed"}] /\ stops' \in Nat
    BY DEF LifeTypes, BeginDrain, CallHooks
  <2>2. {active', aborted', running', draining', marker'} \subseteq BOOLEAN /\ stopping' = "workload"
    BY DEF BeginDrain, StopWork
  <2> QED BY <2>1, <2>2 DEF LifeTypes, startVars
<1>3. NotStarted'
  BY DEF NotStarted, startVars
<1>4. BootInOrder'
  BY DEF BootInOrder, NotStarted, StopIsFinal, startVars
<1>5. StartIsWhole'
  BY DEF StartIsWhole, startVars
<1>6. ContextIsOwned'
  BY DEF ContextIsOwned, BeginDrain, WorkIsWhole, startVars
<1>7. WorkIsWhole'
  BY DEF WorkIsWhole, BeginDrain, StopWork
<1>8. StopIsFinal'
  BY DEF StopIsFinal, BeginDrain, StopWork, CallHooks, WorkIsWhole, BootInOrder, startVars
<1>9. StopIsEarned'
  BY DEF StopIsEarned, BeginDrain, WorkIsWhole, startVars
<1> QED BY <1>1, <1>2, <1>3, <1>4, <1>5, <1>6, <1>7, <1>8, <1>9

\* Its workload is over, and the context is closed.
LEMMA WorkerWorkloadOver ==
  ASSUME WorkInv, NEW b \in BOOLEAN, WorkloadOver(b)
  PROVE  WorkInv'
<1> USE DEF WorkInv, LifeInv
<1>0. ResInv' /\ closed'
  <2>1. creation = "built"
    BY DEF WorkloadOver, NotStarted, BootInOrder, ResInv, CreationIsOpen
  <2>2. CallClose("lifecycle") /\ UNCHANGED <<cancelled, creation, check, broker, faults>>
    BY DEF WorkloadOver, otherResources
  <2>3. faults' \in 0..MaxFaults
    BY <2>2 DEF ResInv, ResourceTypes
  <2> QED BY <2>1, <2>2, <2>3, WorkerCallClose DEF Closers
<1>1. ResInv'
  BY <1>0
<1>2. LifeTypes'
  BY <1>0 DEF LifeTypes, WorkloadOver, CloseContext, NotStarted, flags, handlerVars, ends
<1>3. NotStarted'
  BY <1>0 DEF NotStarted, WorkloadOver
<1>4. BootInOrder'
  BY <1>0 DEF BootInOrder, WorkloadOver, NotStarted, StopIsFinal, ends, otherResources
<1>5. StartIsWhole'
  BY <1>0 DEF StartIsWhole, WorkloadOver
<1>6. ContextIsOwned'
  BY <1>0 DEF ContextIsOwned, WorkloadOver, CloseContext, NotStarted, StartIsWhole, StopIsFinal,
     WorkIsWhole
<1>7. WorkIsWhole'
  BY <1>0 DEF WorkIsWhole, WorkloadOver, flags
<1>8. StopIsFinal'
  BY <1>0 DEF StopIsFinal, WorkloadOver, CloseContext, ContextIsOwned, flags, handlerVars
<1>9. StopIsEarned'
  BY <1>0 DEF StopIsEarned, WorkloadOver, NotStarted, StopIsFinal, WorkIsWhole, flags,
     handlerVars, ends, Quiet, Executing, HooksDone
<1> QED BY <1>1, <1>2, <1>3, <1>4, <1>5, <1>6, <1>7, <1>8, <1>9

\* The boot fails, and closes the resources.
LEMMA WorkerBootFails ==
  ASSUME WorkInv, BootFails
  PROVE  WorkInv'
<1> USE DEF WorkInv, LifeInv
<1>0. ResInv' /\ closed'
  <2>1. creation = "built"
    BY DEF BootFails, BootInOrder, ResInv, CreationIsOpen
  <2>2. CallClose("bootstrap") /\ UNCHANGED <<cancelled, creation, check, broker, faults>>
    BY DEF BootFails, otherResources
  <2>3. faults' \in 0..MaxFaults
    BY <2>2 DEF ResInv, ResourceTypes
  <2> QED BY <2>1, <2>2, <2>3, WorkerCallClose DEF Closers
<1>1. ResInv'
  BY <1>0
<1>2. LifeTypes'
  BY <1>0 DEF LifeTypes, BootFails, startVars, flags, handlerVars, stopVars, ends
<1>3. NotStarted'
  BY <1>0 DEF NotStarted, BootFails, startVars, flags, handlerVars, stopVars, ends
<1>4. BootInOrder'
  BY <1>0 DEF BootInOrder, BootFails, NotStarted, startVars, handlerVars, ends, otherResources
<1>5. StartIsWhole'
  BY <1>0 DEF StartIsWhole, BootFails, BootInOrder, startVars
<1>6. ContextIsOwned'
  BY <1>0 DEF ContextIsOwned, BootFails, NotStarted, StopIsFinal, WorkIsWhole, startVars,
     handlerVars
<1>7. WorkIsWhole'
  BY <1>0 DEF WorkIsWhole, BootFails, flags
<1>8. StopIsFinal'
  BY <1>0 DEF StopIsFinal, BootFails, NotStarted, startVars, flags, handlerVars, stopVars
<1>9. StopIsEarned'
  BY <1>0 DEF StopIsEarned, BootFails, NotStarted, StartIsWhole, StopIsFinal, WorkIsWhole,
     startVars, handlerVars, stopVars, ends
<1> QED BY <1>1, <1>2, <1>3, <1>4, <1>5, <1>6, <1>7, <1>8, <1>9

\* A fault elsewhere is none of the resources'.
LEMMA WorkerFaultsOnly ==
  ASSUME ResInv, UNCHANGED <<cancelled, creation, check, broker, closing>>, faults' \in 0..MaxFaults
  PROVE  ResInv' /\ closed' = closed
BY DEF ResInv, ResourceTypes, CreationIsOpen, CloseIsHonest, closing, state, closeVars

\* A fault counts.
LEMMA WorkerFails ==
  ASSUME ResInv, Fails \/ UNCHANGED faults
  PROVE  faults' \in 0..MaxFaults
BY FaultsAssumption DEF ResInv, ResourceTypes, Fails

\* The initialization throws, whatever it had come to.
LEMMA WorkerInitThrows ==
  ASSUME WorkInv, NEW e \in {"cancelled", "other"}, InitThrows(e), init \notin {"none", "over"},
         faults' \in 0..MaxFaults
  PROVE  WorkInv'
<1>1. CASE startup = "init"
  <2>1. /\ BeginCleanup(e) /\ init' = "over" /\ exec' = exec
        /\ UNCHANGED <<boot, listening, stopVars, terminal, ends, cancelled, creation, check, broker>>
    BY <1>1 DEF InitThrows
  <2>2. exec' \in [Handlers -> {"none", "running", "over"}]
    BY <2>1 DEF WorkInv, LifeInv, LifeTypes
  <2> QED BY <1>1, <2>1, <2>2, WorkerCleanupBegins
<1>2. CASE startup # "init"
  <2> USE DEF WorkInv, LifeInv
  <2>1. /\ init' = "over"
        /\ UNCHANGED <<closing, flags, handlerVars, startup, application, context, error, marker, boot,
                       listening, stopVars, ends, cancelled, creation, check, broker>>
    BY <1>2 DEF InitThrows
  <2>2. ResInv' /\ closed' = closed
    BY <2>1, WorkerFaultsOnly
  <2>3. LifeTypes'
    BY <2>1 DEF LifeTypes, flags, handlerVars, stopVars, ends
  <2>4. NotStarted' /\ BootInOrder'
    BY <1>2, <2>1, <2>2 DEF NotStarted, BootInOrder, handlerVars, stopVars, ends
  <2>5. StartIsWhole' /\ ContextIsOwned' /\ WorkIsWhole'
    BY <1>2, <2>1, <2>2 DEF StartIsWhole, ContextIsOwned, WorkIsWhole, flags, stopVars
  <2>6. StopIsFinal'
    BY <1>2, <2>1, <2>2 DEF StopIsFinal, flags, handlerVars, stopVars, ends
  <2>7. StopIsEarned'
    BY <1>2, <2>1, <2>2 DEF StopIsEarned, Drained, Quiet, Executing, HooksDone, HookFailed,
       closing, flags,
       handlerVars, stopVars, ends
  <2> QED BY <2>2, <2>3, <2>4, <2>5, <2>6, <2>7
<1> QED BY <1>1, <1>2

\* The failures of the initialization.
LEMMA WorkerThrowing ==
  ASSUME WorkInv, ContextFails \/ LateContextClosed \/ ReadyFails \/ StartRefused
  PROVE  WorkInv'
<1>1. faults' \in 0..MaxFaults
  BY WorkerFails DEF WorkInv, ContextFails, LateContextClosed, ReadyFails, StartRefused
<1>2. \E e \in {"cancelled", "other"} : InitThrows(e)
  BY DEF ContextFails, LateContextClosed, ReadyFails, StartRefused
<1>3. init \notin {"none", "over"}
  BY DEF ContextFails, LateContextClosed, ReadyFails, StartRefused
<1> QED BY <1>1, <1>2, <1>3, WorkerInitThrows

\* The handlers are started together.
LEMMA WorkerRunHandlers ==
  ASSUME WorkInv, RunHandlers
  PROVE  WorkInv'
<1>1. CASE \/ Cancelled /\ InitThrows("cancelled") /\ UNCHANGED faults
           \/ ~Cancelled /\ ~DependenciesReady /\ InitThrows("other") /\ UNCHANGED faults
  <2>1. faults' \in 0..MaxFaults
    BY <1>1, WorkerFails DEF WorkInv
  <2>2. init = "readying"
    BY DEF RunHandlers
  <2> QED BY <1>1, <2>1, <2>2, WorkerInitThrows
<1>2. CASE ~Cancelled /\ DependenciesReady
  <2> USE DEF WorkInv, LifeInv
  <2>1. /\ init = "readying" /\ init' = "racing" /\ exec' = [h \in Handlers |-> "running"]
        /\ UNCHANGED <<resourceVars, boot, startup, application, context, listening, error,
                       flags, hook, stops, stopVars, marker, ends>>
    BY <1>2 DEF RunHandlers
  <2>2. startup = "init"
    BY <1>2, <2>1 DEF Cancelled, StopIsFinal, WorkIsWhole
  <2>3. ResInv' /\ closed' = closed
    BY <2>1, WorkerSame DEF resourceVars, state
  <2>4. LifeTypes'
    BY <2>1 DEF LifeTypes, flags, stopVars, ends
  <2>5. NotStarted' /\ BootInOrder'
    BY <2>1, <2>2, <2>3 DEF NotStarted, BootInOrder, ends, resourceVars
  <2>6. StartIsWhole' /\ ContextIsOwned' /\ WorkIsWhole'
    BY <2>1, <2>2, <2>3 DEF StartIsWhole, ContextIsOwned, WorkIsWhole, flags, stopVars, ends
  <2>7. StopIsFinal'
    BY <2>1, <2>2, <2>3 DEF StopIsFinal, StartIsWhole, flags, stopVars, ends
  <2>8. StopIsEarned'
    BY <2>1, <2>2, <2>3 DEF StopIsEarned, StartIsWhole, stopVars, ends
  <2> QED BY <2>3, <2>4, <2>5, <2>6, <2>7, <2>8
<1> QED BY <1>1, <1>2 DEF RunHandlers

\* The start takes too long.
LEMMA WorkerStartTimesOut ==
  ASSUME WorkInv, StartTimesOut
  PROVE  WorkInv'
<1>1. /\ startup = "init" /\ BeginCleanup("other") /\ init' = init /\ exec' = exec
      /\ UNCHANGED <<boot, listening, stopVars, terminal, ends, cancelled, creation, check, broker, faults>>
  BY DEF StartTimesOut, otherResources
<1>2. exec' \in [Handlers -> {"none", "running", "over"}] /\ faults' \in 0..MaxFaults
  BY <1>1 DEF WorkInv, LifeInv, LifeTypes, ResInv, ResourceTypes
<1> QED BY <1>1, <1>2, WorkerCleanupBegins

\* A signal, before, during or after the start.
LEMMA WorkerSignal ==
  ASSUME WorkInv, Signal
  PROVE  WorkInv'
<1> USE DEF WorkInv, LifeInv
<1>0. /\ signals < MaxSignals /\ signals' = signals + 1 /\ signals' \in 0..MaxSignals
      /\ UNCHANGED <<boot, startVars, exit, returned>> /\ signals \in Nat
  BY SignalsAssumption DEF Signal, LifeTypes
<1>1. CASE /\ boot = "creating" /\ cancelled' = TRUE
           /\ UNCHANGED <<creation, check, resource, state, broker, probe, closeVars, closings, faults,
                          flags, handlerVars, stopVars, marker>>
  <2>1. ResInv' /\ closed' = closed
    BY <1>1 DEF ResInv, ResourceTypes, CreationIsOpen, CloseIsHonest, state, closeVars
  <2>2. LifeTypes'
    BY <1>0, <1>1 DEF LifeTypes, startVars, flags, handlerVars, stopVars
  <2>3. NotStarted' /\ BootInOrder' /\ StartIsWhole' /\ ContextIsOwned' /\ WorkIsWhole'
    BY <1>0, <1>1, <2>1 DEF NotStarted, BootInOrder, StartIsWhole, ContextIsOwned, WorkIsWhole,
       startVars, flags,
       handlerVars, stopVars
  <2>4. StopIsFinal' /\ StopIsEarned'
    BY <1>0, <1>1, <2>1 DEF NotStarted, StopIsFinal, StopIsEarned, startVars, handlerVars, stopVars
  <2> QED BY <2>1, <2>2, <2>3, <2>4
<1>2. CASE UNCHANGED <<resourceVars, flags, handlerVars, stopVars, marker>>
  <2>1. ResInv' /\ closed' = closed
    BY <1>2, WorkerSame DEF resourceVars, state
  <2>2. LifeTypes'
    BY <1>0, <1>2 DEF LifeTypes, startVars, flags, handlerVars, stopVars
  <2>3. NotStarted' /\ BootInOrder' /\ StartIsWhole' /\ ContextIsOwned' /\ WorkIsWhole'
    BY <1>0, <1>2, <2>1 DEF NotStarted, BootInOrder, StartIsWhole, ContextIsOwned, WorkIsWhole,
       startVars, flags,
       handlerVars, stopVars, resourceVars
  <2>4. StopIsFinal' /\ StopIsEarned'
    BY <1>0, <1>2, <2>1 DEF StopIsFinal, StopIsEarned, startVars, flags, handlerVars, stopVars,
       resourceVars,
       Drained, Quiet, Executing, HooksDone, HookFailed
  <2> QED BY <2>1, <2>2, <2>3, <2>4
<1>3. CASE /\ listening /\ stopping = "none" /\ first' = "signal" /\ UNCHANGED <<resourceVars, late>>
           /\ startup # "none" /\ stopping' = "start" /\ active' = FALSE /\ aborted' = TRUE
           /\ UNCHANGED <<running, draining, terminal, handlerVars, marker>>
  <2>1. ResInv' /\ closed' = closed
    BY <1>3, WorkerSame DEF resourceVars, state
  <2>2. LifeTypes'
    BY <1>0, <1>3 DEF LifeTypes, startVars, handlerVars
  <2>3. NotStarted' /\ BootInOrder' /\ StartIsWhole' /\ ContextIsOwned' /\ WorkIsWhole'
    BY <1>0, <1>3, <2>1 DEF LifeTypes, NotStarted, BootInOrder, StartIsWhole, ContextIsOwned,
       WorkIsWhole, startVars,
       handlerVars, resourceVars
  <2>4. StopIsFinal'
    BY <1>0, <1>3, <2>1 DEF LifeTypes, StopIsFinal, startVars, handlerVars
  <2>5. StopIsEarned'
    BY <1>0, <1>3, <2>1 DEF LifeTypes, NotStarted, StartIsWhole, WorkIsWhole, BootInOrder,
       StopIsFinal, StopIsEarned, startVars, handlerVars,
       resourceVars, Drained, Quiet, Executing, HooksDone, HookFailed
  <2> QED BY <2>1, <2>2, <2>3, <2>4, <2>5
<1>4. CASE /\ listening /\ stopping = "none" /\ first' = "signal" /\ UNCHANGED <<resourceVars, late>>
           /\ startup = "none" /\ BeginDrain /\ UNCHANGED <<terminal, exec>>
  <2>1. ResInv' /\ UNCHANGED <<closed, check, creation>>
    BY <1>4, WorkerSame DEF resourceVars, state
  <2>2. running
    BY <1>4 DEF NotStarted, StopIsFinal
  <2>3. exec' \in [Handlers -> {"none", "running", "over"}] /\ terminal' \in BOOLEAN
    BY <1>4 DEF LifeTypes
  <2>4. signals' >= signals /\ signals' > 0
    BY <1>0
  <2> QED BY <1>0, <1>4, <2>1, <2>2, <2>3, <2>4, WorkerDrainBegins
<1> QED BY <1>1, <1>2, <1>3, <1>4 DEF Signal

\* The runtime reports that it cannot go on.
LEMMA WorkerFatal ==
  ASSUME WorkInv, CanDie, terminal' = TRUE, first' = "fatal", BeginDrain,
         UNCHANGED <<cancelled, creation, check, closing, broker, boot, startVars, late, ends>>,
         faults' \in 0..MaxFaults, exec' \in [Handlers -> {"none", "running", "over"}]
  PROVE  WorkInv'
<1>1. ResInv' /\ closed' = closed
  BY WorkerFaultsOnly DEF WorkInv
<1>2. signals' \in 0..MaxSignals /\ signals' >= signals /\ running
  BY SignalsAssumption DEF WorkInv, LifeInv, LifeTypes, ends, CanDie
<1> QED BY <1>1, <1>2, WorkerDrainBegins DEF ends

\* The health reports fail, and the worker drains.
LEMMA WorkerHealth ==
  ASSUME WorkInv, HealthTimer \/ ReportFails
  PROVE  WorkInv'
<1>1. /\ CanDie /\ terminal' = TRUE /\ first' = "fatal" /\ BeginDrain /\ exec' = exec
      /\ UNCHANGED <<cancelled, creation, check, closing, broker, boot, startVars, late, ends>>
  BY DEF HealthTimer, ReportFails, Fatal, closing, resourceVars
<1>2. faults' \in 0..MaxFaults
  BY FaultsAssumption DEF HealthTimer, ReportFails, Fatal, resourceVars, WorkInv, ResInv,
     ResourceTypes
<1>3. exec' \in [Handlers -> {"none", "running", "over"}]
  BY <1>1 DEF WorkInv, LifeInv, LifeTypes
<1> QED BY <1>1, <1>2, <1>3, WorkerFatal

\* The execution of a handler ends.
LEMMA WorkerHandlerEnds ==
  ASSUME WorkInv, NEW h \in Handlers, HandlerEnds(h)
  PROVE  WorkInv'
<1> USE DEF WorkInv, LifeInv
<1>0. /\ exec[h] = "running" /\ exec' = [exec EXCEPT ![h] = "over"]
      /\ exec' \in [Handlers -> {"none", "running", "over"}] /\ faults \in 0..MaxFaults
  BY DEF HandlerEnds, LifeTypes, ResInv, ResourceTypes
<1>1. CASE CanDie /\ Fatal
  <2>1. /\ terminal' = TRUE /\ first' = "fatal" /\ BeginDrain /\ faults' = faults
        /\ UNCHANGED <<cancelled, creation, check, closing, broker, boot, startVars, late, ends>>
    BY <1>1 DEF Fatal, closing, resourceVars
  <2> QED BY <1>0, <1>1, <2>1, WorkerFatal
<1>2. CASE /\ startup = "init" /\ init' = "over" /\ BeginCleanup("other")
           /\ UNCHANGED <<otherResources, terminal, boot, listening, stopVars, ends>>
  BY <1>0, <1>2, WorkerCleanupBegins DEF otherResources
<1>3. CASE /\ ~CanDie /\ ~(init = "racing" /\ startup = "init")
           /\ init' = (IF init = "racing" THEN "over" ELSE init)
           /\ UNCHANGED <<resourceVars, boot, startup, application, context, listening, error, flags,
                          hook, stops, stopVars, marker, ends>>
  <2>1. ResInv' /\ closed' = closed
    BY <1>3, WorkerSame DEF resourceVars, state
  <2>2. startup # "init" /\ ~running /\ stops = 1
    BY <1>0, <1>3 DEF CanDie, NotStarted, StartIsWhole, WorkIsWhole, StopIsFinal
  <2>3. LifeTypes'
    BY <1>0, <1>3 DEF LifeTypes, flags, stopVars, ends
  <2>4. NotStarted' /\ BootInOrder'
    BY <1>0, <1>3, <2>1, <2>2 DEF NotStarted, BootInOrder, stopVars, ends, resourceVars
  <2>5. StartIsWhole' /\ ContextIsOwned' /\ WorkIsWhole'
    BY <1>0, <1>3, <2>1, <2>2 DEF StartIsWhole, ContextIsOwned, WorkIsWhole, flags, stopVars
  <2>6. StopIsFinal'
    BY <1>0, <1>3, <2>1, <2>2 DEF StopIsFinal, flags, stopVars, ends
  <2>7. ~Quiet /\ ~Drained
    BY <1>0 DEF Quiet, Drained, Executing
  <2>8. StopIsEarned'
    BY <1>0, <1>3, <2>1, <2>2, <2>7 DEF StopIsEarned, flags, stopVars, ends
  <2> QED BY <2>1, <2>3, <2>4, <2>5, <2>6, <2>8
<1> QED BY <1>1, <1>2, <1>3 DEF HandlerEnds

\* Nothing happens.
LEMMA WorkerStutters ==
  ASSUME WorkInv, UNCHANGED vars
  PROVE  WorkInv'
<1> USE DEF WorkInv, LifeInv, vars, lifeVars, startVars, flags, handlerVars, stopVars, ends
<1>1. ResInv'
  BY WorkerSame
<1>2. LifeTypes'
  BY DEF LifeTypes
<1>3. NotStarted' /\ BootInOrder' /\ StartIsWhole' /\ ContextIsOwned' /\ WorkIsWhole' /\ StopIsFinal'
  BY DEF NotStarted, BootInOrder, StartIsWhole, ContextIsOwned, WorkIsWhole, StopIsFinal,
     resourceVars, state
<1>4. StopIsEarned'
  BY DEF StopIsEarned, Drained, Quiet, Executing, HooksDone, HookFailed, resourceVars
<1> QED BY <1>1, <1>2, <1>3, <1>4

\* Every step keeps the invariant.
LEMMA WorkerNext == WorkInv /\ [Next]_vars => WorkInv'
<1> SUFFICES ASSUME WorkInv, [Next]_vars PROVE WorkInv'
  OBVIOUS
<1>1. CASE ResourceStep /\ UNCHANGED lifeVars
  BY <1>1, WorkerResourcesKeep
<1>2. CASE Start \/ ContextMade \/ RunHandlers \/ Started \/ StartTimesOut
  BY <1>2, WorkerStart, WorkerContextMade, WorkerRunHandlers, WorkerStarted, WorkerStartTimesOut
<1>3. CASE ContextFails \/ LateContextClosed \/ ReadyFails \/ StartRefused
  BY <1>3, WorkerThrowing
<1>4. CASE CleanupEnds \/ CleanupTimesOut \/ StopAfterStart \/ LifecycleOver \/ LifecycleTimesOut
  BY <1>4, WorkerCleanupOver, WorkerStopAfterStart, WorkerLifecycleEnds
<1>5. CASE Signal \/ \E b \in BOOLEAN : WorkloadOver(b)
  BY <1>5, WorkerSignal, WorkerWorkloadOver
<1>6. CASE \E h \in Handlers : HandlerEnds(h) \/ HookAnswers(h)
  BY <1>6, WorkerHandlerEnds, WorkerHookAnswers
<1>7. CASE ContextCloses \/ HealthTimer \/ ReportFails \/ BootFails \/ BootReturns
  BY <1>7, WorkerContextCloses, WorkerHealth, WorkerBootFails, WorkerBootReturns
<1>8. CASE UNCHANGED vars
  BY <1>8, WorkerStutters
<1> QED BY <1>1, <1>2, <1>3, <1>4, <1>5, <1>6, <1>7, <1>8 DEF Next

\* The invariant is enough.
LEMMA WorkerHonest == WorkInv => WorkerIsHonest
<1> SUFFICES ASSUME WorkInv PROVE WorkerIsHonest
  OBVIOUS
<1> USE DEF WorkInv, LifeInv
<1>1. MarkerIsHonest
  <2>1. ASSUME running PROVE \A t \in Targets : resource[t] = "open"
    <3>1. ~closed /\ creation = "built"
      BY <2>1 DEF WorkIsWhole, BootInOrder, ResInv, CreationIsOpen
    <3> QED BY <3>1 DEF ResInv, CloseIsHonest
  <2> QED BY <2>1 DEF MarkerIsHonest, WorkIsWhole, StopIsFinal
<1>2. StoppedOnce
  BY DEF StoppedOnce, StopIsFinal, BootInOrder, NotStarted, ContextIsOwned
<1>3. NothingLeftOpen
  <2> SUFFICES ASSUME returned # Pending PROVE context # "open"
  /\ \A t \in Targets : resource[t] # "open"
    BY DEF NothingLeftOpen
  <2>1. boot = "returned" /\ (closed \/ creation = "failed") /\ (stops = 1 \/ init = "none")
    BY DEF BootInOrder
  <2>2. context # "open"
    BY <2>1 DEF NotStarted, BootInOrder, StopIsFinal
  <2>3. \A t \in Targets : resource[t] # "open"
    BY <2>1 DEF ResInv, CreationIsOpen, CloseIsHonest
  <2> QED BY <2>2, <2>3
<1>4. ZeroIsEarned
  <2> SUFFICES ASSUME returned = 0
               PROVE  signals > 0 /\ (Drained \/ terminal) /\ (error = "cancelled" \/ ~terminal)
    BY DEF ZeroIsEarned
  <2>1. boot = "returned" /\ exit = 0 /\ stops = 1 /\ startup = "none" /\ error # "other"
    BY DEF BootInOrder, Pending
  <2> QED BY <2>1 DEF StopIsEarned, LifeTypes
<1> QED BY <1>1, <1>2, <1>3, <1>4 DEF WorkerIsHonest, ReturnsClean

\* A call of close() begins the close of what is open, or of what failed to close.
LEMMA WorkerCalls ==
  ASSUME WorkInv, NEW k \in Closers, CallClose(k), creation = "built"
  PROVE  \A t \in Targets : closings'[t] # closings[t] => resource[t] \in {"open", "failed"}
BY DEF WorkInv, ResInv, CloseIsHonest, CallClose, CloseAll

\* Closes are begun by the resources' own steps and by the calls of close().
LEMMA WorkerCloses ==
  ASSUME WorkInv, [Next]_vars
  PROVE  \/ ResourceStep \/ closings' = closings
         \/ creation = "built" /\ \E k \in Closers : CallClose(k)
<1> USE DEF closing, resourceVars, otherResources, Closers
<1>1. \A e : InitThrows(e) /\ init \notin {"none", "over"} =>
        closings' = closings \/ (creation = "built" /\ CallClose("lifecycle"))
  BY DEF InitThrows, BeginCleanup, WorkInv, LifeInv, ResInv, BootInOrder, CreationIsOpen
<1>2. CASE ContextFails \/ LateContextClosed \/ RunHandlers \/ ReadyFails \/ StartRefused
  BY <1>1, <1>2 DEF ContextFails, LateContextClosed, RunHandlers, ReadyFails, StartRefused
<1>3. CASE StartTimesOut \/ \E h \in Handlers : HandlerEnds(h)
  BY <1>3 DEF StartTimesOut, HandlerEnds, Fatal, BeginCleanup, WorkInv, LifeInv, ResInv,
     NotStarted, BootInOrder,
     CreationIsOpen
<1>4. CASE \E b \in BOOLEAN : WorkloadOver(b)
  BY <1>4 DEF WorkloadOver, WorkInv, LifeInv, ResInv, NotStarted, BootInOrder, StartIsWhole,
     WorkIsWhole, StopIsFinal,
     CreationIsOpen
<1>5. CASE BootFails
  BY <1>5 DEF BootFails, WorkInv, LifeInv, ResInv, BootInOrder, CreationIsOpen
<1>6. CASE \/ Start \/ ContextMade \/ Started \/ CleanupEnds \/ CleanupTimesOut \/ StopAfterStart
           \/ LifecycleOver \/ LifecycleTimesOut \/ HealthTimer \/ ContextCloses \/ BootReturns
  BY <1>6 DEF Start, ContextMade, Started, CleanupEnds, CleanupTimesOut, CleanupOver,
     StopAfterStart,
     LifecycleOver, LifecycleTimesOut, LifecycleEnds, HealthTimer, Fatal, ContextCloses, BootReturns
<1>7. CASE Signal \/ ReportFails \/ \E h \in Handlers : HookAnswers(h)
  BY <1>7 DEF Signal, ReportFails, HookAnswers
<1>8. CASE UNCHANGED vars
  BY <1>8 DEF vars
<1> QED BY <1>2, <1>3, <1>4, <1>5, <1>6, <1>7, <1>8 DEF Next

\* Every step keeps the close shared.
LEMMA WorkerShares == WorkInv /\ [Next]_vars => Shared
<1> SUFFICES ASSUME WorkInv, [Next]_vars PROVE Shared
  OBVIOUS
<1>1. confirmed' => \A t \in Targets : resource'[t] = "closed"
  BY WorkerNext, WorkerConfirmed DEF WorkInv, ResInv, CloseIsHonest
<1>2. \A t \in Targets : closings'[t] # closings[t] => resource[t] \in {"acquiring", "open", "failed"}
  BY WorkerCloses, WorkerCalls, WorkerResourceStep DEF WorkInv, Shared
<1> QED BY <1>1, <1>2 DEF Shared

\* The marker while the worker works, what it leaves behind, and the code it
\* exits with (apps/worker/src/index.ts, bootstrap.ts), for any handlers, and
\* any number of signals and failures.
THEOREM WorkerStaysHonest == Spec => []WorkerIsHonest
<1>1. Init => WorkInv
  BY WorkerInit
<1>2. WorkInv /\ [Next]_vars => WorkInv'
  BY WorkerNext
<1>3. WorkInv => WorkerIsHonest
  BY WorkerHonest
<1> HIDE DEF Init, Next, Fairness, WorkInv, WorkerIsHonest
<1> QED BY <1>1, <1>2, <1>3, PTL DEF Spec

\* Nobody closes twice what is closing or closed, and what is confirmed is
\* closed (production-composition.ts, close).
THEOREM CloseStaysShared == Spec => CloseIsShared
<1>1. Init => WorkInv
  BY WorkerInit
<1>2. WorkInv /\ [Next]_vars => WorkInv'
  BY WorkerNext
<1>3. WorkInv /\ [Next]_vars => [Shared]_vars
  BY WorkerShares
<1>4. CloseIsShared <=> [][Shared]_vars
  BY PTL DEF CloseIsShared, Shared
<1> HIDE DEF Init, Next, Fairness, WorkInv, Shared, CloseIsShared
<1> QED BY <1>1, <1>2, <1>3, <1>4, PTL DEF Spec

===============================================================================
