----------------------------- MODULE ApiProbes -----------------------------
(***************************************************************************)
(* The readiness state of the production API (api/composition-factory.ts): *)
(* assertCompatible at the start, the database health loop with the probes *)
(* of the dependencies it triggers, and close.                             *)
(*                                                                         *)
(* A probe is a call that cannot be cancelled behind a waiter that gives   *)
(* up at the timeout or at an abort; a dependency whose last call has not  *)
(* settled is skipped.  What the database and the dependencies answer, and *)
(* when, is free.  The configuration makes the timeout shorter than the    *)
(* interval (production-config.ts:110), so no waiter outlives the timer.   *)
(***************************************************************************)
EXTENDS Naturals, FiniteSets

CONSTANTS
  Probes,         \* names of the dependency probes
  FileProbe       \* the one whose flag an outage of the database leaves alone

ASSUME ApiProbesAssumption == FileProbe \in Probes

VARIABLES
  apiClosed,        \* state.closed
  compatible,       \* state.databaseCompatible
  healthy,          \* state.databaseHealthy
  capable,          \* probes whose flag is set
  loop,             \* where the start and then the health loop is
  probing,          \* probe -> its call: none, awaited, abandoned
  older,            \* ghost: probes whose call began before the last outage
  stale             \* ghost: probes whose flag a call of before the last outage set

probeVars == <<apiClosed, compatible, healthy, capable, loop, probing, older, stale>>

ProbeInit ==
  /\ apiClosed = FALSE
  /\ compatible = FALSE
  /\ healthy = FALSE
  /\ capable = {}
  /\ loop = "none"
  /\ probing = [d \in Probes |-> "none"]
  /\ older = {}
  /\ stale = {}

Awaited == {d \in Probes : probing[d] = "awaited"}

\* The waiters that are left give up; their calls go on.
Abandoned == [d \in Probes |-> IF probing[d] = "awaited" THEN "abandoned" ELSE probing[d]]

\* stopDatabaseProbes: the generation ends, the timer is cleared, the waiters
\* are aborted and every flag is dropped.
StopProbes ==
  /\ loop' = "stopped"
  /\ healthy' = FALSE
  /\ capable' = {}
  /\ probing' = Abandoned
  /\ UNCHANGED <<older, stale>>

-----------------------------------------------------------------------------
(* The start.                                                              *)

AssertCompatible ==
  /\ loop = "none"
  /\ ~apiClosed
  /\ compatible' = FALSE
  /\ loop' = "compatibility"
  /\ UNCHANGED <<apiClosed, healthy, capable, probing, older, stale>>

\* The check of the migrations answers: incompatible or too late, or the first
\* health check begins.
Compatibility(answer) ==
  /\ loop = "compatibility"
  /\ IF answer /\ ~apiClosed
     THEN compatible' = TRUE /\ loop' = "first"
     ELSE loop' = "stopped" /\ UNCHANGED compatible
  /\ UNCHANGED <<apiClosed, healthy, capable, probing, older, stale>>

\* The start is cancelled: what is awaited gives up and the probes stop.
CancelStart ==
  /\ loop \in {"compatibility", "first", "dependents"}
  /\ compatible' = FALSE
  /\ StopProbes
  /\ UNCHANGED apiClosed

\* The dependency probes have answered or timed out: the start has succeeded.
Started ==
  /\ loop = "dependents"
  /\ Awaited = {}
  /\ loop' = "timer"
  /\ UNCHANGED <<apiClosed, compatible, healthy, capable, probing, older, stale>>

-----------------------------------------------------------------------------
(* The health loop.                                                        *)

\* The interval is over; it is longer than any waiter waits.
TimerFires ==
  /\ loop = "timer"
  /\ Awaited = {}
  /\ loop' = "checking"
  /\ UNCHANGED <<apiClosed, compatible, healthy, capable, probing, older, stale>>

\* A defect: recovery finds the flags of before the outage.
KeptInOutage == capable

\* The flags an unhealthy answer leaves: fileCenterProviderReady is not reset.
LeftInOutage == capable \cap {FileProbe}

Outage ==
  /\ healthy' = FALSE
  /\ capable' = LeftInOutage
  /\ older' = {d \in Probes : probing[d] # "none"}
  /\ stale' = capable'

\* runDependentProbes: every probe whose last call has settled.
ProbeDependencies ==
  /\ probing' = [d \in Probes |-> IF probing[d] = "none" THEN "awaited" ELSE probing[d]]
  /\ older' = {d \in older : probing[d] # "none"}

HealthAnswers ==
  /\ loop \in {"first", "checking"}
  /\ \/ /\ healthy' = TRUE
        /\ ProbeDependencies
        /\ loop' = IF loop = "first" THEN "dependents" ELSE "timer"
        /\ UNCHANGED <<capable, stale>>
     \/ /\ Outage
        /\ loop' = "timer"
        /\ UNCHANGED probing
  /\ UNCHANGED <<apiClosed, compatible>>

\* The waiter gives up; the next check waits until this call has settled.
HealthTimesOut ==
  /\ loop \in {"first", "checking"}
  /\ Outage
  /\ loop' = "draining"
  /\ UNCHANGED <<apiClosed, compatible, probing>>

HealthSettles ==
  /\ loop = "draining"
  /\ loop' = "timer"
  /\ UNCHANGED <<apiClosed, compatible, healthy, capable, probing, older, stale>>

PublishesAnswer(d, answer) ==
  /\ capable' = IF answer THEN capable \cup {d} ELSE capable \ {d}
  /\ stale' = IF answer /\ d \in older THEN stale \cup {d} ELSE stale \ {d}

\* A call settles: its waiter publishes the answer, if it still waits.
ProbeSettles(d, answer) ==
  /\ probing[d] # "none"
  /\ probing' = [probing EXCEPT ![d] = "none"]
  /\ IF probing[d] = "awaited" THEN PublishesAnswer(d, answer) ELSE UNCHANGED <<capable, stale>>
  /\ UNCHANGED <<apiClosed, compatible, healthy, loop, older>>

ProbeTimesOut(d) ==
  /\ probing[d] = "awaited"
  /\ probing' = [probing EXCEPT ![d] = "abandoned"]
  /\ PublishesAnswer(d, FALSE)
  /\ UNCHANGED <<apiClosed, compatible, healthy, loop, older>>

\* close: a second one returns at once.
CloseBindings ==
  /\ ~apiClosed
  /\ apiClosed' = TRUE
  /\ compatible' = FALSE
  /\ StopProbes

ProbeNext ==
  \/ AssertCompatible \/ CancelStart \/ Started \/ CloseBindings
  \/ TimerFires \/ HealthAnswers \/ HealthTimesOut \/ HealthSettles
  \/ \E d \in Probes : ProbeTimesOut(d)
  \/ \E answer \in BOOLEAN :
       \/ Compatibility(answer)
       \/ \E d \in Probes : ProbeSettles(d, answer)

ProbeSpec == ProbeInit /\ [][ProbeNext]_probeVars

-----------------------------------------------------------------------------
(* Properties.                                                             *)

\* README: "Database recovery cannot reuse a stale successful policy result";
\* nor that of any other dependency but the file provider, whose flag an outage
\* leaves set (composition-factory.ts:660-672): what makes the API ready was
\* asked for after the last outage.
RecoveryRevalidates ==
  healthy => (capable \cap stale) \subseteq {FileProbe}

\* README: "a pending or late result cannot restore readiness or schedule
\* another timer": once the probes are stopped, by a cancelled start or by
\* close, no answer sets a flag again, however late it comes.
LateAnswersAreIgnored ==
  /\ apiClosed => loop = "stopped" /\ ~compatible
  /\ loop = "stopped" => ~healthy /\ capable = {} /\ Awaited = {}

\* The flags behind /health/ready, after an outage and after a stop.
ReadinessIsEarned == RecoveryRevalidates /\ LateAnswersAreIgnored
=============================================================================
