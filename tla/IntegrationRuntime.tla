------------------------- MODULE IntegrationRuntime -------------------------
(***************************************************************************)
(* The executor of packages/platform-modules/integration-runtime: calls to *)
(* one provider under a total deadline, a fixed-window rate limit, a       *)
(* concurrency limiter with a bounded queue, a circuit breaker and         *)
(* bounded retries, all of them shared by the calls in flight.             *)
(*                                                                         *)
(* An action is what runs between two awaits.  The variable operations     *)
(* holds the provider's operations still running, whether or not an        *)
(* attempt still waits for them: one may ignore its abort signal.          *)
(***************************************************************************)
EXTENDS Naturals, Integers, Sequences, FiniteSets, SequencesExt

CONSTANTS
  Calls,             \* calls of execute(), one each
  Limit, MaxQueue,   \* concurrency limiter
  FailureThreshold, HalfOpenMaxCalls,   \* circuit breaker
  RateLimit,         \* permits of one rate window
  MaxAttempts,       \* retry policy of each call
  Stubborn           \* calls whose operations ignore their abort signal

ASSUME IntegrationAssumption ==
  /\ Limit \in Nat \ {0} /\ MaxQueue \in Nat
  /\ FailureThreshold \in Nat \ {0} /\ HalfOpenMaxCalls \in Nat \ {0}
  /\ Stubborn \in SUBSET Calls
  /\ RateLimit \in Nat \ {0} /\ MaxAttempts \in [Calls -> Nat \ {0}]

VARIABLES
  (* per call: control point, attempt, the probe flag and error of the
     attempt, and why its budget signal is aborted *)
  pc, attempt, probe, error, aborted,
  (* shared primitives *)
  active, queue, state, failures, halfOpenActive, used,
  (* the clock against openMs, and the provider *)
  cooled, operations

call == <<pc, attempt, probe, error, aborted>>
limiter == <<active, queue>>
breaker == <<state, failures, halfOpenActive, cooled>>
vars == <<call, limiter, breaker, used, operations>>

Operation(c) == [call |-> c, attempt |-> attempt[c]]
Ends == {"success", "failure"}
PCs == {"checking", "queued", "granted", "running", "settling", "backoff"} \cup Ends

(* How an attempt ends: "transient" stands for the retryable categories of
   the policy, "permanent" for those a breaker counts and no policy retries,
   "refused" for those that no breaker counts. *)
Errors == {"none", "transient", "permanent", "refused"}
Counted == {"transient", "permanent"}

TypeOK ==
  /\ pc \in [Calls -> PCs] /\ attempt \in [Calls -> Nat \ {0}]
  /\ \A c \in Calls : attempt[c] <= MaxAttempts[c]
  /\ probe \in [Calls -> BOOLEAN] /\ error \in [Calls -> Errors]
  /\ aborted \in [Calls -> {"no", "expired", "cancelled"}]
  /\ active \in 0..Limit
  /\ queue \in Seq(Calls) /\ Len(queue) <= MaxQueue
  /\ state \in {"closed", "open", "half_open"}
  /\ failures \in Nat /\ halfOpenActive \in Int /\ cooled \in BOOLEAN
  /\ used \in 0..RateLimit
  /\ operations \in SUBSET [call : Calls, attempt : Nat \ {0}]

Init ==
  /\ pc = [c \in Calls |-> "checking"] /\ attempt = [c \in Calls |-> 1]
  /\ probe = [c \in Calls |-> FALSE] /\ error = [c \in Calls |-> "none"]
  /\ aborted = [c \in Calls |-> "no"]
  /\ active = 0 /\ queue = <<>>
  /\ state = "closed" /\ failures = 0 /\ halfOpenActive = 0 /\ cooled = FALSE
  /\ used = 0 /\ operations = {}

Goto(c, l) == pc' = [pc EXCEPT ![c] = l]
Holders == {c \in Calls : pc[c] \in {"granted", "running", "settling"}}
Waiting == {c \in Calls : pc[c] = "queued"}

-----------------------------------------------------------------------------
(* The limiter *)

\* Mutant: a slot handed over is freed as well.
AlwaysFreed == active - 1
Freed == IF queue = <<>> THEN active - 1 ELSE active

\* The slot passes to the head of the queue, which is never aborted: an
\* abort takes its call out of the queue at once.
Release(c, l) ==
  /\ active' = Freed
  /\ queue' = IF queue = <<>> THEN queue ELSE Tail(queue)
  /\ pc' = [x \in Calls |-> IF x = c THEN l
                            ELSE IF queue # <<>> /\ x = Head(queue) THEN "granted"
                            ELSE pc[x]]

Limited == used >= RateLimit

\* Mutant: the signal is only looked at before the wait for a slot.
AbortedBeforeWaiting(c) == aborted[c] # "no" /\ pc[c] = "checking"
SignalAborted(c) == aborted[c] # "no"

\* An attempt starts, the first whenever its call is made: it takes a permit of
\* the rate window, then a slot or a place in the queue; without a permit or
\* a place the call fails for good.
Acquire(c) ==
  /\ pc[c] = "checking"
  /\ IF SignalAborted(c) \/ Limited
     THEN Goto(c, "failure") /\ UNCHANGED <<used, limiter>>
     ELSE /\ used' = used + 1
          /\ \/ /\ active < Limit
                /\ active' = active + 1 /\ queue' = queue /\ Goto(c, "granted")
             \/ /\ active >= Limit /\ Len(queue) < MaxQueue
                /\ queue' = Append(queue, c) /\ active' = active /\ Goto(c, "queued")
             \/ /\ active >= Limit /\ Len(queue) >= MaxQueue
                /\ Goto(c, "failure") /\ UNCHANGED limiter
  /\ UNCHANGED <<attempt, probe, error, aborted, breaker, operations>>

-----------------------------------------------------------------------------
(* The circuit breaker *)

Refreshed == IF state = "open" /\ cooled THEN "half_open" ELSE state
RefreshedActive == IF state = "open" /\ cooled THEN 0 ELSE halfOpenActive
Admits == \/ Refreshed = "closed"
          \/ Refreshed = "half_open" /\ RefreshedActive < HalfOpenMaxCalls

\* A granted call runs: cancelled while it was being granted, refused by the
\* breaker, or admitted.  An admitted attempt whose remaining time is zero
\* fails before it starts the provider's operation.
Enter(c) ==
  /\ pc[c] = "granted"
  /\ IF SignalAborted(c)
     THEN /\ Goto(c, "settling") /\ error' = [error EXCEPT ![c] = "refused"]
          /\ UNCHANGED <<probe, breaker, operations>>
     ELSE /\ state' = Refreshed
          /\ UNCHANGED <<failures, cooled>>
          /\ IF ~Admits
             THEN /\ Goto(c, "settling") /\ error' = [error EXCEPT ![c] = "refused"]
                  /\ halfOpenActive' = RefreshedActive
                  /\ UNCHANGED <<probe, operations>>
             ELSE /\ Goto(c, "running")
                  /\ probe' = [probe EXCEPT ![c] = Refreshed = "half_open"]
                  /\ halfOpenActive' = IF Refreshed = "half_open"
                                       THEN RefreshedActive + 1 ELSE RefreshedActive
                  /\ operations' \in {operations, operations \cup {Operation(c)}}
                  /\ UNCHANGED error
  /\ UNCHANGED <<attempt, aborted, limiter, used>>

Open == state' = "open" /\ halfOpenActive' = 0 /\ cooled' = FALSE

FailuresReset == 0

PlaceFreed(c) == IF probe[c] /\ state = "half_open" THEN halfOpenActive - 1 ELSE halfOpenActive

\* The breaker's bookkeeping for an attempt that ends, whatever became of
\* the breaker since the attempt was admitted.
BreakerSucceeds(c) ==
  /\ failures' = FailuresReset /\ cooled' = cooled
  /\ IF probe[c] THEN state' = "closed" /\ halfOpenActive' = 0
                 ELSE UNCHANGED <<state, halfOpenActive>>

BreakerFails(c, e) ==
  /\ failures' = IF e \in Counted THEN failures + 1 ELSE failures
  /\ IF e \in Counted /\ (probe[c] \/ failures + 1 >= FailureThreshold)
     THEN Open
     ELSE /\ halfOpenActive' = PlaceFreed(c)
          /\ UNCHANGED <<state, cooled>>

Settled(c, e) ==
  /\ Goto(c, "settling")
  /\ error' = [error EXCEPT ![c] = e]
  /\ probe' = [probe EXCEPT ![c] = FALSE]
  /\ UNCHANGED <<attempt, aborted, limiter, used>>

-----------------------------------------------------------------------------
(* The attempt's operation *)

OperationSucceeds(c) ==
  /\ pc[c] = "running" /\ Operation(c) \in operations
  /\ operations' = operations \ {Operation(c)}
  /\ BreakerSucceeds(c) /\ Settled(c, "none")

OperationFails(c) ==
  /\ pc[c] = "running" /\ Operation(c) \in operations
  /\ operations' = operations \ {Operation(c)}
  /\ \E e \in Errors \ {"none"} : BreakerFails(c, e) /\ Settled(c, e)

\* The attempt no longer waits for its operation, which ends at once if it
\* observes the abort signal.
Abandon(c) ==
  operations' = IF c \in Stubborn THEN operations ELSE operations \ {Operation(c)}

\* A phase deadline passes, or no time was left at the start: the attempt
\* fails with a retryable timeout and stops waiting for the operation.
PhaseTimeout(c) ==
  /\ pc[c] = "running"
  /\ Abandon(c)
  /\ BreakerFails(c, "transient") /\ Settled(c, "transient")

\* Mutant: an attempt waits for its operation to settle.
AbortableOnceSettled(c) == /\ pc[c] \notin Ends /\ ~SignalAborted(c)
                           /\ pc[c] = "running" => Operation(c) \notin operations
Abortable(c) == pc[c] \notin Ends /\ ~SignalAborted(c)

\* The budget signal aborts, by the total deadline or by the caller: a
\* queued call leaves the queue, a running one stops waiting, a sleeping one
\* wakes up; a granted one, or one between two awaits, finds out later.
Abort(c, reason) ==
  /\ Abortable(c)
  /\ aborted' = [aborted EXCEPT ![c] = reason]
  /\ UNCHANGED <<attempt, active, used>>
  /\ IF pc[c] = "running" THEN Abandon(c) ELSE UNCHANGED operations
  /\ \/ /\ pc[c] = "queued"
        /\ \E i \in DOMAIN queue : queue[i] = c /\ queue' = RemoveAt(queue, i)
        /\ Goto(c, "failure")
        /\ UNCHANGED <<probe, error, breaker>>
     \/ /\ pc[c] = "running"
        /\ LET e == IF reason = "expired" THEN "transient" ELSE "refused"
           IN /\ BreakerFails(c, e)
              /\ error' = [error EXCEPT ![c] = e]
        /\ probe' = [probe EXCEPT ![c] = FALSE]
        /\ Goto(c, "settling") /\ UNCHANGED queue
     \/ /\ pc[c] = "backoff"
        /\ Goto(c, "failure") /\ UNCHANGED <<probe, error, queue, breaker>>
     \/ /\ pc[c] \in {"checking", "granted", "settling"}
        /\ UNCHANGED <<pc, probe, error, queue, breaker>>

BudgetExpires(c) == Abort(c, "expired")

CallerCancels(c) == Abort(c, "cancelled")

Retries(c) == error[c] = "transient" /\ attempt[c] < MaxAttempts[c] /\ ~SignalAborted(c)

\* The limiter's finally, then the retry decision.
Finish(c) ==
  /\ pc[c] = "settling"
  /\ Release(c, IF error[c] = "none" THEN "success"
                ELSE IF Retries(c) THEN "backoff" ELSE "failure")
  /\ UNCHANGED <<attempt, probe, error, aborted, breaker, used, operations>>

BackoffElapses(c) ==
  /\ pc[c] = "backoff"
  /\ attempt' = [attempt EXCEPT ![c] = @ + 1]
  /\ error' = [error EXCEPT ![c] = "none"]
  /\ Goto(c, "checking")
  /\ UNCHANGED <<probe, aborted, limiter, breaker, used, operations>>

-----------------------------------------------------------------------------
(* The provider and the clock *)

\* An operation nobody waits for ends at last; its result is dropped.
LateSettlement(o) ==
  /\ o \in operations /\ (pc[o.call] # "running" \/ attempt[o.call] # o.attempt)
  /\ operations' = operations \ {o}
  /\ UNCHANGED <<call, limiter, breaker, used>>

CoolDown ==
  /\ state = "open" /\ ~cooled
  /\ cooled' = TRUE
  /\ UNCHANGED <<call, limiter, state, failures, halfOpenActive, used, operations>>

Snapshot ==
  /\ state = "open" /\ cooled
  /\ state' = Refreshed /\ halfOpenActive' = RefreshedActive
  /\ UNCHANGED <<call, limiter, failures, cooled, used, operations>>

WindowElapses ==
  /\ used > 0
  /\ used' = 0
  /\ UNCHANGED <<call, limiter, breaker, operations>>

CallStep(c) ==
  \/ Acquire(c) \/ Enter(c) \/ Finish(c) \/ BackoffElapses(c)
  \/ OperationSucceeds(c) \/ OperationFails(c)
  \/ PhaseTimeout(c) \/ BudgetExpires(c) \/ CallerCancels(c)

Next ==
  \/ \E c \in Calls : CallStep(c)
  \/ \E o \in operations : LateSettlement(o)
  \/ CoolDown \/ Snapshot \/ WindowElapses

Spec == Init /\ [][Next]_vars

\* The event loop runs what is ready and the budget's timer fires; neither
\* the provider nor the phase timers are assumed to do anything.
Fairness ==
  \A c \in Calls :
    /\ WF_vars(Acquire(c)) /\ WF_vars(Enter(c)) /\ WF_vars(Finish(c))
    /\ WF_vars(BudgetExpires(c))

FairSpec == Spec /\ Fairness

-----------------------------------------------------------------------------
(* Properties *)

(* A slot of the limiter is held exactly while a call is between its grant
   and its finally, across hand-overs to the queue and aborts of granted
   calls, and a call only waits while every slot is taken. *)
SlotsMatchHolders ==
  /\ active = Cardinality(Holders)
  /\ ToSet(queue) = Waiting /\ Len(queue) = Cardinality(Waiting)
  /\ queue # <<>> => active = Limit

(* The half-open state never keeps places for probes that no longer run: a
   probe that fails uncounted or is aborted, in this generation of the
   half-open state or in an earlier one, cannot wedge the breaker. *)
HalfOpenNotWedged ==
  state = "half_open" => halfOpenActive <= Cardinality({c \in Calls : probe[c]})

(* A closed breaker is below its threshold, whatever the attempts admitted
   before it opened report after it closed again. *)
ClosedBelowThreshold == state = "closed" => failures < FailureThreshold

(* No operation of the provider starts for a call whose budget is aborted,
   in particular not for one that was granted a slot before the abort. *)
AbortedStartsNothing ==
  [][\A c \in Calls : aborted[c] # "no" =>
       {o \in operations' : o.call = c} \subseteq operations]_vars

(* The total deadline bounds the wait for a slot, every attempt and every
   back-off, even if the provider never answers. *)
EveryCallEnds == \A c \in Calls : <>(pc[c] \in Ends)

(* The bookkeeping of the limiter and of the breaker, over every call that
   waits, runs, is aborted or reports late. *)
LimitsAreSound == TypeOK /\ SlotsMatchHolders /\ HalfOpenNotWedged /\ ClosedBelowThreshold
=============================================================================
