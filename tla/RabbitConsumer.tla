--------------------------- MODULE RabbitConsumer ---------------------------
(***************************************************************************)
(* The worker's RabbitMQ consumer (ConsumerAdapter in                      *)
(* apps/worker/src/rabbit-adapter.ts) under the stop hook of               *)
(* createRabbitInboxHandler: it registers one consumer per binding, runs   *)
(* their deliveries up to a limit, republishes through its ConfirmPort     *)
(* what must be retried, stops the acquisition and drains.                 *)
(*                                                                         *)
(* JavaScript runs from one await to the next without interruption: an     *)
(* action is such a run, or an event of the client library.  A promise     *)
(* rejected while nobody waits for it ends the process (Node's default;    *)
(* the worker installs no handler for it).                                 *)
(***************************************************************************)
EXTENDS ConfirmPort

CONSTANTS
  Bindings,             \* the topologies, in their order of registration
  Queue,                \* the copies the broker delivers to a binding, in order
  Retriable,            \* deliveries whose handler may ask for a retry
  Prefetch, Concurrency,
  MaxFaults             \* failures of the connection and of its parts

BindingSet == ToSet(Bindings)
Deliveries == UNION {ToSet(Queue[b]) : b \in BindingSet}

ASSUME ConsumerAssumption ==
  /\ Callers = Deliveries
  /\ Bindings \in Seq(BindingSet) /\ Bindings # <<>>
  /\ Prefetch \in Nat \ {0} /\ Concurrency \in 1..Prefetch /\ MaxFaults \in Nat
  /\ Queue \in [BindingSet -> Seq(Callers)] /\ Retriable \subseteq Deliveries

VARIABLES
  chan,         \* the consumer's channel is open
  live,         \* consumers registered at the broker
  run, at,      \* where run() waits, and the binding it registers
  completion,   \* the promise run() ends with
  consumers,    \* the map of consumer tags
  cancelling,   \* tags whose cancel is not yet answered
  canceller,    \* which call of stopAcquisition took the tags
  stopping,
  pc, race,     \* executions of deliveries; what a waiting one races on
  hook, drained,  \* the handler's stop: stop(), then drain() of a snapshot
  faults, crashed

acquisition == <<run, at, completion, consumers, cancelling, canceller, stopping>>
executions == <<pc, race>>
stopHook == <<hook, drained>>
vars == <<port, chan, live, acquisition, executions, stopHook, faults, crashed>>

Registering == {"asked", "cancelling"}
Accepted == {"running", "draining", "drained", "confirming", "refused"}
Executing == {"waiting", "woken", "thrown"} \cup Accepted
Over == {"ignored", "settled", "retried", "failed"}

At(S) == {d \in Deliveries : pc[d] \in S}
InFlight == At(Executing)
active == Cardinality(At(Accepted))

\* The channel's prefetch bounds the unacknowledged copies of one consumer.
Unacked(b) == ToSet(Queue[b]) \cap At(Executing \cup {"ignored", "failed"})

\* States have their types and no more than Concurrency deliveries run.
TypeOK ==
  /\ PortTypeOK
  /\ chan \in BOOLEAN /\ live \in SUBSET BindingSet
  /\ run \in {"idle", "awaiting", "ended"} \cup Registering
  /\ at \in DOMAIN Bindings
  /\ completion \in {"pending", "resolved", "rejected"}
  /\ consumers \in SUBSET BindingSet /\ cancelling \in SUBSET BindingSet
  /\ canceller \in {"nobody", "failed", "abort", "hook", "blocked"}
  /\ stopping \in BOOLEAN
  /\ pc \in [Deliveries -> {"ready"} \cup Executing \cup Over]
  /\ race \in [Deliveries -> SUBSET Deliveries]
  /\ hook \in {"none", "stopping", "draining", "done", "failed"}
  /\ drained \in SUBSET Deliveries
  /\ faults \in 0..MaxFaults /\ crashed \in BOOLEAN
  /\ active <= Concurrency

Init ==
  /\ PortInit
  /\ chan = TRUE /\ live = {}
  /\ run = "idle" /\ at = 1 /\ completion = "pending"
  /\ consumers = {} /\ cancelling = {} /\ canceller = "nobody" /\ stopping = FALSE
  /\ pc = [d \in Deliveries |-> "ready"]
  /\ race = [d \in Deliveries |-> {}]
  /\ hook = "none" /\ drained = {}
  /\ faults = 0 /\ crashed = FALSE

-----------------------------------------------------------------------------
(* Settling run() and stopping the acquisition *)

\* runReject: the first settlement counts, and only while run() is under way.
\* Until run() awaits its completion nobody sees the rejection.
Pending == completion = "pending" /\ run \notin {"idle", "ended"}
RejectRun == completion' = IF Pending THEN "rejected" ELSE completion
ResolveRun == completion' = IF Pending THEN "resolved" ELSE completion
Unobserved == Pending /\ run \in Registering

\* stopAcquisition up to its await: the tags are taken, their cancels sent.
TakeTags(caller) ==
  /\ stopping' = TRUE
  /\ consumers' = {}
  /\ cancelling' = cancelling \cup consumers
  /\ canceller' = IF consumers = {} THEN canceller ELSE caller

\* Mutant: an execution that rejects wakes nobody.
WakeOnSuccess(ended, as) ==
  [d \in Deliveries |->
     IF d = ended THEN as
     ELSE IF pc[d] = "waiting" /\ ended \in race[d] /\ as # "failed" THEN "woken"
     ELSE pc[d]]

\* Waiting executions take the first settlement among those they race on.
Wake(ended, as) ==
  LET Waits(d) == pc[d] = "waiting" /\ ended \in race[d] IN
  [d \in Deliveries |->
     IF d = ended THEN as
     ELSE IF Waits(d) THEN (IF as = "failed" THEN "thrown" ELSE "woken")
     ELSE pc[d]]

\* An execution fulfils.
Ends(d, as) ==
  /\ pc' = Wake(d, as)
  /\ race' = [race EXCEPT ![d] = {}]

\* An execution rejects: nothing more is accepted and run() is rejected.
Fails(d) ==
  /\ Ends(d, "failed")
  /\ stopping' = TRUE
  /\ RejectRun
  /\ crashed' = Unobserved
  /\ UNCHANGED <<chan, live, run, at, consumers, cancelling, canceller, stopHook, faults>>

\* The channels go: c the consumer's, p the retries'.  Pending calls on them
\* reject, failed() rejects run() and stops the acquisition.
Lose(c, p) ==
  /\ chan' = (chan /\ ~c)
  /\ live' = IF c THEN {} ELSE live
  /\ run' = IF c /\ run \in Registering THEN "ended" ELSE run
  /\ RejectRun
  /\ stopping' = TRUE
  /\ consumers' = {}
  /\ cancelling' = IF c THEN {} ELSE cancelling \cup consumers
  /\ canceller' = IF c \/ consumers = {} THEN canceller ELSE "failed"
  /\ pc' = [d \in Deliveries |->
              IF p /\ (pc[d] = "draining" \/ (pc[d] = "confirming" /\ LosesItsConfirm(d)))
                THEN "refused" ELSE pc[d]]
  /\ IF p THEN PortFails ELSE UNCHANGED port
  /\ crashed' = \/ Unobserved
                \/ p /\ portOpen /\ Unseen # {}
                \/ c /\ cancelling # {} /\ canceller = "blocked"
  /\ UNCHANGED <<at, race>>

-----------------------------------------------------------------------------
(* run(): one consumer after the other *)

Run ==
  /\ run = "idle"
  /\ run' = IF chan /\ PortHealthy /\ ~stopping THEN "asked" ELSE "ended"
  /\ UNCHANGED <<port, chan, live, at, completion, consumers, cancelling, canceller, stopping,
                 executions, stopHook, faults, crashed>>

\* The next consume, or the completion.
Advance ==
  /\ run' = IF at = Len(Bindings) THEN "awaiting" ELSE "asked"
  /\ at' = IF at = Len(Bindings) THEN at ELSE at + 1

\* The broker registers the consumer; its tag may come too late.
TooLate == stopping

Registered ==
  LET b == Bindings[at] IN
  /\ run = "asked"
  /\ live' = live \cup {b}
  /\ IF TooLate
       THEN run' = "cancelling" /\ UNCHANGED <<at, consumers>>
       ELSE Advance /\ consumers' = consumers \cup {b}
  /\ UNCHANGED <<port, chan, completion, cancelling, canceller, stopping, executions,
                 stopHook, faults, crashed>>

\* The cancel of a late tag is answered.
LateCancelled ==
  /\ run = "cancelling"
  /\ live' = live \ {Bindings[at]}
  /\ Advance
  /\ UNCHANGED <<port, chan, completion, consumers, cancelling, canceller, stopping,
                 executions, stopHook, faults, crashed>>

RunEnds ==
  /\ run = "awaiting" /\ completion # "pending"
  /\ run' = "ended"
  /\ UNCHANGED <<port, chan, live, at, completion, consumers, cancelling, canceller, stopping,
                 executions, stopHook, faults, crashed>>

-----------------------------------------------------------------------------
(* Deliveries *)

\* schedule(): run when a place is free, else wait for an execution to settle.
Schedule(d) ==
  IF active < Concurrency
    THEN pc' = [pc EXCEPT ![d] = "running"] /\ race' = [race EXCEPT ![d] = {}]
    ELSE pc' = [pc EXCEPT ![d] = "waiting"] /\ race' = [race EXCEPT ![d] = InFlight]

\* The first copy of the queue that is not delivered.
NextOf(b) ==
  {Queue[b][i] : i \in {j \in DOMAIN Queue[b] :
     \A k \in 1..j : pc[Queue[b][k]] = "ready" <=> k = j}}

Deliver(b) ==
  /\ b \in live
  /\ Cardinality(Unacked(b)) < Prefetch
  /\ \E d \in NextOf(b) :
       IF stopping THEN pc' = [pc EXCEPT ![d] = "ignored"] /\ UNCHANGED race
                   ELSE Schedule(d)
  /\ UNCHANGED <<port, chan, live, acquisition, stopHook, faults, crashed>>

\* A waiting execution looks again after one it raced on has fulfilled.
Resume(d) ==
  /\ pc[d] = "woken"
  /\ IF stopping THEN Ends(d, "ignored") ELSE Schedule(d)
  /\ UNCHANGED <<port, chan, live, acquisition, stopHook, faults, crashed>>

\* Or fails with it.
Rethrow(d) == pc[d] = "thrown" /\ Fails(d) /\ UNCHANGED port

\* accept: the handler is done and the delivery acknowledged or dead-lettered,
\* on a channel that must still be open.
Settle(d) ==
  /\ pc[d] = "running" /\ chan
  /\ Ends(d, "settled")
  /\ UNCHANGED <<port, chan, live, acquisition, stopHook, faults, crashed>>

\* accept throws: its store, its acknowledgement or its retry failed.
Throw(d) == pc[d] \in {"running", "refused"} /\ Fails(d) /\ UNCHANGED port

\* retry: publish, wait for the buffer, wait for the confirm, acknowledge.
Becomes(d, s) ==
  /\ pc' = [pc EXCEPT ![d] = s]
  /\ UNCHANGED <<chan, live, acquisition, race, stopHook, faults, crashed>>

Retry(d) ==
  /\ pc[d] = "running" /\ d \in Retriable
  /\ \/ Publishable /\ PublishAndClaim(d) /\ Becomes(d, "confirming")
     \/ Publishable /\ PublishAndFill(d) /\ Becomes(d, "draining")
     \/ ~Publishable /\ UNCHANGED port /\ Becomes(d, "refused")

BufferDrains(d) ==
  /\ pc[d] = "draining" /\ portOpen
  /\ PortDrained
  /\ Becomes(d, "drained")

WaitForConfirms(d) ==
  /\ pc[d] = "drained"
  /\ IF PortHealthy /\ Unclaimed # {}
       THEN Claim(d) /\ Becomes(d, "confirming")
       ELSE UNCHANGED port /\ Becomes(d, "refused")

\* Mutant: the answer of takeReturned is ignored.
RepublishedAnyhow(d) == Found(d) # {}

\* The confirm has come: the publication must not have been returned, and the
\* delivery is acknowledged while the channel is open.
Republished(d) == Found(d) # {} /\ Found(d) \cap returned = {}

AcknowledgeRetry(d) ==
  /\ pc[d] = "confirming" /\ \E o \in confirmed : <<d, o>> \in claims
  /\ IF PortHealthy THEN TakeReturned(d) ELSE UNCHANGED port
  /\ IF PortHealthy /\ Republished(d) /\ chan
       THEN Ends(d, "retried") /\ UNCHANGED <<chan, live, acquisition, stopHook, faults, crashed>>
       ELSE Becomes(d, "refused")

\* The broker's answers to a publication.
Confirm(o) ==
  /\ PortConfirm(o)
  /\ UNCHANGED <<chan, live, acquisition, executions, stopHook, faults, crashed>>

Return(o) ==
  /\ PortReturn(o)
  /\ UNCHANGED <<chan, live, acquisition, executions, stopHook, faults, crashed>>

\* A caller claims in the same run of code that saw the buffer drain.
Nack(o) ==
  /\ PortNack(o)
  /\ o \in Claimed \/ At({"drained"}) = {}
  /\ pc' = [d \in Deliveries |->
              IF pc[d] = "confirming" /\ <<d, o>> \in claims THEN "refused" ELSE pc[d]]
  /\ crashed' = (o \notin Claimed)
  /\ UNCHANGED <<chan, live, acquisition, race, stopHook, faults>>

-----------------------------------------------------------------------------
(* Failures of the connection *)

\* A pending stop() rejects with its cancels and never reaches the drain.
StopRejects == hook' = IF hook = "stopping" THEN "failed" ELSE hook

Fault == faults < MaxFaults /\ faults' = faults + 1

ConnectionLost ==
  /\ Fault /\ (chan \/ portOpen)
  /\ Lose(TRUE, TRUE) /\ StopRejects
  /\ UNCHANGED drained

\* The broker closes the consumers' channel (an overdue acknowledgement).
ChannelLost ==
  /\ Fault /\ chan
  /\ Lose(TRUE, FALSE) /\ StopRejects
  /\ UNCHANGED drained

\* The retry channel closes alone.
RetryChannelLost ==
  /\ Fault /\ portOpen
  /\ Lose(FALSE, TRUE)
  /\ UNCHANGED stopHook

\* connection.blocked: stop the acquisition, then failed().
Blocked ==
  /\ Fault /\ portOpen /\ ~blocked
  /\ blocked' = TRUE
  /\ TakeTags("blocked")
  /\ IF consumers = {} THEN RejectRun /\ crashed' = Unobserved
                       ELSE UNCHANGED <<completion, crashed>>
  /\ UNCHANGED <<portOpen, backpressured, operations, older, claims, confirmed, returned, chan,
                 live, run, at, executions, stopHook>>

Unblocked ==
  /\ portOpen /\ blocked
  /\ blocked' = FALSE
  /\ UNCHANGED <<portOpen, backpressured, operations, older, claims, confirmed, returned, chan,
                 live, acquisition, executions, stopHook, faults, crashed>>

\* The broker cancels a consumer (its queue is gone): the callback gets null.
BrokerCancels(b) ==
  /\ Fault /\ b \in live /\ b \notin cancelling
  /\ run # "cancelling" \/ b # Bindings[at]
  /\ live' = live \ {b} /\ consumers' = consumers \ {b} /\ stopping' = TRUE
  /\ IF stopping THEN UNCHANGED <<completion, crashed>>
                 ELSE RejectRun /\ crashed' = Unobserved
  /\ UNCHANGED <<port, chan, run, at, cancelling, canceller, executions, stopHook>>

-----------------------------------------------------------------------------
(* The stop hook: abort, stop(), drain() *)

\* Mutant: drain() waits for the executions that hold a place only.
DrainRunning == hook' = "draining" /\ drained' = At(Accepted)

\* drain() waits for the executions in flight when it begins.
Drain == hook' = "draining" /\ drained' = InFlight

\* The worker aborts run() and calls stop(): while run() is under way its abort
\* listener takes the tags, and stop() goes on without waiting for the cancels.
Stop ==
  /\ hook = "none" /\ run # "idle"
  /\ IF run = "ended"
       THEN /\ TakeTags("hook")
            /\ IF consumers = {} THEN Drain ELSE hook' = "stopping" /\ UNCHANGED drained
            /\ UNCHANGED completion
       ELSE TakeTags("abort") /\ Drain /\ ResolveRun
  /\ UNCHANGED <<port, chan, live, run, at, executions, faults, crashed>>

\* A cancel is answered; after the last one its stopAcquisition goes on.
Cancelled(b) ==
  /\ b \in cancelling
  /\ live' = live \ {b} /\ cancelling' = cancelling \ {b}
  /\ IF cancelling' = {} /\ canceller = "blocked"
       THEN RejectRun /\ crashed' = Unobserved
       ELSE UNCHANGED <<completion, crashed>>
  /\ IF cancelling' = {} /\ hook = "stopping" THEN Drain ELSE UNCHANGED stopHook
  /\ UNCHANGED <<port, chan, run, at, consumers, canceller, stopping, executions, faults>>

\* Every execution of the snapshot has fulfilled: the connection is closed.
Drained ==
  /\ hook = "draining" /\ drained \cap (InFlight \cup At({"failed"})) = {}
  /\ Lose(TRUE, TRUE)
  /\ hook' = "done" /\ UNCHANGED <<drained, faults>>

\* The first one that rejects ends the drain, and the connection, at once.
DrainFails ==
  /\ hook = "draining" /\ drained \cap At({"failed"}) # {}
  /\ Lose(TRUE, TRUE)
  /\ hook' = "failed" /\ UNCHANGED <<drained, faults>>

-----------------------------------------------------------------------------

\* What the event loop runs of a delivery, and what the broker answers.
Proceed(d) ==
  \/ Resume(d) \/ Rethrow(d) \/ Settle(d) \/ Throw(d) \/ Retry(d)
  \/ BufferDrains(d) \/ WaitForConfirms(d) \/ AcknowledgeRetry(d)
  \/ Confirm(d) \/ Nack(d)

Progress ==
  \/ Registered \/ LateCancelled \/ RunEnds
  \/ \E d \in Deliveries : Proceed(d)
  \/ \E b \in BindingSet : Cancelled(b)
  \/ Drained \/ DrainFails

Next ==
  /\ ~crashed
  /\ \/ Run \/ Stop \/ Progress
     \/ \E d \in Deliveries : Return(d)
     \/ ConnectionLost \/ ChannelLost \/ RetryChannelLost \/ Blocked \/ Unblocked
     \/ \E b \in BindingSet : Deliver(b) \/ BrokerCancels(b)

\* The event loop does not idle while something can go on: code that is ready
\* runs, a handler ends (its timeout aborts it), and while the connection
\* stands the broker answers and the socket drains.  No step is owed its turn
\* before another.
Fairness == WF_vars(~crashed /\ Progress)

Spec == Init /\ [][Next]_vars /\ Fairness

-----------------------------------------------------------------------------

\* A delivery acknowledged after its retry is backed by a publication of its
\* message that the broker confirmed and did not return: correlation by message
\* id never counts one publication for two deliveries, though confirms may be
\* claimed crosswise (waitForConfirms, takeReturned).
AcksAreBacked ==
  \A d \in Deliveries :
    LET Same == {e \in Deliveries : MessageOf[e] = MessageOf[d]} IN
    Cardinality(Same \cap At({"retried"})) <= Cardinality((Same \cap confirmed) \ returned)

\* When the stop hook resolves nothing is in flight, though drain() waits for a
\* snapshot only and begins before the cancels are answered.
DrainedMeansDone == hook = "done" => InFlight = {}

\* After run() has ended and the hook has got past stop(), no consumer stays
\* registered on an open channel without a cancel under way, however late its
\* tag came.
NoOrphanConsumer == run = "ended" /\ hook = "draining" => live \subseteq cancelling

\* Once the hook runs, it ends, run() ends and every execution ends: no waiting
\* delivery is left behind by the places others free.
StopSettles ==
  hook # "none" ~> (crashed \/ (hook \in {"done", "failed"} /\ run = "ended" /\ InFlight = {}))

\* A failure while run() is under way stops the worker with its deliveries in
\* flight drained, as the worker's README says of any handler that rejects.
FailureIsDrained == crashed => InFlight = {}

\* The stop leaves nothing behind, neither a delivery nor a consumer.
StopIsClean == DrainedMeansDone /\ NoOrphanConsumer

\* No retry is acknowledged on another's confirm.
AcksAreSound == TypeOK /\ AcksAreBacked
=============================================================================
