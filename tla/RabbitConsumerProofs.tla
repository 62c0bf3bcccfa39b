------------------------ MODULE RabbitConsumerProofs ------------------------
(***************************************************************************)
(* Proofs about the consumer adapter for every number of bindings,         *)
(* deliveries, places and failures: its stop leaves nothing in flight and  *)
(* no consumer behind, and an acknowledged retry is backed by a confirm.   *)
(***************************************************************************)
EXTENDS RabbitConsumer, FiniteSetTheorems, TLAPS

\* The helpers the actions are built from.
USE DEF acquisition, executions, stopHook, At, InFlight, Executing, Accepted, Over, Becomes

\* Deliveries are at their control points.
PcType == pc \in [Deliveries -> {"ready"} \cup Executing \cup Over]

\* Past stop() nothing new is accepted, and what is in flight was there when
\* drain() looked.
Draining ==
  /\ hook # "none" => stopping
  /\ hook = "draining" => InFlight \subseteq drained
  /\ hook = "done" => InFlight = {}

\* A consumer at the broker has its tag in the map, its cancel on the way, or a
\* run() that is cancelling it; the hook empties the map and it stays empty.
Owned ==
  /\ live \subseteq consumers \cup cancelling
                    \cup (IF run = "cancelling" THEN {Bindings[at]} ELSE {})
  /\ hook # "none" => consumers = {}

StopInv == PcType /\ Draining /\ Owned

-----------------------------------------------------------------------------
(* What the parts of steps do *)

\* The end of an execution moves no other one out of flight or into it.
LEMMA WakeMoves ==
  ASSUME PcType, NEW d \in Deliveries, NEW as \in Over, pc' = Wake(d, as)
  PROVE  PcType' /\ InFlight' \subseteq InFlight
BY DEF PcType, Wake

\* Nor does the loss of a channel.
LEMMA LoseMoves ==
  ASSUME PcType, NEW c \in BOOLEAN, NEW p \in BOOLEAN, Lose(c, p)
  PROVE  PcType' /\ InFlight' = InFlight
BY DEF PcType, Lose

\* A lost channel takes its consumers with it; otherwise their tags are cancelled.
LEMMA LoseOwns ==
  ASSUME Owned, NEW c \in BOOLEAN, NEW p \in BOOLEAN, Lose(c, p)
  PROVE  /\ live' \subseteq consumers' \cup cancelling'
                    \cup (IF run' = "cancelling" THEN {Bindings[at']} ELSE {})
         /\ consumers' = {} /\ stopping'
BY DEF Owned, Lose

\* A step of a delivery that stays in flight or ends leaves the stop alone.
LEMMA DeliveryStep ==
  ASSUME StopInv, PcType', InFlight' \subseteq InFlight,
         stopping => stopping',
         UNCHANGED <<live, run, at, consumers, cancelling, stopHook>>
  PROVE  StopInv'
BY DEF StopInv, Draining, Owned

\* One step of the delivery d: it moves inside its flight.
LEMMA BecomesMoves ==
  ASSUME StopInv, NEW d \in Deliveries, NEW s \in Executing, pc[d] \in Executing, Becomes(d, s)
  PROVE  StopInv'
<1>1. PcType' /\ InFlight' \subseteq InFlight
  BY DEF StopInv, PcType
<1> QED
  BY <1>1, DeliveryStep

\* A delivery whose execution throws ends, and the others stay where they were.
LEMMA FailsMoves ==
  ASSUME StopInv, NEW d \in Deliveries, Fails(d)
  PROVE  StopInv'
<1>1. PcType' /\ InFlight' \subseteq InFlight
  BY WakeMoves DEF StopInv, Fails, Ends
<1> QED
  BY <1>1, DeliveryStep DEF Fails

\* A delivery that is settled or given up ends, and the others stay.
LEMMA EndsMoves ==
  ASSUME StopInv, NEW d \in Deliveries, NEW as \in Over, Ends(d, as),
         UNCHANGED <<chan, live, acquisition, stopHook>>
  PROVE  StopInv'
<1>1. PcType' /\ InFlight' \subseteq InFlight
  BY WakeMoves DEF StopInv, Ends
<1> QED
  BY <1>1, DeliveryStep

-----------------------------------------------------------------------------
(* The invariant *)

\* Every step of the adapter, of the broker and of the stop keeps the invariant.
LEMMA NextStops == StopInv /\ [Next]_vars => StopInv'
<1> SUFFICES ASSUME StopInv, [Next]_vars PROVE StopInv'
  OBVIOUS
<1> USE DEF StopInv
<1>1. CASE Run \/ Registered \/ LateCancelled \/ RunEnds
  BY <1>1 DEF Run, Registered, LateCancelled, RunEnds, Advance, TooLate, PcType, Draining, Owned
<1>2. ASSUME NEW d \in Deliveries, Proceed(d) PROVE StopInv'
  <2>1. CASE Resume(d)
    <3>1. CASE stopping
      BY <2>1, <3>1, EndsMoves DEF Resume
    <3>2. CASE ~stopping
      BY <2>1, <3>2 DEF Resume, Schedule, PcType, Draining, Owned
    <3> QED
      BY <3>1, <3>2
  <2>2. CASE Rethrow(d) \/ Throw(d)
    BY <2>2, FailsMoves DEF Rethrow, Throw
  <2>3. CASE Settle(d)
    BY <2>3, EndsMoves DEF Settle
  <2>4. CASE Retry(d)
    BY <2>4, BecomesMoves DEF Retry
  <2>5. CASE BufferDrains(d)
    BY <2>5, BecomesMoves DEF BufferDrains
  <2>6. CASE WaitForConfirms(d)
    BY <2>6, BecomesMoves DEF WaitForConfirms
  <2>7. CASE AcknowledgeRetry(d)
    BY <2>7, BecomesMoves, EndsMoves DEF AcknowledgeRetry
  <2>8. CASE Confirm(d)
    BY <2>8 DEF Confirm, PcType, Draining, Owned
  <2>9. CASE Nack(d)
    <3>1. PcType' /\ InFlight' \subseteq InFlight
      BY <2>9 DEF Nack, PcType
    <3> QED
      BY <2>9, <3>1, DeliveryStep DEF Nack
  <2> QED
    BY <1>2, <2>1, <2>2, <2>3, <2>4, <2>5, <2>6, <2>7, <2>8, <2>9 DEF Proceed
<1>3. ASSUME NEW b \in BindingSet, Cancelled(b) PROVE StopInv'
  BY <1>3 DEF Cancelled, Drain, PcType, Draining, Owned
<1>4. CASE Drained
  BY <1>4, LoseMoves, LoseOwns DEF Drained, PcType, Draining, Owned
<1>5. CASE DrainFails
  BY <1>5, LoseMoves, LoseOwns DEF DrainFails, PcType, Draining, Owned
<1>6. CASE Stop
  BY <1>6 DEF Stop, TakeTags, Drain, PcType, Draining, Owned
<1>7. ASSUME NEW d \in Deliveries, Return(d) PROVE StopInv'
  BY <1>7 DEF Return, PcType, Draining, Owned
<1>8. CASE ConnectionLost \/ ChannelLost \/ RetryChannelLost
  BY <1>8, LoseMoves, LoseOwns
  DEF ConnectionLost, ChannelLost, RetryChannelLost, StopRejects, Draining, Owned
<1>9. CASE Blocked \/ Unblocked
  BY <1>9 DEF Blocked, Unblocked, TakeTags, PcType, Draining, Owned
<1>10. ASSUME NEW b \in BindingSet, Deliver(b) PROVE StopInv'
  BY <1>10 DEF Deliver, Schedule, PcType, Draining, Owned
<1>11. ASSUME NEW b \in BindingSet, BrokerCancels(b) PROVE StopInv'
  BY <1>11 DEF BrokerCancels, PcType, Draining, Owned
<1>12. CASE UNCHANGED vars
  BY <1>12 DEF vars, PcType, Draining, Owned
<1> QED
  BY <1>1, <1>2, <1>3, <1>4, <1>5, <1>6, <1>7, <1>8, <1>9, <1>10, <1>11, <1>12
  DEF Next, Progress

\* The invariant holds of every behaviour.
LEMMA Stops == Spec => []StopInv
<1>1. Init => StopInv
  BY DEF Init, StopInv, PcType, Draining, Owned
<1> QED
  BY <1>1, NextStops, PTL DEF Spec

\* When the stop hook resolves nothing is in flight: drain() waits for a
\* snapshot, and no delivery is accepted after it, for any number of them.
THEOREM DrainLeavesNothing == Spec => []DrainedMeansDone
<1>1. StopInv => DrainedMeansDone
  BY DEF StopInv, Draining, DrainedMeansDone
<1> QED
  BY <1>1, Stops, PTL

\* Past stop() every consumer at the broker is being cancelled once run() has
\* ended, for any number of bindings and however late their tags come.
THEOREM NoConsumerIsLeft == Spec => []NoOrphanConsumer
<1>1. StopInv => NoOrphanConsumer
  BY DEF StopInv, Owned, NoOrphanConsumer
<1> QED
  BY <1>1, Stops, PTL

\* A stop leaves no delivery in flight and no consumer behind, for any number
\* of deliveries, consumers and failures.
THEOREM StopsAreClean == Spec => []StopIsClean
BY DrainLeavesNothing, NoConsumerIsLeft, PTL DEF StopIsClean

-----------------------------------------------------------------------------
(* Counting *)

LEMMA SubsetSize ==
  ASSUME NEW S, IsFiniteSet(S), NEW T, T \subseteq S
  PROVE  /\ IsFiniteSet(T) /\ Cardinality(S) \in Nat /\ Cardinality(T) \in Nat
         /\ Cardinality(T) <= Cardinality(S)
BY FS_Subset, FS_CardinalityType

LEMMA GainsOne ==
  ASSUME NEW S, IsFiniteSet(S), NEW x, NEW T, T \subseteq S \cup {x}
  PROVE  /\ IsFiniteSet(T) /\ Cardinality(S) \in Nat /\ Cardinality(T) \in Nat
         /\ Cardinality(T) <= Cardinality(S) + 1
<1>1. IsFiniteSet(S \cup {x}) /\ Cardinality(S) \in Nat
  BY FS_AddElement, FS_CardinalityType
<1>2. Cardinality(S \cup {x}) = IF x \in S THEN Cardinality(S) ELSE Cardinality(S) + 1
  BY FS_AddElement
<1>3. Cardinality(S \cup {x}) <= Cardinality(S) + 1
  BY <1>1, <1>2
<1> QED
  BY <1>1, <1>3, SubsetSize

LEMMA HasOneMore ==
  ASSUME NEW S, NEW T, IsFiniteSet(T), S \subseteq T, NEW x \in T, x \notin S
  PROVE  /\ Cardinality(S) \in Nat /\ Cardinality(T) \in Nat
         /\ Cardinality(S) + 1 <= Cardinality(T)
<1>1. IsFiniteSet(T \ {x}) /\ Cardinality(T \ {x}) = Cardinality(T) - 1
  BY FS_RemoveElement
<1>2. S \subseteq T \ {x}
  OBVIOUS
<1> QED
  BY <1>1, <1>2, SubsetSize, FS_CardinalityType

\* A sequence has finitely many elements.
LEMMA FiniteRange ==
  ASSUME NEW S, NEW s \in Seq(S)
  PROVE  IsFiniteSet(ToSet(s))
<1>1. s \in Surjection(DOMAIN s, ToSet(s))
  BY DEF ToSet, Surjection
<1>2. IsFiniteSet(DOMAIN s)
  BY FS_Interval
<1> QED
  BY <1>1, <1>2, FS_Surjection

\* The broker delivers finitely many copies.
LEMMA DeliveriesAreFinite == IsFiniteSet(Deliveries)
<1>1. IsFiniteSet(BindingSet)
  BY ConsumerAssumption, FiniteRange DEF ConsumerAssumption, BindingSet
<1> DEFINE copies == [b \in BindingSet |-> ToSet(Queue[b])]
           all == {ToSet(Queue[b]) : b \in BindingSet}
<1>2. copies \in Surjection(BindingSet, all)
  BY DEF Surjection
<1>3. IsFiniteSet(all)
  BY <1>1, <1>2, FS_Surjection
<1>4. \A S \in all : IsFiniteSet(S)
  BY ConsumerAssumption, FiniteRange DEF ConsumerAssumption
<1> QED
  BY <1>3, <1>4, FS_UNION DEF Deliveries

-----------------------------------------------------------------------------
(* What backs an acknowledged retry *)

Copies(d) == {e \in Deliveries : MessageOf[e] = MessageOf[d]}
Retried(d) == Copies(d) \cap At({"retried"})

\* The publications of a message that were confirmed, not returned, and already
\* taken back: nobody can take them back again.
Spent(d) == ((Copies(d) \cap confirmed) \ returned) \ operations

\* A delivery that has not reached its retry has published nothing.
Early == {"ready", "waiting", "woken", "running"}
NothingEarly == \A d \in Deliveries : pc[d] \in Early => d \notin operations \cup confirmed

\* Every acknowledged retry has used up a publication of its message.
Paid == \A d \in Deliveries : Cardinality(Retried(d)) <= Cardinality(Spent(d))

\* Nobody is retried by the step, and no spent publication is lost.
LEMMA PaidStays ==
  ASSUME Paid, \A d \in Deliveries : pc'[d] = "retried" => pc[d] = "retried",
         \A d \in Deliveries : Spent(d) \subseteq Spent(d)'
  PROVE  Paid'
<1> SUFFICES ASSUME NEW d \in Deliveries
             PROVE  Cardinality(Retried(d)') <= Cardinality(Spent(d)')
  BY DEF Paid
<1>1. Retried(d)' \subseteq Retried(d) /\ Spent(d) \subseteq Spent(d)'
  BY DEF Retried, Copies
<1>2. /\ IsFiniteSet(Retried(d)) /\ IsFiniteSet(Spent(d)')
  <2>1. Retried(d) \subseteq Deliveries /\ Spent(d)' \subseteq Deliveries
    BY DEF Retried, Spent, Copies
  <2> QED
    BY <2>1, DeliveriesAreFinite, SubsetSize
<1>3. /\ Cardinality(Retried(d)') <= Cardinality(Retried(d))
      /\ Cardinality(Retried(d)') \in Nat /\ Cardinality(Retried(d)) \in Nat
  BY <1>1, <1>2, SubsetSize
<1>4. /\ Cardinality(Spent(d)) <= Cardinality(Spent(d)')
      /\ Cardinality(Spent(d)) \in Nat /\ Cardinality(Spent(d)') \in Nat
  BY <1>1, <1>2, SubsetSize
<1>5. Cardinality(Retried(d)) <= Cardinality(Spent(d))
  BY DEF Paid
<1> QED
  BY <1>3, <1>4, <1>5

\* The publication a retry takes back becomes spent, and pays for it.
LEMMA RetryPays ==
  ASSUME PortTypeOK, PcType, Paid, NEW d \in Deliveries, TakeReturned(d), Republished(d),
         pc' = Wake(d, "retried")
  PROVE  Paid'
<1>1. PICK o \in Found(d) : o \notin returned
  BY DEF Republished
<1>2. o \in operations /\ o \in confirmed /\ MessageOf[o] = MessageOf[d]
  BY <1>1 DEF Found, First
<1>3. o \in Deliveries
  BY <1>2, ConsumerAssumption DEF ConsumerAssumption, PortTypeOK
<1> SUFFICES ASSUME NEW e \in Deliveries
             PROVE  Cardinality(Retried(e)') <= Cardinality(Spent(e)')
  BY DEF Paid
<1>4. Spent(e) \subseteq Spent(e)'
  BY DEF TakeReturned, Keep, Spent, Copies
<1>5. Retried(e) \subseteq Deliveries /\ Spent(e)' \subseteq Deliveries
  BY DEF Retried, Spent, Copies
<1>6. IsFiniteSet(Retried(e)) /\ IsFiniteSet(Spent(e)')
  BY <1>5, DeliveriesAreFinite, SubsetSize
<1>7. Cardinality(Retried(e)) <= Cardinality(Spent(e))
  BY DEF Paid
<1>8. CASE MessageOf[e] = MessageOf[d]
  <2>1. Retried(e)' \subseteq Retried(e) \cup {d}
    BY DEF Retried, Copies, PcType, Wake
  <2>2. o \in Spent(e)' /\ o \notin Spent(e)
    BY <1>1, <1>2, <1>3, <1>8 DEF Spent, Copies, TakeReturned, Keep
  <2>3. /\ Cardinality(Retried(e)') <= Cardinality(Retried(e)) + 1
        /\ Cardinality(Retried(e)') \in Nat /\ Cardinality(Retried(e)) \in Nat
    BY <1>6, <2>1, GainsOne
  <2>4. /\ Cardinality(Spent(e)) + 1 <= Cardinality(Spent(e)')
        /\ Cardinality(Spent(e)) \in Nat /\ Cardinality(Spent(e)') \in Nat
    BY <1>4, <1>6, <2>2, HasOneMore
  <2> QED
    BY <1>7, <2>3, <2>4
<1>9. CASE MessageOf[e] # MessageOf[d]
  <2>1. Retried(e)' \subseteq Retried(e)
    BY <1>9 DEF Retried, Copies, PcType, Wake
  <2>2. /\ Cardinality(Retried(e)') <= Cardinality(Retried(e))
        /\ Cardinality(Retried(e)') \in Nat /\ Cardinality(Retried(e)) \in Nat
    BY <1>6, <2>1, SubsetSize
  <2>3. /\ Cardinality(Spent(e)) <= Cardinality(Spent(e)')
        /\ Cardinality(Spent(e)) \in Nat /\ Cardinality(Spent(e)') \in Nat
    BY <1>4, <1>6, SubsetSize
  <2> QED
    BY <1>7, <2>2, <2>3
<1> QED
  BY <1>8, <1>9

-----------------------------------------------------------------------------
(* The types of the states, and the places *)

LEMMA PlacesAreFinite == IsFiniteSet(At(Accepted)) /\ active \in Nat
<1>1. At(Accepted) \subseteq Deliveries
  OBVIOUS
<1> QED
  BY <1>1, DeliveriesAreFinite, SubsetSize DEF active

\* No place is taken.
LEMMA PlacesStay ==
  ASSUME active <= Concurrency, At(Accepted)' \subseteq At(Accepted)
  PROVE  active' <= Concurrency
<1> HIDE DEF At, Accepted
<1>1. active' <= active /\ active' \in Nat /\ active \in Nat
  BY PlacesAreFinite, SubsetSize DEF active
<1> QED
  BY <1>1, ConsumerAssumption DEF ConsumerAssumption

\* One place is taken, of those that are free.
LEMMA PlaceTaken ==
  ASSUME active < Concurrency, NEW d, At(Accepted)' \subseteq At(Accepted) \cup {d}
  PROVE  active' <= Concurrency
<1> HIDE DEF At, Accepted
<1>1. active' <= active + 1 /\ active' \in Nat /\ active \in Nat
  BY PlacesAreFinite, GainsOne DEF active
<1> QED
  BY <1>1, ConsumerAssumption DEF ConsumerAssumption

\* Operations of the port keep its types.
LEMMA PushTypes ==
  ASSUME PortTypeOK, NEW c \in Callers, Push(c)
  PROVE  operations' \subseteq Callers /\ older' \subseteq operations' \X operations'
BY DEF PortTypeOK, Push

LEMMA KeepTypes ==
  ASSUME PortTypeOK, NEW ops \in SUBSET operations, Keep(ops)
  PROVE  operations' \subseteq Callers /\ older' \subseteq operations' \X operations'
BY DEF PortTypeOK, Keep

LEMMA FirstIsOf == \A ops : First(ops) \subseteq ops
BY DEF First

\* So do its steps.
LEMMA PortTypes ==
  ASSUME PortTypeOK, NEW c \in Deliveries,
         \/ PublishAndClaim(c) \/ PublishAndFill(c) \/ PortDrained \/ Claim(c)
         \/ PortConfirm(c) \/ PortReturn(c) \/ PortNack(c) \/ TakeReturned(c) \/ PortFails
         \/ UNCHANGED port
  PROVE  PortTypeOK'
<1>1. c \in Callers
  BY ConsumerAssumption DEF ConsumerAssumption
<1>2. Unclaimed \subseteq Callers /\ First(Unclaimed) \subseteq Callers
  BY FirstIsOf DEF Unclaimed, PortTypeOK
<1>3. CASE PublishAndClaim(c)
  <2>1. claims' \in SUBSET (Callers \X Callers)
    BY <1>1, <1>2, <1>3 DEF PublishAndClaim, PortTypeOK
  <2> QED
    BY <1>1, <1>3, <2>1, PushTypes DEF PublishAndClaim, PortTypeOK
<1>4. CASE PublishAndFill(c)
  BY <1>1, <1>4, PushTypes DEF PublishAndFill, PortTypeOK
<1>5. CASE Claim(c)
  BY <1>1, <1>2, <1>5 DEF Claim, PortTypeOK
<1>6. CASE PortNack(c)
  BY <1>6, KeepTypes DEF PortNack, PortTypeOK
<1>7. CASE TakeReturned(c)
  BY <1>7, KeepTypes DEF TakeReturned, PortTypeOK
<1>8. CASE PortFails
  BY <1>8, KeepTypes DEF PortFails, PortTypeOK
<1>9. CASE PortDrained \/ PortConfirm(c) \/ PortReturn(c) \/ UNCHANGED port
  BY <1>1, <1>9 DEF PortDrained, PortConfirm, PortReturn, Uncertain, port, PortTypeOK
<1> QED
  BY <1>3, <1>4, <1>5, <1>6, <1>7, <1>8, <1>9

\* What is neither the port nor a place.
ControlTypeOK ==
  /\ chan \in BOOLEAN /\ live \in SUBSET BindingSet
  /\ run \in {"idle", "awaiting", "ended"} \cup Registering
  /\ at \in DOMAIN Bindings
  /\ completion \in {"pending", "resolved", "rejected"}
  /\ consumers \in SUBSET BindingSet /\ cancelling \in SUBSET BindingSet
  /\ canceller \in {"nobody", "failed", "abort", "hook", "blocked"}
  /\ stopping \in BOOLEAN
  /\ race \in [Deliveries -> SUBSET Deliveries]
  /\ hook \in {"none", "stopping", "draining", "done", "failed"}
  /\ drained \in SUBSET Deliveries
  /\ faults \in 0..MaxFaults /\ crashed \in BOOLEAN

LEMMA TypeParts == TypeOK <=> PortTypeOK /\ ControlTypeOK /\ PcType /\ active <= Concurrency
BY DEF TypeOK, ControlTypeOK, PcType

AckInv == PortTypeOK /\ PcType /\ active <= Concurrency /\ NothingEarly /\ Paid

\* A step that leaves the port alone, or only its channel, keeps the invariant
\* when it takes no place, publishes nothing and acknowledges nothing.
LEMMA QuietKeeps ==
  ASSUME AckInv, PortTypeOK', PcType',
         operations' \subseteq operations, confirmed' = confirmed, returned' = returned,
         At(Accepted)' \subseteq At(Accepted),
         \A d \in Deliveries : /\ pc'[d] \in Early => pc[d] \in Early
                               /\ pc'[d] = "retried" => pc[d] = "retried"
  PROVE  AckInv'
<1>1. NothingEarly'
  BY DEF AckInv, NothingEarly
<1>2. \A d \in Deliveries : Spent(d) \subseteq Spent(d)'
  BY DEF Spent, Copies
<1>3. Paid'
  BY <1>2, PaidStays DEF AckInv
<1> QED
  BY <1>1, <1>3, PlacesStay DEF AckInv

\* The same, when the delivery d takes a place that is free.
LEMMA PlaceKeeps ==
  ASSUME AckInv, PcType', UNCHANGED port, active < Concurrency, NEW d \in Deliveries,
         pc[d] \in Early, pc' = [pc EXCEPT ![d] = "running"]
  PROVE  AckInv'
<1>1. NothingEarly'
  BY DEF AckInv, NothingEarly, PcType, port, Early
<1>2. \A e \in Deliveries : Spent(e) \subseteq Spent(e)'
  BY DEF Spent, Copies, port
<1>3. \A e \in Deliveries : pc'[e] = "retried" => pc[e] = "retried"
  BY DEF AckInv, PcType
<1>4. Paid'
  BY <1>2, <1>3, PaidStays DEF AckInv
<1>5. At(Accepted)' \subseteq At(Accepted) \cup {d}
  BY DEF AckInv, PcType
<1>6. active' <= Concurrency
  BY <1>5, PlaceTaken
<1> QED
  BY <1>1, <1>4, <1>6, PortTypes DEF AckInv

\* A delivery that publishes has published nothing before.
LEMMA PublishKeeps ==
  ASSUME AckInv, PcType', NEW d \in Deliveries, NEW s \in {"confirming", "draining"},
         pc[d] = "running", pc' = [pc EXCEPT ![d] = s],
         PublishAndClaim(d) \/ PublishAndFill(d)
  PROVE  AckInv'
<1>1. operations' = operations \cup {d} /\ confirmed' = confirmed /\ returned' = returned
  BY DEF PublishAndClaim, PublishAndFill, Push
<1>2. d \notin confirmed
  BY DEF AckInv, NothingEarly, Early
<1>3. NothingEarly'
  BY <1>1 DEF AckInv, NothingEarly, PcType, Early
<1>4. \A e \in Deliveries : Spent(e) \subseteq Spent(e)'
  BY <1>1, <1>2 DEF Spent, Copies
<1>5. \A e \in Deliveries : pc'[e] = "retried" => pc[e] = "retried"
  BY DEF AckInv, PcType
<1>6. Paid'
  BY <1>4, <1>5, PaidStays DEF AckInv
<1>7. At(Accepted)' \subseteq At(Accepted)
  BY DEF AckInv, PcType
<1> QED
  BY <1>3, <1>6, <1>7, PlacesStay, PortTypes DEF AckInv

\* The broker's answers concern publications that nobody has taken back.
LEMMA AnswerKeeps ==
  ASSUME AckInv, NEW o \in Deliveries, PortConfirm(o) \/ PortReturn(o), UNCHANGED pc
  PROVE  AckInv'
<1>1. o \in operations /\ operations' = operations
  BY DEF PortConfirm, PortReturn, Uncertain
<1>2. confirmed \subseteq confirmed' /\ confirmed' \subseteq confirmed \cup {o}
  BY DEF PortConfirm, PortReturn
<1>3. returned' \subseteq returned \cup {o}
  BY DEF PortConfirm, PortReturn
<1>4. NothingEarly'
  BY <1>1, <1>2 DEF AckInv, NothingEarly
<1>5. \A e \in Deliveries : Spent(e) \subseteq Spent(e)'
  BY <1>1, <1>2, <1>3 DEF Spent, Copies
<1>6. Paid'
  BY <1>5, PaidStays DEF AckInv
<1> QED
  BY <1>4, <1>6, PlacesStay, PortTypes DEF AckInv, PcType

\* An execution that ends wakes others, which publish and hold nothing yet.
LEMMA WakeIsQuiet ==
  ASSUME PcType, NEW d \in Deliveries, pc[d] \notin Over, NEW as \in Over \ {"retried"},
         pc' = Wake(d, as)
  PROVE  /\ PcType' /\ At(Accepted)' \subseteq At(Accepted)
         /\ \A e \in Deliveries : /\ pc'[e] \in Early => pc[e] \in Early
                                  /\ pc'[e] = "retried" => pc[e] = "retried"
BY DEF PcType, Wake, Early

LEMMA LoseIsQuiet ==
  ASSUME AckInv, NEW c \in BOOLEAN, NEW p \in BOOLEAN, Lose(c, p)
  PROVE  AckInv'
<1>1. PcType /\ PortTypeOK
  BY DEF AckInv
<1>2. /\ PcType' /\ At(Accepted)' \subseteq At(Accepted)
      /\ \A d \in Deliveries : /\ pc'[d] \in Early => pc[d] \in Early
                               /\ pc'[d] = "retried" => pc[d] = "retried"
  BY <1>1 DEF PcType, Lose, Early
<1>3. PortFails \/ UNCHANGED port
  BY DEF Lose
<1>4. operations' \subseteq operations /\ confirmed' = confirmed /\ returned' = returned
  BY <1>3 DEF PortFails, Keep, port
<1>5. PortTypeOK'
  <2>1. CASE PortFails
    BY <1>1, <2>1, KeepTypes DEF PortFails, PortTypeOK
  <2>2. CASE UNCHANGED port
    BY <1>1, <2>2 DEF port, PortTypeOK
  <2> QED
    BY <1>3, <2>1, <2>2
<1> QED
  BY <1>2, <1>4, <1>5, QuietKeeps

\* A waiting or new delivery is admitted.
LEMMA ScheduleKeeps ==
  ASSUME AckInv, NEW d \in Deliveries, pc[d] \in Early, Schedule(d), UNCHANGED port
  PROVE  AckInv'
<1>1. PcType
  BY DEF AckInv
<1>2. CASE active < Concurrency
  <2>1. pc' = [pc EXCEPT ![d] = "running"]
    BY <1>2 DEF Schedule
  <2>2. PcType'
    BY <1>1, <2>1 DEF PcType
  <2> QED
    BY <1>2, <2>1, <2>2, PlaceKeeps
<1>3. CASE ~(active < Concurrency)
  <2>1. pc' = [pc EXCEPT ![d] = "waiting"]
    BY <1>3 DEF Schedule
  <2>2. /\ PcType' /\ At(Accepted)' \subseteq At(Accepted)
        /\ \A e \in Deliveries : /\ pc'[e] \in Early => pc[e] \in Early
                                 /\ pc'[e] = "retried" => pc[e] = "retried"
    BY <1>1, <2>1 DEF PcType, Early
  <2>3. PortTypeOK' /\ operations' = operations /\ confirmed' = confirmed /\ returned' = returned
    BY PortTypes DEF port, AckInv
  <2> QED
    BY <2>2, <2>3, QuietKeeps
<1> QED
  BY <1>2, <1>3

\* An execution ends without an acknowledgement of its retry.
LEMMA EndKeeps ==
  ASSUME AckInv, NEW d \in Deliveries, pc[d] \notin Over, NEW as \in Over \ {"retried"},
         pc' = Wake(d, as), UNCHANGED port
  PROVE  AckInv'
<1>1. PcType
  BY DEF AckInv
<1>2. /\ PcType' /\ At(Accepted)' \subseteq At(Accepted)
      /\ \A e \in Deliveries : /\ pc'[e] \in Early => pc[e] \in Early
                               /\ pc'[e] = "retried" => pc[e] = "retried"
  BY <1>1, WakeIsQuiet
<1>3. PortTypeOK' /\ operations' = operations /\ confirmed' = confirmed /\ returned' = returned
  BY PortTypes DEF port, AckInv
<1> QED
  BY <1>2, <1>3, QuietKeeps

\* A delivery that holds its place goes on to wait, for what is not its retry.
LEMMA BecomesKeeps ==
  ASSUME AckInv, NEW d \in Deliveries, pc[d] \in Accepted, NEW s \in Accepted \ {"running"},
         pc' = [pc EXCEPT ![d] = s], PortTypeOK',
         operations' \subseteq operations, confirmed' = confirmed, returned' = returned
  PROVE  AckInv'
<1>1. PcType
  BY DEF AckInv
<1>2. /\ PcType' /\ At(Accepted)' \subseteq At(Accepted)
      /\ \A e \in Deliveries : /\ pc'[e] \in Early => pc[e] \in Early
                               /\ pc'[e] = "retried" => pc[e] = "retried"
  BY <1>1 DEF PcType, Early
<1> QED
  BY <1>2, QuietKeeps

LEMMA NextOfIsReady ==
  ASSUME NEW b \in BindingSet
  PROVE  \A d \in NextOf(b) : d \in Deliveries /\ pc[d] = "ready"
<1> SUFFICES ASSUME NEW d \in NextOf(b) PROVE d \in Deliveries /\ pc[d] = "ready"
  OBVIOUS
<1>1. PICK i \in DOMAIN Queue[b] :
        d = Queue[b][i] /\ \A k \in 1..i : pc[Queue[b][k]] = "ready" <=> k = i
  BY DEF NextOf
<1>2. Queue[b] \in Seq(Callers)
  BY ConsumerAssumption DEF ConsumerAssumption
<1>3. i \in 1..i
  BY <1>2
<1>4. d \in ToSet(Queue[b])
  BY <1>1 DEF ToSet
<1> QED
  BY <1>1, <1>3, <1>4 DEF Deliveries

\* Every step keeps what backs an acknowledged retry.
LEMMA NextAcks == AckInv /\ [Next]_vars => AckInv'
<1> SUFFICES ASSUME AckInv, [Next]_vars PROVE AckInv'
  OBVIOUS
<1>0. PcType /\ PortTypeOK
  BY DEF AckInv
<1>1. ASSUME UNCHANGED <<port, pc>> PROVE AckInv'
  <2>1. PcType' /\ At(Accepted)' = At(Accepted)
    BY <1>0, <1>1 DEF PcType
  <2>2. PortTypeOK' /\ operations' = operations /\ confirmed' = confirmed /\ returned' = returned
    BY <1>0, <1>1 DEF port, PortTypeOK
  <2> QED
    BY <1>1, <2>1, <2>2, QuietKeeps
<1>2. ASSUME NEW d \in Deliveries, Proceed(d) PROVE AckInv'
  <2>1. CASE Resume(d)
    BY <2>1, ScheduleKeeps, EndKeeps DEF Resume, Ends, Early
  <2>2. CASE Rethrow(d) \/ Throw(d)
    BY <2>2, EndKeeps DEF Rethrow, Throw, Fails, Ends
  <2>3. CASE Settle(d)
    BY <2>3, EndKeeps DEF Settle, Ends
  <2>4. CASE Retry(d)
    <3>1. CASE UNCHANGED port
      BY <2>4, <3>1, <1>0, BecomesKeeps, PortTypes DEF Retry, port
    <3>2. CASE PublishAndClaim(d) /\ Becomes(d, "confirming")
      BY <2>4, <3>2, <1>0, PublishKeeps DEF Retry, PcType
    <3>3. CASE PublishAndFill(d) /\ Becomes(d, "draining")
      BY <2>4, <3>3, <1>0, PublishKeeps DEF Retry, PcType
    <3> QED
      BY <2>4, <3>1, <3>2, <3>3 DEF Retry
  <2>5. CASE BufferDrains(d)
    BY <2>5, <1>0, BecomesKeeps, PortTypes DEF BufferDrains, PortDrained
  <2>6. CASE WaitForConfirms(d)
    <3>1. PortTypeOK' /\ operations' = operations /\ confirmed' = confirmed /\ returned' = returned
      BY <2>6, <1>0, PortTypes DEF WaitForConfirms, Claim, port
    <3> QED
      BY <2>6, <3>1, BecomesKeeps DEF WaitForConfirms
  <2>7. CASE AcknowledgeRetry(d)
    <3>1. PortTypeOK' /\ operations' \subseteq operations
          /\ confirmed' = confirmed /\ returned' = returned
      BY <2>7, <1>0, PortTypes DEF AcknowledgeRetry, TakeReturned, Keep, port
    <3>2. CASE Becomes(d, "refused")
      BY <2>7, <3>1, <3>2, BecomesKeeps DEF AcknowledgeRetry
    <3>3. CASE TakeReturned(d) /\ Republished(d) /\ Ends(d, "retried")
      <4>1. pc[d] = "confirming" /\ pc' = Wake(d, "retried")
        BY <2>7, <3>3 DEF AcknowledgeRetry, Ends
      <4>2. Paid'
        BY <3>3, <4>1, <1>0, RetryPays DEF AckInv
      <4>3. PcType' /\ At(Accepted)' \subseteq At(Accepted)
            /\ \A e \in Deliveries : pc'[e] \in Early => pc[e] \in Early
        BY <4>1, <1>0 DEF PcType, Wake, Early
      <4>4. NothingEarly'
        BY <3>1, <4>3 DEF AckInv, NothingEarly
      <4> QED
        BY <3>1, <4>2, <4>3, <4>4, PlacesStay DEF AckInv
    <3> QED
      BY <2>7, <3>2, <3>3 DEF AcknowledgeRetry
  <2>8. CASE Confirm(d)
    BY <2>8, AnswerKeeps DEF Confirm
  <2>9. CASE Nack(d)
    <3>1. /\ PcType' /\ At(Accepted)' \subseteq At(Accepted)
          /\ \A e \in Deliveries : /\ pc'[e] \in Early => pc[e] \in Early
                                   /\ pc'[e] = "retried" => pc[e] = "retried"
      BY <2>9, <1>0 DEF Nack, PcType, Early
    <3>2. PortTypeOK' /\ operations' \subseteq operations
          /\ confirmed' = confirmed /\ returned' = returned
      BY <2>9, <1>0, PortTypes DEF Nack, PortNack, Keep
    <3> QED
      BY <3>1, <3>2, QuietKeeps
  <2> QED
    BY <1>2, <2>1, <2>2, <2>3, <2>4, <2>5, <2>6, <2>7, <2>8, <2>9 DEF Proceed
<1>3. CASE Drained \/ DrainFails \/ ConnectionLost \/ ChannelLost \/ RetryChannelLost
  BY <1>3, LoseIsQuiet DEF Drained, DrainFails, ConnectionLost, ChannelLost, RetryChannelLost
<1>4. CASE Blocked \/ Unblocked
  <2>1. /\ UNCHANGED <<pc, operations, older, claims, confirmed, returned, portOpen, backpressured>>
        /\ blocked' \in BOOLEAN
    BY <1>4 DEF Blocked, Unblocked
  <2>2. PcType' /\ At(Accepted)' = At(Accepted)
    BY <1>0, <2>1 DEF PcType
  <2>3. PortTypeOK'
    BY <1>0, <2>1 DEF PortTypeOK
  <2> QED
    BY <2>1, <2>2, <2>3, QuietKeeps
<1>5. ASSUME NEW b \in BindingSet, Deliver(b) PROVE AckInv'
  <2>1. PICK d \in NextOf(b) :
          IF stopping THEN pc' = [pc EXCEPT ![d] = "ignored"] /\ UNCHANGED race ELSE Schedule(d)
    BY <1>5 DEF Deliver
  <2>2. d \in Deliveries /\ pc[d] = "ready"
    BY NextOfIsReady
  <2>3. UNCHANGED port
    BY <1>5 DEF Deliver
  <2>4. CASE stopping
    <3>1. /\ PcType' /\ At(Accepted)' \subseteq At(Accepted)
          /\ \A e \in Deliveries : /\ pc'[e] \in Early => pc[e] \in Early
                                   /\ pc'[e] = "retried" => pc[e] = "retried"
      BY <1>0, <2>1, <2>2, <2>4 DEF PcType, Early
    <3>2. PortTypeOK' /\ operations' = operations /\ confirmed' = confirmed /\ returned' = returned
      BY <1>0, <2>2, <2>3, PortTypes DEF port
    <3> QED
      BY <3>1, <3>2, QuietKeeps
  <2>5. CASE ~stopping
    BY <2>1, <2>2, <2>3, <2>5, ScheduleKeeps DEF Early
  <2> QED
    BY <2>4, <2>5
<1>6. CASE \/ Run \/ Stop \/ Registered \/ LateCancelled \/ RunEnds \/ UNCHANGED vars
           \/ \E b \in BindingSet : Cancelled(b) \/ BrokerCancels(b)
  BY <1>6, <1>1 DEF Run, Stop, Registered, LateCancelled, RunEnds, Cancelled, BrokerCancels, vars
<1>7. ASSUME NEW d \in Deliveries, Return(d) PROVE AckInv'
  BY <1>7, AnswerKeeps DEF Return
<1> QED
  BY <1>2, <1>3, <1>4, <1>5, <1>6, <1>7 DEF Next, Progress

-----------------------------------------------------------------------------
(* The types of the rest *)

LEMMA BindingAt ==
  ASSUME at \in DOMAIN Bindings
  PROVE  /\ Bindings[at] \in BindingSet
         /\ at # Len(Bindings) => at + 1 \in DOMAIN Bindings
<1>1. Bindings \in Seq(BindingSet)
  BY ConsumerAssumption DEF ConsumerAssumption
<1> QED
  BY <1>1

LEMMA LoseTypes ==
  ASSUME ControlTypeOK, NEW c \in BOOLEAN, NEW p \in BOOLEAN, Lose(c, p)
  PROVE  /\ chan' \in BOOLEAN /\ live' \in SUBSET BindingSet
         /\ run' \in {"idle", "awaiting", "ended"} \cup Registering
         /\ at' = at /\ race' = race
         /\ completion' \in {"pending", "resolved", "rejected"}
         /\ consumers' \in SUBSET BindingSet /\ cancelling' \in SUBSET BindingSet
         /\ canceller' \in {"nobody", "failed", "abort", "hook", "blocked"}
         /\ stopping' \in BOOLEAN /\ crashed' \in BOOLEAN
<1>1. crashed' \in BOOLEAN
  BY DEF Lose
<1> QED
  BY <1>1 DEF ControlTypeOK, Lose, RejectRun

LEMMA TakeTagsTypes ==
  ASSUME ControlTypeOK, NEW who \in {"failed", "abort", "hook", "blocked"}, TakeTags(who)
  PROVE  /\ consumers' \in SUBSET BindingSet /\ cancelling' \in SUBSET BindingSet
         /\ canceller' \in {"nobody", "failed", "abort", "hook", "blocked"}
         /\ stopping' \in BOOLEAN
BY DEF ControlTypeOK, TakeTags

\* Every step of the adapter keeps the types of what it controls.
LEMMA NextTypes == ControlTypeOK /\ PcType /\ [Next]_vars => ControlTypeOK'
<1> SUFFICES ASSUME ControlTypeOK, PcType, [Next]_vars PROVE ControlTypeOK'
  OBVIOUS
<1>1. CASE Run \/ Registered \/ LateCancelled \/ RunEnds
  BY <1>1, BindingAt
  DEF Run, Registered, LateCancelled, RunEnds, Advance, ControlTypeOK, Registering
<1>2. ASSUME NEW d \in Deliveries, Proceed(d) PROVE ControlTypeOK'
  <2>1. CASE Resume(d) \/ Settle(d)
    BY <1>2, <2>1 DEF Resume, Settle, Ends, Schedule, ControlTypeOK
  <2>2. CASE Rethrow(d) \/ Throw(d)
    <3>1. crashed' \in BOOLEAN
      BY <2>2 DEF Rethrow, Throw, Fails, Unobserved, Pending
    <3> QED
      BY <2>2, <3>1 DEF Rethrow, Throw, Fails, Ends, RejectRun, ControlTypeOK
  <2>3. CASE Retry(d) \/ BufferDrains(d) \/ WaitForConfirms(d)
    BY <2>3 DEF Retry, BufferDrains, WaitForConfirms, ControlTypeOK
  <2>4. CASE AcknowledgeRetry(d)
    BY <2>4 DEF AcknowledgeRetry, Ends, ControlTypeOK
  <2>5. CASE Confirm(d)
    BY <2>5 DEF Confirm, ControlTypeOK
  <2>6. CASE Nack(d)
    BY <2>6 DEF Nack, ControlTypeOK
  <2> QED
    BY <1>2, <2>1, <2>2, <2>3, <2>4, <2>5, <2>6 DEF Proceed
<1>3. ASSUME NEW b \in BindingSet, Cancelled(b) PROVE ControlTypeOK'
  <2>1. completion' \in {"pending", "resolved", "rejected"} /\ crashed' \in BOOLEAN
    BY <1>3 DEF Cancelled, RejectRun, Unobserved, Pending, ControlTypeOK
  <2>2. drained' \in SUBSET Deliveries
        /\ hook' \in {"none", "stopping", "draining", "done", "failed"}
    BY <1>3 DEF Cancelled, Drain, ControlTypeOK
  <2> QED
    BY <1>3, <2>1, <2>2 DEF Cancelled, ControlTypeOK
<1>4. CASE Drained \/ DrainFails
  BY <1>4, LoseTypes DEF Drained, DrainFails, ControlTypeOK
<1>5. CASE Stop
  <2>1. completion' \in {"pending", "resolved", "rejected"}
    BY <1>5 DEF Stop, ResolveRun, ControlTypeOK
  <2>2. drained' \in SUBSET Deliveries
        /\ hook' \in {"none", "stopping", "draining", "done", "failed"}
    BY <1>5 DEF Stop, Drain, ControlTypeOK
  <2>3. TakeTags("hook") \/ TakeTags("abort")
    BY <1>5 DEF Stop
  <2> QED
    BY <1>5, <2>1, <2>2, <2>3, TakeTagsTypes DEF Stop, ControlTypeOK
<1>6. ASSUME NEW d \in Deliveries, Return(d) PROVE ControlTypeOK'
  BY <1>6 DEF Return, ControlTypeOK
<1>7. CASE ConnectionLost \/ ChannelLost \/ RetryChannelLost
  <2>0. Fault
    BY <1>7 DEF ConnectionLost, ChannelLost, RetryChannelLost
  <2>1. faults' \in 0..MaxFaults
    BY <2>0, ConsumerAssumption DEF Fault, ControlTypeOK, ConsumerAssumption
  <2>2. drained' = drained /\ hook' \in {"none", "stopping", "draining", "done", "failed"}
    BY <1>7 DEF ConnectionLost, ChannelLost, RetryChannelLost, StopRejects, ControlTypeOK
  <2> QED
    BY <1>7, <2>1, <2>2, LoseTypes
    DEF ConnectionLost, ChannelLost, RetryChannelLost, ControlTypeOK
<1>8. CASE Blocked
  <2>1. faults' \in 0..MaxFaults
    BY <1>8, ConsumerAssumption DEF Blocked, Fault, ControlTypeOK, ConsumerAssumption
  <2>2. completion' \in {"pending", "resolved", "rejected"} /\ crashed' \in BOOLEAN
    BY <1>8 DEF Blocked, RejectRun, Unobserved, Pending, ControlTypeOK
  <2> QED
    BY <1>8, <2>1, <2>2, TakeTagsTypes DEF Blocked, ControlTypeOK
<1>9. CASE Unblocked
  BY <1>9 DEF Unblocked, ControlTypeOK
<1>10. ASSUME NEW b \in BindingSet, Deliver(b) PROVE ControlTypeOK'
  <2>1. PICK d \in NextOf(b) :
          IF stopping THEN pc' = [pc EXCEPT ![d] = "ignored"] /\ UNCHANGED race ELSE Schedule(d)
    BY <1>10 DEF Deliver
  <2>2. race' \in [Deliveries -> SUBSET Deliveries]
    BY <2>1, NextOfIsReady DEF Schedule, ControlTypeOK
  <2> QED
    BY <1>10, <2>2 DEF Deliver, ControlTypeOK
<1>11. ASSUME NEW b \in BindingSet, BrokerCancels(b) PROVE ControlTypeOK'
  <2>1. faults' \in 0..MaxFaults
    BY <1>11, ConsumerAssumption DEF BrokerCancels, Fault, ControlTypeOK, ConsumerAssumption
  <2>2. completion' \in {"pending", "resolved", "rejected"} /\ crashed' \in BOOLEAN
    BY <1>11 DEF BrokerCancels, RejectRun, Unobserved, Pending, ControlTypeOK
  <2> QED
    BY <1>11, <2>1, <2>2 DEF BrokerCancels, ControlTypeOK
<1>12. CASE UNCHANGED vars
  BY <1>12 DEF vars, ControlTypeOK
<1> QED
  BY <1>1, <1>2, <1>3, <1>4, <1>5, <1>6, <1>7, <1>8, <1>9, <1>10, <1>11, <1>12
  DEF Next, Progress

\* A delivery acknowledged after its retry is backed by a publication of its
\* message that was confirmed and not returned, and no more deliveries run than
\* there are places, for any number of callers of the port: each acknowledgement
\* takes such a publication out of the array, and none is put there twice.
THEOREM RetriesAreBacked == Spec => []AcksAreSound
<1>1. Init => AckInv /\ ControlTypeOK
  <2> SUFFICES ASSUME Init PROVE AckInv /\ ControlTypeOK
    OBVIOUS
  <2>1. PortTypeOK
    BY DEF Init, PortInit, PortTypeOK
  <2>2. ControlTypeOK
    <3>1. 1 \in DOMAIN Bindings
      BY ConsumerAssumption DEF ConsumerAssumption
    <3>2. at \in DOMAIN Bindings
      BY <3>1 DEF Init
    <3>3. faults \in 0..MaxFaults
      BY ConsumerAssumption DEF Init, ConsumerAssumption
    <3> QED
      BY <3>2, <3>3 DEF Init, ControlTypeOK
  <2>3. PcType /\ NothingEarly
    BY DEF Init, PortInit, PcType, NothingEarly
  <2>4. At(Accepted) = {} /\ \A d \in Deliveries : Retried(d) = {} /\ Spent(d) = {}
    BY DEF Init, PortInit, Retried, Spent, Copies
  <2>5. Paid
    BY <2>4, FS_EmptySet DEF Paid
  <2>6. active <= Concurrency
    <3>1. active = Cardinality({})
      BY <2>4 DEF active
    <3> QED
      BY <3>1, FS_EmptySet, ConsumerAssumption DEF ConsumerAssumption
  <2> QED
    BY <2>1, <2>2, <2>3, <2>5, <2>6 DEF AckInv
<1>2. AckInv /\ ControlTypeOK /\ [Next]_vars => (AckInv /\ ControlTypeOK)'
  BY NextAcks, NextTypes DEF AckInv
<1>3. AckInv /\ ControlTypeOK => AcksAreSound
  <2> SUFFICES ASSUME AckInv, ControlTypeOK PROVE AcksAreSound
    OBVIOUS
  <2>1. TypeOK
    BY TypeParts DEF AckInv
  <2>2. ASSUME NEW d \in Deliveries
        PROVE  Cardinality(Retried(d)) <= Cardinality((Copies(d) \cap confirmed) \ returned)
    <3> DEFINE backed == (Copies(d) \cap confirmed) \ returned
    <3>1. Spent(d) \subseteq backed /\ backed \subseteq Deliveries /\ Retried(d) \subseteq Deliveries
      BY DEF Spent, Copies, Retried
    <3>2. IsFiniteSet(backed) /\ Cardinality(Retried(d)) \in Nat
      BY <3>1, DeliveriesAreFinite, SubsetSize
    <3> HIDE DEF backed
    <3>3. /\ Cardinality(Spent(d)) <= Cardinality(backed)
          /\ Cardinality(Spent(d)) \in Nat /\ Cardinality(backed) \in Nat
      BY <3>1, <3>2, SubsetSize
    <3>4. Cardinality(Retried(d)) <= Cardinality(Spent(d))
      BY DEF AckInv, Paid
    <3>5. Cardinality(Retried(d)) <= Cardinality(backed)
      BY <3>2, <3>3, <3>4
    <3> QED
      BY <3>5 DEF backed
  <2> QED
    BY <2>1, <2>2 DEF AcksAreSound, AcksAreBacked, Retried, Copies
<1> QED
  BY <1>1, <1>2, <1>3, PTL DEF Spec
=============================================================================
