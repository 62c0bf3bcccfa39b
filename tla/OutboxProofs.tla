---------------------------- MODULE OutboxProofs ----------------------------
(***************************************************************************)
(* Proofs about the outbox for every set of messages and publishers, every *)
(* retry limit and any number of crashes, overruns, lost confirms and      *)
(* replays.                                                                *)
(***************************************************************************)
EXTENDS Outbox, FiniteSetTheorems, TLAPS

-----------------------------------------------------------------------------
(* Type correctness *)

\* The initial outbox is well typed.
LEMMA InitTypeOK == Init => TypeOK
BY DEF Init, TypeOK, Statuses, Claim

\* Every step of every action keeps the outbox well typed.
LEMMA NextTypeOK == TypeOK /\ [Next]_vars => TypeOK'
<1> SUFFICES ASSUME TypeOK, [Next]_vars PROVE TypeOK'
  OBVIOUS
<1> USE DEF TypeOK, Statuses
<1>1. ASSUME NEW m \in Messages, NEW s \in Payloads, AppendEvent(m, s) PROVE TypeOK'
  BY <1>1 DEF AppendEvent, Store, IsDuplicate, table, loop, faults, replays
<1>2. ASSUME NEW p \in Publishers, NEW S \in SUBSET Messages, ClaimOutbox(p, S)
      PROVE TypeOK'
  <2>1. {[message |-> m, token |-> token[m] + 1, attempt |-> attempt[m] + 1] : m \in S}
          \in SUBSET Claim
    BY DEF Claim
  <2> QED BY <1>2, <2>1 DEF ClaimOutbox, faults, replays
<1>3. ASSUME NEW p \in Publishers, NEW c \in batch[p], PublishConfirmed(p, c)
      PROVE TypeOK'
  BY <1>3 DEF PublishConfirmed, table, faults, replays, Claim
<1>4. ASSUME NEW p \in Publishers, NEW c \in batch[p], PublishFailed(p, c)
      PROVE TypeOK'
  BY <1>4 DEF PublishFailed, table, faults, replays, Claim
<1>5. ASSUME NEW p \in Publishers, NEW c \in current[p], MarkPublished(p, c)
      PROVE TypeOK'
  BY <1>5 DEF MarkPublished, NextRow, Down, table, faults, replays, Claim
<1>6. ASSUME NEW p \in Publishers, NEW c \in current[p], MarkFailure(p, c)
      PROVE TypeOK'
  BY <1>6 DEF MarkFailure, NextRow, Down, table, faults, replays, Claim
<1>7. ASSUME NEW p \in Publishers, Restart(p) \/ Crash(p) PROVE TypeOK'
  BY <1>7 DEF Restart, Crash, Down, table, faults, replays
<1>8. ASSUME NEW m \in Messages, BackoffElapses(m) \/ LeaseElapses(m) \/ LeaseOverrun(m)
      PROVE TypeOK'
  BY <1>8 DEF BackoffElapses, LeaseElapses, LeaseOverrun, loop, faults, replays
<1>9. ASSUME NEW o \in Operators, NEW m \in Messages, RecordReplay(o, m) \/ ApplyReplay(o, m)
      PROVE TypeOK'
  BY <1>9 DEF RecordReplay, ApplyReplay, table, loop, faults, replays
<1>10. CASE UNCHANGED vars
  BY <1>10 DEF vars, table, loop, faults, replays
<1> QED
  BY <1>1, <1>2, <1>3, <1>4, <1>5, <1>6, <1>7, <1>8, <1>9, <1>10
     DEF Next, PublisherStep, OperatorStep

\* Rows, claims and publishers keep their types in every reachable state.
THEOREM TypeCorrect == Spec => []TypeOK
BY InitTypeOK, NextTypeOK, PTL DEF Spec
-----------------------------------------------------------------------------
(* The claim discipline and what follows from it *)

\* No step, of whatever publisher, lets two claims share a token or a current
\* claim disagree with its row.
LEMMA NextClaimDiscipline ==
  TypeOK /\ ClaimDiscipline /\ [Next]_vars => ClaimDiscipline'
<1> SUFFICES ASSUME TypeOK, ClaimDiscipline, [Next]_vars PROVE ClaimDiscipline'
  OBVIOUS
<1> USE DEF TypeOK, ClaimDiscipline
<1>1. ASSUME NEW m \in Messages, NEW s \in Payloads, AppendEvent(m, s)
      PROVE ClaimDiscipline'
  BY <1>1 DEF AppendEvent, Store, IsDuplicate, table, loop, Claim
<1>2. ASSUME NEW p \in Publishers, NEW S \in SUBSET Messages, ClaimOutbox(p, S)
      PROVE ClaimDiscipline'
  BY <1>2 DEF ClaimOutbox, Claim
<1>3. ASSUME NEW p \in Publishers, NEW c \in batch[p], PublishConfirmed(p, c)
      PROVE ClaimDiscipline'
  BY <1>3 DEF PublishConfirmed, table
<1>4. ASSUME NEW p \in Publishers, NEW c \in batch[p], PublishFailed(p, c)
      PROVE ClaimDiscipline'
  BY <1>4 DEF PublishFailed, table
<1>5. ASSUME NEW p \in Publishers, NEW c \in current[p], MarkPublished(p, c)
      PROVE ClaimDiscipline'
  BY <1>5 DEF MarkPublished, Owns, NextRow, Down, table, Claim
<1>6. ASSUME NEW p \in Publishers, NEW c \in current[p], MarkFailure(p, c)
      PROVE ClaimDiscipline'
  BY <1>6 DEF MarkFailure, Owns, NextRow, Down, table, Claim
<1>7. ASSUME NEW p \in Publishers, Restart(p) \/ Crash(p)
      PROVE ClaimDiscipline'
  BY <1>7 DEF Restart, Crash, Down, table
<1>8. ASSUME NEW m \in Messages, BackoffElapses(m) \/ LeaseElapses(m) \/ LeaseOverrun(m)
      PROVE ClaimDiscipline'
  BY <1>8 DEF BackoffElapses, LeaseElapses, LeaseOverrun, loop
<1>9. ASSUME NEW o \in Operators, NEW m \in Messages, RecordReplay(o, m) \/ ApplyReplay(o, m)
      PROVE ClaimDiscipline'
  BY <1>9 DEF RecordReplay, ApplyReplay, table, loop, Claim
<1>10. CASE UNCHANGED vars
  BY <1>10 DEF vars, table, loop
<1> QED
  BY <1>1, <1>2, <1>3, <1>4, <1>5, <1>6, <1>7, <1>8, <1>9, <1>10
     DEF Next, PublisherStep, OperatorStep

\* However claims, leases, crashes and restarts interleave, a claim that still
\* carries its row's token describes that row.
THEOREM ClaimsAreDisciplined == Spec => []ClaimDiscipline
<1>1. Init => ClaimDiscipline
  BY DEF Init, ClaimDiscipline
<1> QED BY <1>1, NextClaimDiscipline, TypeCorrect, PTL DEF Spec

\* No two publishers ever hold the same claim.
THEOREM OneOwner == Spec => []SingleOwner
<1>1. ClaimDiscipline => SingleOwner
  BY DEF ClaimDiscipline, SingleOwner
<1> QED BY <1>1, ClaimsAreDisciplined, PTL

-----------------------------------------------------------------------------
(* Delivery, retries and acknowledgements *)

\* A publisher past the confirm of a row has seen the broker take a copy.
ConfirmsAreReal ==
  \A p \in Publishers : pc[p] = "confirmed" => \A c \in current[p] : copies[c.message] > 0

\* A row that was never stored has no attempts.
NoEarlyAttempts == \A m \in Messages : status[m] = "absent" => attempt[m] = 0

DeliveryInv ==
  PublishedWasTaken /\ ConfirmsAreReal /\ RetryBudget /\ AckedIsStored /\ NoEarlyAttempts

\* One step cannot mark an unsent row published, exceed the retry budget or
\* lose an acknowledged row.
LEMMA NextDelivery ==
  TypeOK /\ ClaimDiscipline /\ DeliveryInv /\ [Next]_vars => DeliveryInv'
<1> SUFFICES ASSUME TypeOK, ClaimDiscipline, DeliveryInv, [Next]_vars PROVE DeliveryInv'
  OBVIOUS
<1> USE OutboxAssumption
    DEF TypeOK, DeliveryInv, PublishedWasTaken, ConfirmsAreReal, RetryBudget, AckedIsStored,
        NoEarlyAttempts
<1>1. ASSUME NEW m \in Messages, NEW s \in Payloads, AppendEvent(m, s)
      PROVE DeliveryInv'
  <2>1. PublishedWasTaken' /\ ConfirmsAreReal' /\ RetryBudget' /\ NoEarlyAttempts'
    BY <1>1 DEF AppendEvent, Store, table, loop, Claim
  <2>2. \A a \in acked' : a[1] \in Messages
    BY <1>1 DEF AppendEvent
  <2>3. status'[m] # "absent" /\ sha'[m] = {s}
    BY <1>1 DEF AppendEvent, Store, IsDuplicate, table
  <2>4. \A k \in Messages : status[k] # "absent" =>
          status'[k] # "absent" /\ sha'[k] = sha[k]
    BY <1>1 DEF AppendEvent, Store, IsDuplicate, table
  <2>5. \A a \in acked' : a \in acked \/ a = <<m, s>>
    BY <1>1 DEF AppendEvent
  <2>6. AckedIsStored'
    BY <2>2, <2>3, <2>4, <2>5
  <2> QED BY <2>1, <2>6
<1>2. ASSUME NEW p \in Publishers, NEW S \in SUBSET Messages, ClaimOutbox(p, S)
      PROVE DeliveryInv'
  BY <1>2 DEF ClaimOutbox, Claimable
<1>3. ASSUME NEW p \in Publishers, NEW c \in batch[p], PublishConfirmed(p, c)
      PROVE DeliveryInv'
  BY <1>3 DEF PublishConfirmed, table, Claim
<1>4. ASSUME NEW p \in Publishers, NEW c \in batch[p], PublishFailed(p, c)
      PROVE DeliveryInv'
  BY <1>4 DEF PublishFailed, table, Claim
<1>5. ASSUME NEW p \in Publishers, NEW c \in current[p], MarkPublished(p, c)
      PROVE DeliveryInv'
  BY <1>5 DEF MarkPublished, Owns, NextRow, Down, table, Claim
<1>6. ASSUME NEW p \in Publishers, NEW c \in current[p], MarkFailure(p, c)
      PROVE DeliveryInv'
  <2>1. Owns(c) => attempt[c.message] = c.attempt
    BY DEF ClaimDiscipline, Owns
  <2> QED BY <1>6, <2>1 DEF MarkFailure, Exhausted, Owns, NextRow, Down, table, Claim
<1>7. ASSUME NEW p \in Publishers, Restart(p) \/ Crash(p)
      PROVE DeliveryInv'
  BY <1>7 DEF Restart, Crash, Down, table
<1>8. ASSUME NEW m \in Messages, BackoffElapses(m) \/ LeaseElapses(m) \/ LeaseOverrun(m)
      PROVE DeliveryInv'
  BY <1>8 DEF BackoffElapses, LeaseElapses, LeaseOverrun, loop
<1>9. ASSUME NEW o \in Operators, NEW m \in Messages, RecordReplay(o, m) \/ ApplyReplay(o, m)
      PROVE DeliveryInv'
  BY <1>9 DEF RecordReplay, ApplyReplay, table, loop
<1>10. CASE UNCHANGED vars
  BY <1>10 DEF vars, table, loop
<1> QED
  BY <1>1, <1>2, <1>3, <1>4, <1>5, <1>6, <1>7, <1>8, <1>9, <1>10
     DEF Next, PublisherStep, OperatorStep

\* The delivery invariant holds in every reachable state.
LEMMA DeliveryHolds == Spec => []DeliveryInv
<1>1. Init => DeliveryInv
  BY OutboxAssumption DEF Init, DeliveryInv, PublishedWasTaken, ConfirmsAreReal,
                          RetryBudget, AckedIsStored, NoEarlyAttempts
<1> QED BY <1>1, NextDelivery, TypeCorrect, ClaimsAreDisciplined, PTL DEF Spec

\* No message is reported published that the broker never took.
THEOREM PublishedIsDelivered == Spec => []PublishedWasTaken
BY DeliveryHolds, PTL DEF DeliveryInv

\* A pending row always has attempts left, an isolated row never has.
THEOREM BudgetIsKept == Spec => []RetryBudget
BY DeliveryHolds, PTL DEF DeliveryInv

\* What appendEvent acknowledged stays stored with its fingerprint.
THEOREM AcknowledgedIsStored == Spec => []AckedIsStored
BY DeliveryHolds, PTL DEF DeliveryInv

-----------------------------------------------------------------------------
(* Copies and replays *)

\* A publisher works on one row of its batch at a time, a batch has one claim of a
\* message, and there is no batch between two polls.
BatchDiscipline ==
  \A p \in Publishers :
    /\ pc[p] \in {"idle", "down"} => batch[p] = {}
    /\ \A c \in current[p] : current[p] = {c}
    /\ \A c \in batch[p] : \A d \in batch[p] : c.message = d.message => c = d

\* Publishers that still hold, unsent, a claim of m whose lease ran out: each owes its
\* copy to an overrun.
Overdue(m) ==
  {p \in Publishers : \E c \in batch[p] \ current[p] :
     c.message = m /\ (c.token # token[m] \/ m \in lapsed)}

\* The one copy that needs no fault: taken under the claim in force, or published.
Accounted(m) ==
  \/ status[m] = "published"
  \/ m \notin lapsed /\ \E p \in Publishers :
       pc[p] = "confirmed" /\ \E c \in current[p] : c.message = m /\ c.token = token[m]

FaultCount == crashes + overruns + lost

\* The copies there are and the copies still to come are paid for.
CopiesArePaid(m) ==
  /\ IsFiniteSet(Overdue(m))
  /\ copies[m] + Cardinality(Overdue(m)) <= FaultCount + (IF Accounted(m) THEN 1 ELSE 0)

\* Every replay, made or under way, has its intent.
ReplaysArePaid(m) ==
  LET underWay == {o \in Operators : m \in replaying[o]} IN
    /\ IsFiniteSet(underWay)
    /\ replayed[m] + Cardinality(underWay) <= audited[m]

RepeatInv ==
  BatchDiscipline /\ (\A m \in Messages : CopiesArePaid(m)) /\ (\A m \in Messages : ReplaysArePaid(m))

\* The size of a set that may lose members, loses one, or gains one.
LEMMA SubsetSize ==
  ASSUME NEW S, IsFiniteSet(S), NEW T, T \subseteq S
  PROVE  /\ IsFiniteSet(T) /\ Cardinality(S) \in Nat /\ Cardinality(T) \in Nat
         /\ Cardinality(T) <= Cardinality(S)
BY FS_Subset, FS_CardinalityType

LEMMA LosesOne ==
  ASSUME NEW S, IsFiniteSet(S), NEW x \in S, NEW T, T \subseteq S \ {x}
  PROVE  /\ IsFiniteSet(T) /\ Cardinality(S) \in Nat /\ Cardinality(T) \in Nat
         /\ Cardinality(T) + 1 <= Cardinality(S)
<1>1. IsFiniteSet(S \ {x}) /\ Cardinality(S \ {x}) = Cardinality(S) - 1
  BY FS_RemoveElement
<1> QED
  BY <1>1, SubsetSize

LEMMA GainsOne ==
  ASSUME NEW S, IsFiniteSet(S), NEW x, NEW T, T \subseteq S \cup {x}
  PROVE  /\ IsFiniteSet(T) /\ Cardinality(S) \in Nat /\ Cardinality(T) \in Nat
         /\ Cardinality(T) <= Cardinality(S) + 1
<1>1. IsFiniteSet(S \cup {x}) /\ Cardinality(S) \in Nat
  BY FS_AddElement, FS_CardinalityType
<1>2. Cardinality(S \cup {x}) = IF x \in S THEN Cardinality(S) ELSE Cardinality(S) + 1
  BY FS_AddElement
<1>3. Cardinality(S \cup {x}) <= Cardinality(S) + 1
  BY <1>1, <1>2
<1> QED
  BY <1>1, <1>3, SubsetSize

LEMMA Counts ==
  /\ TypeOK => FaultCount \in Nat /\ \A m \in Messages : copies[m] \in Nat
  /\ TypeOK' => FaultCount' \in Nat
<1>1. TypeOK => FaultCount \in Nat /\ \A m \in Messages : copies[m] \in Nat
  BY DEF TypeOK, FaultCount
<1>2. TypeOK' => FaultCount' \in Nat
  <2>1. TypeOK' => crashes' \in Nat /\ overruns' \in Nat /\ lost' \in Nat
    BY DEF TypeOK
  <2> QED
    BY <2>1 DEF FaultCount
<1> QED
  BY <1>1, <1>2

\* Nothing more is to come and nothing that was accounted for is lost.
LEMMA PaidStays ==
  ASSUME TypeOK, TypeOK', NEW m \in Messages, CopiesArePaid(m),
         Overdue(m)' \subseteq Overdue(m), copies'[m] = copies[m],
         FaultCount <= FaultCount', Accounted(m) => Accounted(m)'
  PROVE  CopiesArePaid(m)'
<1>1. FaultCount \in Nat /\ FaultCount' \in Nat /\ copies[m] \in Nat
  BY Counts
<1> QED
  BY <1>1, SubsetSize DEF CopiesArePaid

\* A fault pays for a copy that came, that will come, or that no longer counts.
LEMMA FaultPays ==
  ASSUME TypeOK, TypeOK', NEW m \in Messages, CopiesArePaid(m), FaultCount' = FaultCount + 1,
         \/ /\ Overdue(m)' \subseteq Overdue(m)
            /\ copies'[m] = copies[m]
         \/ /\ Overdue(m)' \subseteq Overdue(m)
            /\ copies'[m] = copies[m] + 1
            /\ Accounted(m) => Accounted(m)'
         \/ /\ \E p : Overdue(m)' \subseteq Overdue(m) \cup {p}
            /\ copies'[m] = copies[m]
            /\ Accounted(m) => Accounted(m)'
  PROVE  CopiesArePaid(m)'
<1>1. FaultCount \in Nat /\ FaultCount' \in Nat /\ copies[m] \in Nat
  BY Counts
<1>2. CASE Overdue(m)' \subseteq Overdue(m)
  BY <1>1, <1>2, SubsetSize DEF CopiesArePaid
<1>3. ASSUME NEW p, Overdue(m)' \subseteq Overdue(m) \cup {p}, copies'[m] = copies[m],
             Accounted(m) => Accounted(m)'
      PROVE  CopiesArePaid(m)'
  <2>1. /\ IsFiniteSet(Overdue(m)') /\ Cardinality(Overdue(m)) \in Nat
        /\ Cardinality(Overdue(m)') \in Nat
        /\ Cardinality(Overdue(m)') <= Cardinality(Overdue(m)) + 1
    BY <1>3, GainsOne DEF CopiesArePaid
  <2> QED
    BY <1>1, <1>3, <2>1 DEF CopiesArePaid
<1> QED
  BY <1>2, <1>3

\* A step that touches no claim and no copy.
LEMMA RepeatsUntouched ==
  ASSUME TypeOK, TypeOK', RepeatInv,
         UNCHANGED <<token, lapsed, loop, copies, faults>>,
         \A m \in Messages : status[m] = "published" => status'[m] = "published",
         \A m \in Messages : ReplaysArePaid(m)'
  PROVE  RepeatInv'
<1>1. BatchDiscipline'
  BY DEF RepeatInv, BatchDiscipline, loop
<1>2. ASSUME NEW m \in Messages PROVE CopiesArePaid(m)'
  <2>1. Overdue(m)' = Overdue(m) /\ (Accounted(m) => Accounted(m)')
    BY DEF Overdue, Accounted, loop
  <2>2. FaultCount' = FaultCount /\ copies'[m] = copies[m]
    BY DEF FaultCount, faults
  <2> QED
    BY <2>1, <2>2, Counts, PaidStays DEF RepeatInv
<1> QED
  BY <1>1, <1>2 DEF RepeatInv

\* What the actions outside the manual replay leave alone.
LEMMA ReplaysUntouched ==
  ASSUME RepeatInv, UNCHANGED <<replaying, audited, replayed>>
  PROVE  \A m \in Messages : ReplaysArePaid(m)'
BY DEF RepeatInv, ReplaysArePaid

\* A claim makes what it takes over overdue for whoever held it, and it was already.
LEMMA ClaimRepeats ==
  ASSUME TypeOK, TypeOK', ClaimDiscipline, RepeatInv,
         NEW p \in Publishers, NEW S \in SUBSET Messages, ClaimOutbox(p, S)
  PROVE  RepeatInv'
<1>1. /\ batch' = [batch EXCEPT ![p] =
           {[message |-> m, token |-> token[m] + 1, attempt |-> attempt[m] + 1] : m \in S}]
      /\ pc' = [pc EXCEPT ![p] = "ready"] /\ pc[p] = "idle" /\ current' = current
      /\ token' = [m \in Messages |-> IF m \in S THEN token[m] + 1 ELSE token[m]]
      /\ lapsed' = lapsed \ S
  BY DEF ClaimOutbox
<1>2. batch[p] = {} /\ current[p] = {}
  BY <1>1 DEF RepeatInv, BatchDiscipline, ClaimDiscipline
<1>3. BatchDiscipline'
  BY <1>1, <1>2 DEF RepeatInv, BatchDiscipline, TypeOK
<1>4. ASSUME NEW m \in Messages PROVE CopiesArePaid(m)'
  <2>1. ASSUME NEW q \in Publishers, q \in Overdue(m)' PROVE q \in Overdue(m)
    <3>1. PICK c \in batch'[q] \ current'[q] :
            c.message = m /\ (c.token # token'[m] \/ m \in lapsed')
      BY <2>1 DEF Overdue
    <3>2. CASE q = p
      <4>1. PICK n \in S : c = [message |-> n, token |-> token[n] + 1, attempt |-> attempt[n] + 1]
        BY <1>1, <3>1, <3>2 DEF TypeOK
      <4> QED
        BY <1>1, <3>1, <4>1
    <3>3. CASE q # p
      <4>1. c \in batch[q] \ current[q] /\ c.message = m
        BY <1>1, <3>1, <3>3 DEF TypeOK
      <4>2. m \in S => c.token # token[m] \/ m \in lapsed
        BY <4>1 DEF ClaimOutbox, Claimable, ClaimDiscipline
      <4>3. m \notin S => c.token # token[m] \/ m \in lapsed
        BY <1>1, <3>1
      <4> QED
        BY <4>1, <4>2, <4>3 DEF Overdue
    <3> QED
      BY <3>2, <3>3
  <2>2. Accounted(m) => Accounted(m)'
    <3>1. CASE m \in S
      <4>1. status[m] = "pending" \/ m \in lapsed
        BY <3>1 DEF ClaimOutbox, Claimable
      <4>2. status[m] # "published"
        BY <3>1 DEF ClaimOutbox, Claimable
      <4>3. \A q \in Publishers : \A c \in current[q] :
              c.message = m /\ c.token = token[m] => status[m] = "publishing"
        BY DEF ClaimDiscipline
      <4> QED
        BY <4>1, <4>2, <4>3 DEF Accounted
    <3>2. CASE m \notin S
      <4>1. status'[m] = status[m] /\ token'[m] = token[m] /\ (m \in lapsed' <=> m \in lapsed)
        BY <1>1, <3>2 DEF ClaimOutbox
      <4>2. \A q \in Publishers : current'[q] # {} => pc'[q] = pc[q]
        BY <1>1, <1>2
      <4> QED
        BY <1>1, <4>1, <4>2 DEF Accounted
    <3> QED
      BY <3>1, <3>2
  <2>3. Overdue(m)' \subseteq Overdue(m)
    BY <2>1 DEF Overdue
  <2>4. copies'[m] = copies[m] /\ FaultCount' = FaultCount
    BY DEF ClaimOutbox, FaultCount, faults
  <2> QED
    BY <2>2, <2>3, <2>4, Counts, PaidStays DEF RepeatInv
<1>5. \A m \in Messages : ReplaysArePaid(m)'
  BY ReplaysUntouched DEF ClaimOutbox, replays
<1> QED
  BY <1>3, <1>4, <1>5 DEF RepeatInv

\* A publication ends: its claim, of the batch of p, becomes the current one.
LEMMA PublishRepeats ==
  ASSUME TypeOK, TypeOK', ClaimDiscipline, RepeatInv,
         NEW p \in Publishers, NEW c \in batch[p], pc[p] = "ready",
         NEW place \in {"confirmed", "failed"}, pc' = [pc EXCEPT ![p] = place],
         current' = [current EXCEPT ![p] = {c}],
         UNCHANGED <<table, batch, replaying, replays>>,
         UNCHANGED <<crashes, overruns>>,
         \/ copies' = copies /\ FaultCount' = FaultCount /\ place = "failed"
         \/ /\ copies' = [copies EXCEPT ![c.message] = @ + 1]
            /\ FaultCount' = IF place = "failed" THEN FaultCount + 1 ELSE FaultCount
  PROVE  RepeatInv'
<1>1. current[p] = {} /\ c.message \in Messages
  BY DEF ClaimDiscipline, TypeOK, Claim
<1>2. BatchDiscipline'
  BY DEF RepeatInv, BatchDiscipline, TypeOK
<1>3. \A q \in Publishers : q # p => pc'[q] = pc[q] /\ current'[q] = current[q]
  BY DEF TypeOK
<1>4. pc'[p] = place /\ current'[p] = {c}
  BY DEF TypeOK
<1>5. /\ token' = token /\ lapsed' = lapsed /\ status' = status /\ batch' = batch
  BY DEF table
<1>6. ASSUME NEW m \in Messages PROVE Overdue(m)' \subseteq Overdue(m)
  BY <1>1, <1>3, <1>4, <1>5 DEF Overdue
<1>7. ASSUME NEW m \in Messages PROVE Accounted(m) => Accounted(m)'
  <2>1. \A q \in Publishers : current[q] # {} => q # p
    BY <1>1
  <2> QED
    BY <1>3, <1>5, <2>1 DEF Accounted
<1>8. ASSUME NEW m \in Messages, m # c.message PROVE CopiesArePaid(m)'
  <2>1. copies'[m] = copies[m] /\ FaultCount <= FaultCount'
    BY <1>8, Counts DEF TypeOK
  <2> QED
    BY <1>6, <1>7, <2>1, PaidStays DEF RepeatInv
<1>9. CopiesArePaid(c.message)'
  <2> DEFINE m == c.message
  <2>1. \/ copies'[m] = copies[m] /\ FaultCount' = FaultCount
        \/ copies'[m] = copies[m] + 1 /\ FaultCount' = FaultCount + 1
        \/ copies'[m] = copies[m] + 1 /\ FaultCount' = FaultCount /\ place = "confirmed"
    <3>1. [copies EXCEPT ![m] = @ + 1][m] = copies[m] + 1
      BY <1>1 DEF TypeOK
    <3>2. CASE copies' = copies /\ FaultCount' = FaultCount
      BY <3>2
    <3>3. CASE /\ copies' = [copies EXCEPT ![m] = @ + 1]
               /\ FaultCount' = IF place = "failed" THEN FaultCount + 1 ELSE FaultCount
      BY <3>1, <3>3
    <3> QED
      BY <3>2, <3>3
  <2>2. CASE copies'[m] = copies[m] /\ FaultCount' = FaultCount
    BY <1>1, <1>6, <1>7, <2>2, Counts, PaidStays DEF RepeatInv
  <2>3. CASE copies'[m] = copies[m] + 1 /\ FaultCount' = FaultCount + 1
    BY <1>1, <1>6, <1>7, <2>3, FaultPays DEF RepeatInv
  <2>4. CASE copies'[m] = copies[m] + 1 /\ FaultCount' = FaultCount /\ place = "confirmed"
    <3>1. CASE p \in Overdue(m)
      <4>1. Overdue(m)' \subseteq Overdue(m) \ {p}
        <5>1. p \notin Overdue(m)'
          <6>1. \A d \in batch'[p] \ current'[p] : d.message # m
            BY <1>4, <1>5 DEF RepeatInv, BatchDiscipline
          <6> QED
            BY <6>1 DEF Overdue
        <5> QED
          BY <1>1, <1>6, <5>1
      <4>2. /\ IsFiniteSet(Overdue(m)') /\ Cardinality(Overdue(m)) \in Nat
            /\ Cardinality(Overdue(m)') \in Nat
            /\ Cardinality(Overdue(m)') + 1 <= Cardinality(Overdue(m))
        BY <1>1, <3>1, <4>1, LosesOne DEF RepeatInv, CopiesArePaid
      <4> QED
        BY <1>1, <1>7, <2>4, <4>2, Counts DEF RepeatInv, CopiesArePaid
    <3>2. CASE p \notin Overdue(m)
      <4>1. c.token = token[m] /\ m \notin lapsed
        BY <1>1, <3>2 DEF Overdue
      <4>2. Accounted(m)'
        BY <1>4, <1>5, <2>4, <4>1 DEF Accounted
      <4>3. ~Accounted(m)
        <5>1. status[m] = "publishing"
          BY <4>1 DEF ClaimDiscipline
        <5>2. ASSUME NEW q \in Publishers, NEW d \in current[q], d.message = m, d.token = token[m]
              PROVE  FALSE
          BY <1>1, <4>1, <5>2 DEF ClaimDiscipline
        <5> QED
          BY <5>1, <5>2 DEF Accounted
      <4>4. /\ IsFiniteSet(Overdue(m)') /\ Cardinality(Overdue(m)) \in Nat
            /\ Cardinality(Overdue(m)') \in Nat
            /\ Cardinality(Overdue(m)') <= Cardinality(Overdue(m))
        BY <1>1, <1>6, SubsetSize DEF RepeatInv, CopiesArePaid
      <4> QED
        BY <1>1, <2>4, <4>2, <4>3, <4>4, Counts DEF RepeatInv, CopiesArePaid
    <3> QED
      BY <3>1, <3>2
  <2> QED
    BY <2>1, <2>2, <2>3, <2>4
<1>10. \A m \in Messages : ReplaysArePaid(m)'
  BY ReplaysUntouched DEF replays
<1> QED
  BY <1>2, <1>8, <1>9, <1>10 DEF RepeatInv

\* A publisher leaves the row it is at, marked as it owns it or left to its lease, or the
\* whole of its batch.
LEMMA LeavingRepeats ==
  ASSUME TypeOK, TypeOK', ClaimDiscipline, RepeatInv, NEW p \in Publishers, Down(p),
         UNCHANGED <<table, replaying, copies, replays>>,
         \/ FaultCount' = FaultCount + 1
         \/ /\ FaultCount' = FaultCount
            /\ \E c \in current[p] : c.token # token[c.message]
  PROVE  RepeatInv'
<1>1. /\ batch' = [batch EXCEPT ![p] = {}] /\ current' = [current EXCEPT ![p] = {}]
      /\ pc' = [pc EXCEPT ![p] = "down"]
      /\ token' = token /\ lapsed' = lapsed /\ status' = status
  BY DEF Down, table
<1>2. BatchDiscipline'
  BY <1>1 DEF RepeatInv, BatchDiscipline, TypeOK
<1>3. ASSUME NEW m \in Messages PROVE CopiesArePaid(m)'
  <2>1. Overdue(m)' \subseteq Overdue(m)
    BY <1>1 DEF Overdue, TypeOK
  <2>2. CASE FaultCount' = FaultCount + 1
    BY <2>1, <2>2, FaultPays DEF RepeatInv
  <2>3. ASSUME NEW c \in current[p], c.token # token[c.message], FaultCount' = FaultCount
        PROVE  CopiesArePaid(m)'
    <3>1. \A d \in current[p] : d = c
      BY DEF RepeatInv, BatchDiscipline
    <3>2. Accounted(m) => Accounted(m)'
      BY <1>1, <2>3, <3>1 DEF Accounted, TypeOK
    <3> QED
      BY <2>1, <2>3, <3>2, Counts, PaidStays DEF RepeatInv
  <2> QED
    BY <2>2, <2>3
<1>4. \A m \in Messages : ReplaysArePaid(m)'
  BY ReplaysUntouched DEF replays
<1> QED
  BY <1>2, <1>3, <1>4 DEF RepeatInv

LEMMA MarkRepeats ==
  ASSUME TypeOK, TypeOK', ClaimDiscipline, RepeatInv,
         NEW p \in Publishers, NEW c \in current[p], Owns(c), NextRow(p, c),
         NEW mark \in {"published", "isolated", "pending"},
         mark # "published" => pc[p] # "confirmed",
         status' = [status EXCEPT ![c.message] = mark], lapsed' = lapsed \ {c.message},
         UNCHANGED <<token, replaying, copies, replays, faults>>
  PROVE  RepeatInv'
<1>1. /\ c \in batch[p] /\ c.message \in Messages /\ current[p] = {c}
      /\ status[c.message] = "publishing" /\ c.token = token[c.message]
  BY DEF ClaimDiscipline, RepeatInv, BatchDiscipline, Owns, TypeOK, Claim
<1>2. /\ batch' = [batch EXCEPT ![p] = batch[p] \ {c}]
      /\ current' = [current EXCEPT ![p] = {}]
      /\ pc' = [pc EXCEPT ![p] = IF batch[p] = {c} THEN "idle" ELSE "ready"]
  BY DEF NextRow
<1>3. BatchDiscipline'
  BY <1>2 DEF RepeatInv, BatchDiscipline, TypeOK
<1>4. \A q \in Publishers : \A d \in batch[q] :
        d.message = c.message /\ d.token = c.token => q = p /\ d = c
  BY <1>1 DEF ClaimDiscipline
<1>5. ASSUME NEW m \in Messages PROVE CopiesArePaid(m)'
  <2>1. ASSUME NEW q \in Publishers, q \in Overdue(m)' PROVE q \in Overdue(m)
    <3>1. PICK d \in batch'[q] \ current'[q] :
            d.message = m /\ (d.token # token[m] \/ m \in lapsed')
      BY <2>1 DEF Overdue
    <3>2. d \in batch[q] \ current[q]
      BY <1>1, <1>2, <3>1 DEF TypeOK
    <3> QED
      BY <3>1, <3>2 DEF Overdue
  <2>2. Overdue(m)' \subseteq Overdue(m)
    BY <2>1 DEF Overdue
  <2>3. Accounted(m) => Accounted(m)'
    <3>1. CASE m = c.message
      <4>1. status'[m] = mark
        BY <1>1, <3>1 DEF TypeOK
      <4>2. mark # "published" => ~Accounted(m)
        <5>1. ASSUME NEW q \in Publishers, pc[q] = "confirmed", NEW d \in current[q],
                     d.message = m, d.token = token[m]
              PROVE  q = p
          BY <1>1, <1>4, <3>1, <5>1 DEF ClaimDiscipline
        <5> QED
          BY <1>1, <3>1, <5>1 DEF Accounted
      <4> QED
        BY <4>1, <4>2 DEF Accounted
    <3>2. CASE m # c.message
      <4>1. status'[m] = status[m] /\ (m \in lapsed' <=> m \in lapsed)
        BY <3>2 DEF TypeOK
      <4>2. \A q \in Publishers : q # p => pc'[q] = pc[q] /\ current'[q] = current[q]
        BY <1>2 DEF TypeOK
      <4>3. \A d \in current[p] : d.message # m
        BY <1>1, <3>2
      <4> QED
        BY <4>1, <4>2, <4>3 DEF Accounted
    <3> QED
      BY <3>1, <3>2
  <2>4. FaultCount' = FaultCount
    BY DEF FaultCount, faults
  <2> QED
    BY <2>2, <2>3, <2>4, Counts, PaidStays DEF RepeatInv
<1>6. \A m \in Messages : ReplaysArePaid(m)'
  BY ReplaysUntouched DEF replays
<1> QED
  BY <1>3, <1>5, <1>6 DEF RepeatInv

\* A lease that runs out makes at most its one holder overdue, and that costs an overrun.
LEMMA LeaseRepeats ==
  ASSUME TypeOK, TypeOK', ClaimDiscipline, RepeatInv, NEW m \in Messages,
         LeaseElapses(m) \/ LeaseOverrun(m)
  PROVE  RepeatInv'
<1>1. /\ lapsed' = lapsed \cup {m} /\ status[m] = "publishing"
      /\ UNCHANGED <<status, token, batch, current, pc, copies>>
  BY DEF LeaseElapses, LeaseOverrun, loop
<1>2. BatchDiscipline'
  BY <1>1 DEF RepeatInv, BatchDiscipline
<1>3. ASSUME NEW n \in Messages, n # m PROVE CopiesArePaid(n)'
  <2>1. Overdue(n)' \subseteq Overdue(n) /\ (Accounted(n) => Accounted(n)')
    BY <1>1, <1>3 DEF Overdue, Accounted
  <2>2. copies'[n] = copies[n] /\ FaultCount <= FaultCount'
    <3>1. LeaseElapses(m) => FaultCount' = FaultCount
      BY DEF LeaseElapses, FaultCount, faults
    <3>2. LeaseOverrun(m) => FaultCount' = FaultCount + 1
      BY DEF LeaseOverrun, FaultCount, TypeOK
    <3> QED
      BY <1>1, <3>1, <3>2, Counts
  <2> QED
    BY <2>1, <2>2, PaidStays DEF RepeatInv
<1>4. CASE LeaseElapses(m)
  <2>1. \A p \in Publishers : \A c \in batch[p] : c.message = m => c.token # token[m]
    BY <1>4 DEF LeaseElapses, Held
  <2>2. Overdue(m)' \subseteq Overdue(m)
    BY <1>1, <2>1 DEF Overdue
  <2>3. ~Accounted(m)
    BY <1>1, <2>1 DEF Accounted, ClaimDiscipline
  <2>4. CopiesArePaid(m)'
    <3>1. copies'[m] = copies[m] /\ FaultCount' = FaultCount
      BY <1>1, <1>4 DEF LeaseElapses, FaultCount, faults
    <3> QED
      BY <2>2, <2>3, <3>1, Counts, PaidStays DEF RepeatInv
  <2>5. \A n \in Messages : ReplaysArePaid(n)'
    BY <1>4, ReplaysUntouched DEF LeaseElapses, replays
  <2> QED
    BY <1>2, <1>3, <2>4, <2>5 DEF RepeatInv
<1>5. CASE LeaseOverrun(m)
  <2>0. PICK p \in Publishers : \E c \in batch[p] : c.message = m /\ c.token = token[m]
    BY <1>5 DEF LeaseOverrun, Held
  <2>1. PICK c \in batch[p] : c.message = m /\ c.token = token[m]
    BY <2>0
  <2>2. \A q \in Publishers : \A d \in batch[q] :
          d.message = m /\ d.token = token[m] => q = p /\ d = c
    BY <2>1 DEF ClaimDiscipline
  <2>3. copies'[m] = copies[m] /\ FaultCount' = FaultCount + 1
    BY <1>1, <1>5 DEF LeaseOverrun, FaultCount, TypeOK
  <2>4. CopiesArePaid(m)'
    <3>1. CASE c \in current[p]
      <4>1. Overdue(m)' \subseteq Overdue(m)
        BY <1>1, <2>2, <3>1 DEF Overdue
      <4> QED
        BY <2>3, <4>1, FaultPays DEF RepeatInv
    <3>2. CASE c \notin current[p]
      <4>1. Overdue(m)' \subseteq Overdue(m) \cup {p}
        BY <1>1, <2>2 DEF Overdue
      <4>2. ~Accounted(m)
        BY <1>1, <2>2, <3>2 DEF Accounted, ClaimDiscipline
      <4> QED
        BY <2>3, <4>1, <4>2, FaultPays DEF RepeatInv
    <3> QED
      BY <3>1, <3>2
  <2>5. \A n \in Messages : ReplaysArePaid(n)'
    BY <1>5, ReplaysUntouched DEF LeaseOverrun, replays
  <2> QED
    BY <1>2, <1>3, <2>4, <2>5 DEF RepeatInv
<1> QED
  BY <1>4, <1>5

\* An operator's replay uses up the intent it recorded.
LEMMA ReplayRepeats ==
  ASSUME TypeOK, TypeOK', RepeatInv, NEW o \in Operators, NEW m \in Messages,
         RecordReplay(o, m) \/ ApplyReplay(o, m)
  PROVE  RepeatInv'
<1> DEFINE underWay(n) == {x \in Operators : n \in replaying[x]}
           underWay2(n) == {x \in Operators : n \in replaying'[x]}
<1>1. /\ UNCHANGED <<token, lapsed, loop, copies, faults>>
      /\ \A n \in Messages : status[n] = "published" => status'[n] = "published"
  BY DEF RecordReplay, ApplyReplay, table, TypeOK
<1>2. ASSUME NEW n \in Messages
      PROVE  /\ IsFiniteSet(underWay(n)) /\ Cardinality(underWay(n)) \in Nat
             /\ replayed[n] + Cardinality(underWay(n)) <= audited[n]
             /\ replayed[n] \in Nat /\ audited[n] \in Nat
  BY FS_CardinalityType DEF RepeatInv, ReplaysArePaid, TypeOK
<1>3. ASSUME NEW n \in Messages
      PROVE  IsFiniteSet(underWay2(n)) /\ replayed'[n] + Cardinality(underWay2(n)) <= audited'[n]
  <2>1. CASE RecordReplay(o, m)
    <3>1. CASE n = m
      <4>1. underWay2(n) \subseteq underWay(n) \cup {o}
        BY <2>1 DEF RecordReplay, TypeOK
      <4>2. audited'[n] = audited[n] + 1 /\ replayed'[n] = replayed[n]
        BY <2>1, <3>1 DEF RecordReplay, TypeOK
      <4>3. /\ IsFiniteSet(underWay2(n)) /\ Cardinality(underWay2(n)) \in Nat
            /\ Cardinality(underWay2(n)) <= Cardinality(underWay(n)) + 1
        BY <1>2, <4>1, GainsOne
      <4> HIDE DEF underWay, underWay2
      <4> QED
        BY <1>2, <4>2, <4>3
    <3>2. CASE n # m
      <4>1. underWay2(n) \subseteq underWay(n)
        BY <2>1, <3>2 DEF RecordReplay, TypeOK
      <4>2. audited'[n] = audited[n] /\ replayed'[n] = replayed[n]
        BY <2>1, <3>2 DEF RecordReplay, TypeOK
      <4>3. /\ IsFiniteSet(underWay2(n)) /\ Cardinality(underWay2(n)) \in Nat
            /\ Cardinality(underWay2(n)) <= Cardinality(underWay(n))
        BY <1>2, <4>1, SubsetSize
      <4> HIDE DEF underWay, underWay2
      <4> QED
        BY <1>2, <4>2, <4>3
    <3> QED
      BY <3>1, <3>2
  <2>2. CASE ApplyReplay(o, m)
    <3>1. CASE n = m
      <4>1. o \in underWay(n) /\ underWay2(n) \subseteq underWay(n) \ {o}
        BY <2>2, <3>1 DEF ApplyReplay, TypeOK
      <4>2. audited'[n] = audited[n] /\ replayed'[n] \in {replayed[n], replayed[n] + 1}
        BY <2>2, <3>1 DEF ApplyReplay, TypeOK
      <4>3. /\ IsFiniteSet(underWay2(n)) /\ Cardinality(underWay2(n)) \in Nat
            /\ Cardinality(underWay2(n)) + 1 <= Cardinality(underWay(n))
        BY <1>2, <4>1, LosesOne
      <4> HIDE DEF underWay, underWay2
      <4> QED
        BY <1>2, <4>2, <4>3
    <3>2. CASE n # m
      <4>1. underWay2(n) \subseteq underWay(n)
        BY <2>2, <3>2 DEF ApplyReplay, TypeOK
      <4>2. audited'[n] = audited[n] /\ replayed'[n] = replayed[n]
        BY <2>2, <3>2 DEF ApplyReplay, TypeOK
      <4>3. /\ IsFiniteSet(underWay2(n)) /\ Cardinality(underWay2(n)) \in Nat
            /\ Cardinality(underWay2(n)) <= Cardinality(underWay(n))
        BY <1>2, <4>1, SubsetSize
      <4> HIDE DEF underWay, underWay2
      <4> QED
        BY <1>2, <4>2, <4>3
    <3> QED
      BY <3>1, <3>2
  <2> QED
    BY <2>1, <2>2
<1>4. \A n \in Messages : ReplaysArePaid(n)'
  BY <1>3 DEF ReplaysArePaid
<1> QED
  BY <1>1, <1>4, RepeatsUntouched

\* One step neither makes a copy nor replays a row that nothing on record pays for.
LEMMA NextRepeats ==
  TypeOK /\ TypeOK' /\ ClaimDiscipline /\ RepeatInv /\ [Next]_vars => RepeatInv'
<1> SUFFICES ASSUME TypeOK, TypeOK', ClaimDiscipline, RepeatInv, [Next]_vars PROVE RepeatInv'
  OBVIOUS
<1>1. ASSUME NEW m \in Messages, NEW s \in Payloads, AppendEvent(m, s) PROVE RepeatInv'
  <2>1. /\ UNCHANGED <<token, lapsed, loop, copies, faults, replaying, audited, replayed>>
        /\ \A n \in Messages : status[n] = "published" => status'[n] = "published"
    BY <1>1 DEF AppendEvent, Store, table, replays, TypeOK
  <2> QED
    BY <2>1, ReplaysUntouched, RepeatsUntouched
<1>2. ASSUME NEW p \in Publishers, NEW S \in SUBSET Messages, ClaimOutbox(p, S)
      PROVE  RepeatInv'
  BY <1>2, ClaimRepeats
<1>3. ASSUME NEW p \in Publishers, NEW c \in batch[p], PublishConfirmed(p, c)
      PROVE  RepeatInv'
  <2>1. FaultCount' = FaultCount
    BY <1>3 DEF PublishConfirmed, FaultCount, faults
  <2> QED
    BY <1>3, <2>1, PublishRepeats DEF PublishConfirmed, faults
<1>4. ASSUME NEW p \in Publishers, NEW c \in batch[p], PublishFailed(p, c)
      PROVE  RepeatInv'
  <2>1. \/ copies' = copies /\ FaultCount' = FaultCount
        \/ /\ copies' = [copies EXCEPT ![c.message] = @ + 1]
           /\ FaultCount' = FaultCount + 1
    <3>1. crashes' = crashes /\ overruns' = overruns
      BY <1>4 DEF PublishFailed
    <3>2. \/ copies' = copies /\ lost' = lost
          \/ copies' = [copies EXCEPT ![c.message] = @ + 1] /\ lost' = lost + 1
      BY <1>4 DEF PublishFailed
    <3>3. lost' = lost => FaultCount' = FaultCount
      BY <3>1 DEF FaultCount
    <3>4. lost' = lost + 1 => FaultCount' = FaultCount + 1
      BY <3>1 DEF FaultCount, TypeOK
    <3> QED
      BY <3>2, <3>3, <3>4
  <2> QED
    BY <1>4, <2>1, PublishRepeats DEF PublishFailed
<1>5. ASSUME NEW p \in Publishers, NEW c \in current[p], MarkPublished(p, c) PROVE RepeatInv'
  <2>1. CASE Owns(c)
    BY <1>5, <2>1, MarkRepeats DEF MarkPublished
  <2>2. CASE ~Owns(c)
    <3>1. c.token # token[c.message]
      BY <2>2 DEF Owns, ClaimDiscipline
    <3>2. FaultCount' = FaultCount
      BY <1>5 DEF MarkPublished, FaultCount, faults
    <3> QED
      BY <1>5, <2>2, <3>1, <3>2, LeavingRepeats DEF MarkPublished
  <2> QED
    BY <2>1, <2>2
<1>6. ASSUME NEW p \in Publishers, NEW c \in current[p], MarkFailure(p, c) PROVE RepeatInv'
  <2>1. CASE Owns(c)
    BY <1>6, <2>1, MarkRepeats DEF MarkFailure
  <2>2. CASE ~Owns(c)
    <3>1. c.token # token[c.message]
      BY <2>2 DEF Owns, ClaimDiscipline
    <3>2. FaultCount' = FaultCount
      BY <1>6 DEF MarkFailure, FaultCount, faults
    <3> QED
      BY <1>6, <2>2, <3>1, <3>2, LeavingRepeats DEF MarkFailure
  <2> QED
    BY <2>1, <2>2
<1>7. ASSUME NEW p \in Publishers, Crash(p) PROVE RepeatInv'
  <2>1. FaultCount' = FaultCount + 1
    BY <1>7 DEF Crash, FaultCount, TypeOK
  <2> QED
    BY <1>7, <2>1, LeavingRepeats DEF Crash
<1>8. ASSUME NEW p \in Publishers, Restart(p) PROVE RepeatInv'
  <2>1. /\ pc' = [pc EXCEPT ![p] = "idle"] /\ pc[p] = "down"
        /\ UNCHANGED <<table, batch, current, replaying, copies, replays, faults>>
    BY <1>8 DEF Restart
  <2>2. BatchDiscipline'
    BY <2>1 DEF RepeatInv, BatchDiscipline, TypeOK
  <2>3. ASSUME NEW m \in Messages PROVE CopiesArePaid(m)'
    <3>1. Overdue(m)' \subseteq Overdue(m) /\ (Accounted(m) => Accounted(m)')
      BY <2>1 DEF Overdue, Accounted, table, TypeOK
    <3>2. FaultCount' = FaultCount /\ copies'[m] = copies[m]
      BY <2>1 DEF FaultCount, faults
    <3> QED
      BY <3>1, <3>2, Counts, PaidStays DEF RepeatInv
  <2>4. \A m \in Messages : ReplaysArePaid(m)'
    BY <2>1, ReplaysUntouched DEF replays
  <2> QED
    BY <2>2, <2>3, <2>4 DEF RepeatInv
<1>9. ASSUME NEW m \in Messages, BackoffElapses(m) PROVE RepeatInv'
  <2>1. /\ UNCHANGED <<token, lapsed, loop, copies, faults, replaying, audited, replayed>>
        /\ status' = status
    BY <1>9 DEF BackoffElapses, replays
  <2> QED
    BY <2>1, ReplaysUntouched, RepeatsUntouched
<1>10. ASSUME NEW m \in Messages, LeaseElapses(m) \/ LeaseOverrun(m) PROVE RepeatInv'
  BY <1>10, LeaseRepeats
<1>11. ASSUME NEW o \in Operators, NEW m \in Messages, RecordReplay(o, m) \/ ApplyReplay(o, m)
       PROVE  RepeatInv'
  BY <1>11, ReplayRepeats
<1>12. CASE UNCHANGED vars
  BY <1>12, ReplaysUntouched, RepeatsUntouched DEF vars, table, replays
<1> QED
  BY <1>1, <1>2, <1>3, <1>4, <1>5, <1>6, <1>7, <1>8, <1>9, <1>10, <1>11, <1>12
     DEF Next, PublisherStep, OperatorStep

\* Every copy of a message beyond the first is paid for by a crash, an overrun or a lost
\* confirm, and every replay by an intent, with any number of publishers that race for
\* the rows and whatever batches they abandon (publisher.ts, postgres-store.ts).
THEOREM RepeatsStayOwed == Spec => []RepeatsAreOwed
<1>1. Init => RepeatInv
  <2>1. Init => BatchDiscipline
    BY DEF Init, BatchDiscipline
  <2>2. Init => \A m \in Messages : CopiesArePaid(m)
    <3> SUFFICES ASSUME Init, NEW m \in Messages PROVE CopiesArePaid(m)
      OBVIOUS
    <3>1. Overdue(m) = {}
      BY DEF Init, Overdue
    <3>2. copies[m] = 0 /\ FaultCount = 0
      BY DEF Init, FaultCount
    <3> QED
      BY <3>1, <3>2, FS_EmptySet DEF CopiesArePaid
  <2>3. Init => \A m \in Messages : ReplaysArePaid(m)
    <3> SUFFICES ASSUME Init, NEW m \in Messages PROVE ReplaysArePaid(m)
      OBVIOUS
    <3>1. {o \in Operators : m \in replaying[o]} = {}
      BY DEF Init
    <3>2. replayed[m] = 0 /\ audited[m] = 0
      BY DEF Init
    <3> DEFINE underWay == {o \in Operators : m \in replaying[o]}
    <3>3. IsFiniteSet(underWay) /\ Cardinality(underWay) = 0
      BY <3>1, FS_EmptySet
    <3>4. replayed[m] + Cardinality(underWay) <= audited[m]
      <4> HIDE DEF underWay
      <4> QED
        BY <3>2, <3>3
    <3> QED
      BY <3>3, <3>4 DEF ReplaysArePaid
  <2> QED
    BY <2>1, <2>2, <2>3 DEF RepeatInv
<1>2. TypeOK /\ RepeatInv => RepeatsAreOwed
  <2> SUFFICES ASSUME TypeOK, RepeatInv, NEW m \in Messages
               PROVE  copies[m] <= 1 + crashes + overruns + lost /\ replayed[m] <= audited[m]
    BY DEF RepeatsAreOwed, DuplicatesAccountedFor, ReplaysWereAudited
  <2>1. copies[m] <= 1 + FaultCount
    BY Counts, FS_CardinalityType DEF RepeatInv, CopiesArePaid
  <2>2. 1 + FaultCount = 1 + crashes + overruns + lost
    BY DEF FaultCount, TypeOK
  <2>3. replayed[m] <= audited[m]
    <3> DEFINE underWay == {o \in Operators : m \in replaying[o]}
    <3>1. Cardinality(underWay) \in Nat /\ replayed[m] + Cardinality(underWay) <= audited[m]
      BY FS_CardinalityType DEF RepeatInv, ReplaysArePaid
    <3> HIDE DEF underWay
    <3> QED
      BY <3>1 DEF TypeOK
  <2> QED
    BY <2>1, <2>2, <2>3
<1> QED
  BY <1>1, <1>2, NextRepeats, TypeCorrect, ClaimsAreDisciplined, PTL DEF Spec

-----------------------------------------------------------------------------
(* The promise *)

\* Every step of the detailed outbox is a step of ReliableOutbox or invisible.
LEMMA NextPromise ==
  TypeOK /\ ClaimDiscipline /\ DeliveryInv /\ [Next]_vars
    => [Promise!Next]_(Promise!vars)
<1> SUFFICES ASSUME TypeOK, ClaimDiscipline, DeliveryInv, [Next]_vars
             PROVE  [Promise!Next]_(Promise!vars)
  OBVIOUS
<1> USE DEF TypeOK, Statuses, Stage, Promise!vars
<1>1. ASSUME NEW m \in Messages, NEW s \in Payloads, AppendEvent(m, s)
      PROVE Promise!Store(m) \/ UNCHANGED Promise!vars
  BY <1>1 DEF AppendEvent, Store, table, Promise!Store
<1>2. ASSUME NEW p \in Publishers, NEW S \in SUBSET Messages, ClaimOutbox(p, S)
      PROVE UNCHANGED Promise!vars
  BY <1>2 DEF ClaimOutbox, Claimable
<1>3. ASSUME NEW p \in Publishers, NEW c \in batch[p],
             PublishConfirmed(p, c) \/ PublishFailed(p, c)
      PROVE Promise!Take(c.message) \/ UNCHANGED Promise!vars
  BY <1>3 DEF PublishConfirmed, PublishFailed, ClaimDiscipline, table, Claim, Promise!Take
<1>5. ASSUME NEW p \in Publishers, NEW c \in current[p], MarkPublished(p, c)
      PROVE Promise!Publish(c.message) \/ UNCHANGED Promise!vars
  BY <1>5 DEF MarkPublished, Owns, table, Claim, DeliveryInv, ConfirmsAreReal,
              Promise!Publish
<1>6. ASSUME NEW p \in Publishers, NEW c \in current[p], MarkFailure(p, c)
      PROVE Promise!Isolate(c.message) \/ UNCHANGED Promise!vars
  BY <1>6 DEF MarkFailure, Owns, table, Claim, Promise!Isolate
<1>7. ASSUME NEW p \in Publishers, Restart(p) \/ Crash(p)
      PROVE UNCHANGED Promise!vars
  BY <1>7 DEF Restart, Crash, table
<1>8. ASSUME NEW m \in Messages, BackoffElapses(m) \/ LeaseElapses(m) \/ LeaseOverrun(m)
      PROVE UNCHANGED Promise!vars
  BY <1>8 DEF BackoffElapses, LeaseElapses, LeaseOverrun
<1>9. ASSUME NEW o \in Operators, NEW m \in Messages, RecordReplay(o, m) \/ ApplyReplay(o, m)
      PROVE Promise!Requeue(m) \/ UNCHANGED Promise!vars
  BY <1>9 DEF RecordReplay, ApplyReplay, table, Promise!Requeue
<1>10. CASE UNCHANGED vars
  BY <1>10 DEF vars, table
<1> QED
  BY <1>1, <1>2, <1>3, <1>5, <1>6, <1>7, <1>8, <1>9, <1>10
     DEF Next, PublisherStep, OperatorStep, Promise!Next, Claim

\* The outbox with claims, leases, crashes, retries and replays implements the
\* outbox that has none of them.
THEOREM ImplementsPromise == Spec => KeepsPromise
<1>1. Init => Promise!Init
  BY DEF Init, Promise!Init, Stage
<1> QED
  BY <1>1, NextPromise, TypeCorrect, ClaimsAreDisciplined, DeliveryHolds, PTL
     DEF Spec, KeepsPromise, Promise!Spec

\* A published row stays published: no stale claim, replay or retry reaches it.
THEOREM PublishedStays == Spec => PublishedIsFinal
<1>1. TypeOK /\ [Next]_vars =>
        [\A m \in Messages : status[m] = "published" => status'[m] = "published"]_vars
  BY DEF TypeOK, Next, PublisherStep, OperatorStep, vars, AppendEvent, Store, ClaimOutbox,
         Claimable, PublishConfirmed, PublishFailed, MarkPublished, MarkFailure, Owns,
         Crash, Restart, BackoffElapses, LeaseElapses, LeaseOverrun, RecordReplay,
         ApplyReplay, table
<1> QED BY <1>1, TypeCorrect, PTL DEF Spec, PublishedIsFinal

\* The four together, as the model checker has them: publishers, leases and
\* crashes in any number leave the claims and the table sound.
THEOREM ClaimsStaySound == Spec => []ClaimsAreSound
BY TypeCorrect, OneOwner, ClaimsAreDisciplined, BudgetIsKept, AcknowledgedIsStored, PTL DEF ClaimsAreSound
=============================================================================
