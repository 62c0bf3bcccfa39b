---------------------------- MODULE InboxProofs -----------------------------
(***************************************************************************)
(* Proofs about the inbox for every set of messages, consumers and workers *)
(* and any number of copies, retries and crashes.                          *)
(***************************************************************************)
EXTENDS Inbox, TLAPS

\* One step of one worker on the delivery in its hand.
Step(w, d) ==
  \/ RejectStale(w, d) \/ Precheck(w, d) \/ BeginTransaction(w, d)
  \/ ClaimJob(w, d) \/ Handle(w, d) \/ CommitUnknown(w, d) \/ Fail(w, d)
  \/ Ack(w, d) \/ Retry(w, d) \/ DeadLetter(w, d) \/ Crash(w, d)

\* The helper definitions every step of a worker is built from.
USE DEF Goto, LetGo, Isolate, Settled, ReportSettled, Receipt

-----------------------------------------------------------------------------
(* Type correctness *)

\* The key of a delivery is a message with a consumer.
LEMMA KeyType == ASSUME NEW d \in Delivery PROVE Key(d) \in Keys
BY DEF Delivery, Key, Keys

\* A retried delivery is a delivery.
LEMMA NextAttempt ==
  ASSUME NEW d \in Delivery, d.attempt < MaxAttempts
  PROVE  [d EXCEPT !.attempt = @ + 1] \in Delivery
BY InboxAssumption DEF Delivery, Attempts

\* Every step keeps the inbox well typed.
LEMMA NextTypeOK == TypeOK /\ [Next]_vars => TypeOK'
<1> SUFFICES ASSUME TypeOK, [Next]_vars PROVE TypeOK'
  OBVIOUS
<1> USE DEF TypeOK
<1>1. ASSUME NEW j \in Jobs, CancelJob(j) \/ \E s \in Payloads : SubmitJob(j, s)
      PROVE TypeOK'
  BY <1>1 DEF CancelJob, SubmitJob, JobStatuses
<1>2. ASSUME NEW d \in Delivery, Publish(d) PROVE TypeOK'
  BY <1>2, KeyType DEF Publish, tables
<1>3. ASSUME NEW w \in Workers, NEW d \in Delivery, Receive(w, d) PROVE TypeOK'
  BY <1>3 DEF Receive, tables
<1>4. ASSUME NEW w \in Workers, NEW d \in hand[w], Step(w, d) PROVE TypeOK'
  <2> d \in Delivery /\ Key(d) \in Keys /\ d.message \in Messages /\ d.payload \in Payloads
    BY KeyType DEF Delivery
  <2>1. CASE RejectStale(w, d) \/ Fail(w, d) \/ Ack(w, d) \/ DeadLetter(w, d)
    BY <2>1 DEF RejectStale, Fail, Ack, DeadLetter, tables
  <2>2. CASE Precheck(w, d)
    <3>1. isolations' \in SUBSET (Keys \X Payloads \X Reasons)
      BY <2>2 DEF Precheck, Reasons
    <3> QED BY <2>2, <3>1 DEF Precheck
  <2>3. CASE BeginTransaction(w, d)
    <3>1. isolations' \in SUBSET (Keys \X Payloads \X Reasons)
      BY <2>3 DEF BeginTransaction, Reasons
    <3> QED BY <2>3, <3>1 DEF BeginTransaction
  <2>4. CASE ClaimJob(w, d)
    BY <2>4 DEF ClaimJob
  <2>5. CASE Handle(w, d) \/ CommitUnknown(w, d)
    <3>1. CommitHandled(d) => TypeOK'
      BY <2>5 DEF Handle, CommitUnknown, CommitHandled, JobStatuses
    <3>2. CommitRejected(d) => isolations' \in SUBSET (Keys \X Payloads \X Reasons)
      BY DEF CommitRejected, Reasons
    <3>3. CommitRejected(d) => TypeOK'
      BY <2>5, <3>2 DEF Handle, CommitUnknown, CommitRejected, JobStatuses
    <3> QED BY <2>5, <3>1, <3>3 DEF Handle, CommitUnknown
  <2>6. CASE Retry(w, d)
    BY <2>6, NextAttempt DEF Retry, tables
  <2>7. CASE Crash(w, d)
    BY <2>7 DEF Crash, tables
  <2> QED BY <1>4, <2>1, <2>2, <2>3, <2>4, <2>5, <2>6, <2>7 DEF Step
<1>5. CASE UNCHANGED vars
  BY <1>5 DEF vars, tables
<1> QED BY <1>1, <1>2, <1>3, <1>4, <1>5 DEF Next, Progress, Step

\* Broker copies, tables and workers keep their types in every reachable state.
THEOREM TypeCorrect == Spec => []TypeOK
<1>1. Init => TypeOK
  BY DEF Init, TypeOK, JobStatuses
<1> QED BY <1>1, NextTypeOK, PTL DEF Spec

-----------------------------------------------------------------------------
(* Serialization and the agreement of the tables *)

InTransaction(w) == pc[w] \in {"locked", "running"}

\* A worker holds one delivery.
OneInHand == \A w \in Workers : \A d, e \in hand[w] : d = e

\* Inside the inbox transaction there is no receipt yet, a job has this
\* payload, and a claimed job is still queued in the committed table and
\* claimed by nobody else.
TransactionInv ==
  \A w \in Workers : \A d \in hand[w] :
    /\ InTransaction(w) => receipts[Key(d)] = {}
    /\ pc[w] = "locked" => d.message \in Jobs
    /\ pc[w] = "running" /\ d.message \in Jobs =>
         /\ job[d.message] = "queued"
         /\ \A v \in Workers : \A e \in hand[v] :
              pc[v] = "running" /\ e.message = d.message => v = w

\* An event has no effect without a receipt and one effect with it; a job's
\* effects belong to a completed job and to one consumer.
EffectInv ==
  /\ \A k \in Keys : effects[k] \in {0, 1}
  /\ \A k \in Keys : effects[k] = 1 => receipts[k] # {}

SafetyInv ==
  OneInHand /\ Serialized /\ TransactionInv /\ EffectInv
  /\ TablesAgree /\ JobExecutedOnce /\ OnePayload

\* A step that leaves the transaction or never was in one, holds at most the
\* delivery it held, and writes no table.
LEMMA OutsideTransaction ==
  ASSUME TypeOK, SafetyInv, NEW w \in Workers,
         NEW l \in {"idle", "received", "unlocked", "done", "retryable", "terminal", "retried"},
         NEW H \in SUBSET Delivery, \A d, e \in H : d = e,
         pc' = [pc EXCEPT ![w] = l], hand' = [hand EXCEPT ![w] = H],
         UNCHANGED <<receipts, job, effects>>
  PROVE  SafetyInv'
<1>1. \A v \in Workers : v # w => pc'[v] = pc[v] /\ hand'[v] = hand[v]
  BY DEF TypeOK
<1>2. pc'[w] = l /\ hand'[w] = H
  BY DEF TypeOK
<1>3. OneInHand'
  BY <1>1, <1>2 DEF SafetyInv, OneInHand
<1>4. Serialized'
  BY <1>1, <1>2 DEF SafetyInv, Serialized
<1>5. TransactionInv'
  BY <1>1, <1>2 DEF SafetyInv, TransactionInv, InTransaction
<1>6. (EffectInv /\ TablesAgree /\ JobExecutedOnce /\ OnePayload)'
  BY DEF SafetyInv, EffectInv, TablesAgree, JobExecutedOnce, OnePayload
<1> QED BY <1>3, <1>4, <1>5, <1>6 DEF SafetyInv

\* Entering the transaction needs the advisory lock, claiming the job needs
\* its row lock; neither writes a table.
LEMMA EnterTransaction ==
  ASSUME TypeOK, SafetyInv, NEW w \in Workers, NEW d \in hand[w],
         NEW l \in {"locked", "running"},
         pc' = [pc EXCEPT ![w] = l], UNCHANGED <<hand, receipts, job, effects>>,
         receipts[Key(d)] = {},
         LockFree(d) \/ InTransaction(w),
         l = "locked" => d.message \in Jobs,
         l = "running" /\ d.message \in Jobs =>
           job[d.message] = "queued" /\ ~JobLocked(d.message)
  PROVE  SafetyInv'
<1>1. \A v \in Workers : v # w => pc'[v] = pc[v]
  BY DEF TypeOK
<1>2. pc'[w] = l
  BY DEF TypeOK
<1>3. \A e \in hand[w] : e = d
  BY DEF SafetyInv, OneInHand
<1>4. OneInHand'
  BY DEF SafetyInv, OneInHand
<1>5. \A v \in Workers : \A e \in hand[v] : v # w /\ InTransaction(v) => Key(e) # Key(d)
  BY DEF SafetyInv, Serialized, LockFree, InTransaction
<1>6. Serialized'
  <2> SUFFICES ASSUME NEW u \in Workers, NEW v \in Workers,
                      NEW e \in hand[u], NEW f \in hand[v], u # v,
                      pc'[u] \in {"locked", "running"}, pc'[v] \in {"locked", "running"}
               PROVE  Key(e) # Key(f)
    BY DEF Serialized, Key
  <2>1. CASE u = w
    BY <2>1, <1>1, <1>3, <1>5 DEF InTransaction
  <2>2. CASE v = w
    BY <2>2, <1>1, <1>3, <1>5 DEF InTransaction
  <2>3. CASE u # w /\ v # w
    BY <2>3, <1>1 DEF SafetyInv, Serialized
  <2> QED BY <2>1, <2>2, <2>3
<1>7. TransactionInv'
  <2> SUFFICES ASSUME NEW u \in Workers, NEW e \in hand[u]
               PROVE  /\ pc'[u] \in {"locked", "running"} => receipts[Key(e)] = {}
                      /\ pc'[u] = "locked" => e.message \in Jobs
                      /\ pc'[u] = "running" /\ e.message \in Jobs =>
                           /\ job[e.message] = "queued"
                           /\ \A v \in Workers : \A f \in hand[v] :
                                pc'[v] = "running" /\ f.message = e.message => v = u
    BY DEF TransactionInv, InTransaction, Key
  <2>1. CASE u = w
    BY <2>1, <1>1, <1>2, <1>3 DEF JobLocked
  <2>2. CASE u # w
    BY <2>2, <1>1, <1>2, <1>3 DEF SafetyInv, TransactionInv, InTransaction, JobLocked
  <2> QED BY <2>1, <2>2
<1>8. (EffectInv /\ TablesAgree /\ JobExecutedOnce /\ OnePayload)'
  BY DEF SafetyInv, EffectInv, TablesAgree, JobExecutedOnce, OnePayload
<1> QED BY <1>4, <1>6, <1>7, <1>8 DEF SafetyInv

\* What a commit leaves of the invariant once the worker is out of it: the key
\* gets this payload's receipt, and one effect only if its job completes.
LEMMA CommitTransaction ==
  ASSUME TypeOK, SafetyInv, NEW w \in Workers, NEW d \in hand[w],
         InTransaction(w),
         NEW l \in {"done", "retryable", "terminal"}, Goto(w, l),
         Receipt(d),
         \/ /\ pc[w] = "running"
            /\ \/ CommitHandled(d)
               \/ d.message \in Jobs /\ job' = [job EXCEPT ![d.message] = "isolated"]
                  /\ UNCHANGED effects
         \/ UNCHANGED <<job, effects>> /\ d.message \in Jobs
  PROVE  SafetyInv'
<1>0. d \in Delivery /\ Key(d) \in Keys /\ d.payload \in Payloads
  BY KeyType DEF TypeOK, Delivery
<1>1. \A v \in Workers : v # w => pc'[v] = pc[v]
  BY DEF TypeOK
<1>2. pc'[w] = l
  BY DEF TypeOK
<1>3. \A e \in hand[w] : e = d
  BY DEF SafetyInv, OneInHand
<1>4. /\ receipts[Key(d)] = {}
      /\ receipts'[Key(d)] = {d.payload}
      /\ \A k \in Keys : k # Key(d) => receipts'[k] = receipts[k]
  BY <1>0 DEF SafetyInv, TransactionInv, TypeOK
<1>5. pc[w] = "running" /\ d.message \in Jobs => job[d.message] = "queued"
  BY DEF SafetyInv, TransactionInv
<1>6. effects[Key(d)] = 0
  BY <1>0, <1>4 DEF SafetyInv, EffectInv
<1>7. \A j \in Jobs : j # d.message => job'[j] = job[j]
  BY DEF TypeOK, CommitHandled
<1>8. \A k \in Keys : k # Key(d) => effects'[k] = effects[k]
  BY <1>0 DEF TypeOK, CommitHandled
<1>9. OneInHand'
  BY DEF SafetyInv, OneInHand
<1>10. Serialized'
  BY <1>1, <1>2 DEF SafetyInv, Serialized, Key
<1>11. TransactionInv'
  <2> SUFFICES ASSUME NEW u \in Workers, NEW e \in hand[u], InTransaction(u), u # w
               PROVE  /\ receipts'[Key(e)] = {}
                      /\ pc[u] = "locked" => e.message \in Jobs
                      /\ pc[u] = "running" /\ e.message \in Jobs =>
                           /\ job'[e.message] = "queued"
                           /\ \A v \in Workers : \A f \in hand[v] :
                                pc[v] = "running" /\ f.message = e.message => v = u
    BY <1>1, <1>2 DEF TransactionInv, InTransaction, Key
  <2>1. Key(e) # Key(d) /\ Key(e) \in Keys
    BY KeyType DEF SafetyInv, Serialized, InTransaction, TypeOK
  <2>2. receipts'[Key(e)] = {}
    BY <1>4, <2>1 DEF SafetyInv, TransactionInv
  <2>3. pc[u] = "running" /\ e.message \in Jobs /\ pc[w] = "running" => e.message # d.message
    BY DEF SafetyInv, TransactionInv
  <2>4. pc[u] = "running" /\ e.message \in Jobs => job'[e.message] = "queued"
    <3>1. CASE pc[w] = "running"
      BY <3>1, <2>3, <1>7 DEF SafetyInv, TransactionInv
    <3>2. CASE UNCHANGED job
      BY <3>2 DEF SafetyInv, TransactionInv
    <3> QED BY <3>1, <3>2
  <2>5. /\ pc[u] = "locked" => e.message \in Jobs
        /\ pc[u] = "running" /\ e.message \in Jobs =>
             \A v \in Workers : \A f \in hand[v] :
                pc[v] = "running" /\ f.message = e.message => v = u
    BY DEF SafetyInv, TransactionInv
  <2> QED BY <2>2, <2>4, <2>5
<1>12. effects'[Key(d)] \in {0, 1}
  BY <1>0, <1>6 DEF TypeOK, CommitHandled
<1>13. EffectInv'
  BY <1>0, <1>4, <1>8, <1>12 DEF SafetyInv, EffectInv
<1>14. OnePayload'
  BY <1>0, <1>4 DEF SafetyInv, OnePayload
<1>15. \A k \in Keys : effects'[k] > 0 => receipts'[k] # {}
  BY <1>13 DEF EffectInv
<1>16. \A m \in Messages, c \in Consumers :
         <<m, c>> \in Keys /\ (<<m, c>> = Key(d) => m = d.message /\ c = d.consumer)
  BY DEF Key, Keys
<1>17. \A e \in Events, c \in Consumers : receipts'[<<e, c>>] # {} => effects'[<<e, c>>] > 0
  <2> SUFFICES ASSUME NEW e \in Events, NEW c \in Consumers, receipts'[<<e, c>>] # {}
               PROVE  effects'[<<e, c>>] > 0
    OBVIOUS
  <2>0. <<e, c>> \in Keys
    BY <1>16 DEF Messages
  <2>1. CASE <<e, c>> = Key(d)
    <3>1. e = d.message
      BY <2>1, <1>16 DEF Messages
    <3>2. d.message \notin Jobs
      BY <3>1, InboxAssumption
    <3>3. CommitHandled(d)
      BY <3>2
    <3> QED BY <2>1, <3>3, <1>0, <1>6 DEF CommitHandled, TypeOK
  <2>2. CASE <<e, c>> # Key(d)
    BY <2>0, <2>2, <1>4, <1>8 DEF SafetyInv, TablesAgree
  <2> QED BY <2>1, <2>2
<1>18. \A j \in Jobs : j = d.message /\ pc[w] = "running" =>
         \A c \in Consumers : effects[<<j, c>>] = 0
  <2> SUFFICES ASSUME NEW j \in Jobs, j = d.message, pc[w] = "running",
                      NEW c \in Consumers
               PROVE  effects[<<j, c>>] = 0
    OBVIOUS
  <2>1. <<j, c>> \in Keys
    BY <1>16 DEF Messages
  <2>2. ~(effects[<<j, c>>] > 0)
    BY <1>5 DEF SafetyInv, TablesAgree
  <2> QED BY <2>1, <2>2 DEF TypeOK
<1>19. \A j \in Jobs : job'[j] = "completed" <=> \E c \in Consumers : effects'[<<j, c>>] > 0
  <2> SUFFICES ASSUME NEW j \in Jobs
               PROVE  job'[j] = "completed" <=> \E c \in Consumers : effects'[<<j, c>>] > 0
    OBVIOUS
  <2>1. CASE j # d.message
    BY <2>1, <1>7, <1>8, <1>16 DEF SafetyInv, TablesAgree, Messages
  <2>2. CASE UNCHANGED <<job, effects>>
    BY <2>2 DEF SafetyInv, TablesAgree
  <2>3. CASE j = d.message /\ pc[w] = "running" /\ CommitHandled(d)
    <3>1. d.consumer \in Consumers /\ Key(d) = <<j, d.consumer>>
      BY <2>3, <1>0 DEF Delivery, Key
    <3>2. effects'[Key(d)] > 0
      BY <2>3, <1>0, <1>6 DEF CommitHandled, TypeOK
    <3>3. job'[j] = "completed"
      BY <2>3 DEF CommitHandled
    <3> QED BY <3>1, <3>2, <3>3
  <2>4. CASE j = d.message /\ pc[w] = "running" /\ UNCHANGED effects
             /\ job' = [job EXCEPT ![d.message] = "isolated"]
    <3>1. job'[j] = "isolated"
      BY <2>4 DEF TypeOK
    <3>2. ~ \E c \in Consumers : effects[<<j, c>>] > 0
      BY <2>4, <1>5 DEF SafetyInv, TablesAgree
    <3> QED BY <2>4, <3>1, <3>2
  <2> QED BY <2>1, <2>2, <2>3, <2>4
<1>20. TablesAgree'
  BY <1>15, <1>17, <1>19 DEF TablesAgree
<1>21. JobExecutedOnce'
  <2> SUFFICES ASSUME NEW j \in Jobs, NEW b \in Consumers, NEW c \in Consumers,
                      effects'[<<j, b>>] > 0, effects'[<<j, c>>] > 0
               PROVE  b = c
    BY DEF JobExecutedOnce
  <2>0. <<j, b>> \in Keys /\ <<j, c>> \in Keys
    BY <1>16 DEF Messages
  <2>1. CASE UNCHANGED effects
    BY <2>1 DEF SafetyInv, JobExecutedOnce
  <2>2. CASE j # d.message
    BY <2>0, <2>2, <1>8, <1>16 DEF SafetyInv, JobExecutedOnce, Messages
  <2>3. CASE j = d.message /\ pc[w] = "running"
    <3>1. \A x \in Consumers : x # d.consumer => effects'[<<j, x>>] = effects[<<j, x>>]
      BY <1>8, <1>16 DEF Messages
    <3>2. \A x \in Consumers : effects[<<j, x>>] = 0
      BY <2>3, <1>18
    <3> QED BY <3>1, <3>2
  <2> QED BY <2>1, <2>2, <2>3
<1> QED BY <1>9, <1>10, <1>11, <1>13, <1>14, <1>20, <1>21 DEF SafetyInv

\* One worker's step keeps the invariant.
LEMMA StepSafety ==
  ASSUME TypeOK, SafetyInv, NEW w \in Workers, NEW d \in hand[w], Step(w, d)
  PROVE  SafetyInv'
<1>0. d \in Delivery /\ hand[w] \in SUBSET Delivery /\ \A e, f \in hand[w] : e = f
  BY DEF TypeOK, SafetyInv, OneInHand
<1>1. ASSUME NEW l \in {"idle", "received", "unlocked", "done", "retryable", "terminal", "retried"},
             Goto(w, l), UNCHANGED <<receipts, job, effects>>
      PROVE  SafetyInv'
  <2>1. hand' = [hand EXCEPT ![w] = hand[w]]
    BY <1>1 DEF TypeOK
  <2> QED BY <1>0, <1>1, <2>1, OutsideTransaction
<1>2. ASSUME LetGo(w), UNCHANGED <<receipts, job, effects>>
      PROVE  SafetyInv'
  <2>1. {} \in SUBSET Delivery /\ \A e, f \in {} : e = f
    OBVIOUS
  <2>2. "idle" \in {"idle", "received", "unlocked", "done", "retryable", "terminal", "retried"}
    OBVIOUS
  <2> QED BY <1>2, <2>1, <2>2, OutsideTransaction
<1>3. CASE RejectStale(w, d) \/ Ack(w, d) \/ DeadLetter(w, d) \/ Crash(w, d)
  BY <1>2, <1>3 DEF RejectStale, Ack, DeadLetter, Crash, tables
<1>4. CASE Precheck(w, d)
  <2>1. UNCHANGED <<receipts, job, effects>> /\ (Goto(w, "done") \/ Goto(w, "unlocked"))
    BY <1>4 DEF Precheck
  <2> QED BY <1>1, <2>1
<1>5. CASE Fail(w, d)
  <2>1. UNCHANGED <<receipts, job, effects>> /\ (Goto(w, "retryable") \/ Goto(w, "terminal"))
    BY <1>5 DEF Fail, tables
  <2> QED BY <1>1, <2>1
<1>6. CASE Retry(w, d)
  <2>1. UNCHANGED <<receipts, job, effects>> /\ Goto(w, "retried")
    BY <1>6 DEF Retry, tables
  <2> QED BY <1>1, <2>1
<1>7. CASE BeginTransaction(w, d)
  <2>1. UNCHANGED <<receipts, job, effects>>
    BY <1>7 DEF BeginTransaction
  <2>2. CASE Goto(w, "done")
    BY <1>1, <2>1, <2>2
  <2>3. CASE ~Settled(d) /\ d.message \in Jobs /\ Goto(w, "locked")
    <3>1. UNCHANGED hand /\ pc' = [pc EXCEPT ![w] = "locked"] /\ receipts[Key(d)] = {}
      BY <2>3
    <3> QED BY <1>7, <2>1, <2>3, <3>1, EnterTransaction DEF BeginTransaction
  <2>4. CASE ~Settled(d) /\ d.message \in Events /\ Goto(w, "running")
    <3>1. UNCHANGED hand /\ pc' = [pc EXCEPT ![w] = "running"] /\ receipts[Key(d)] = {}
      BY <2>4
    <3>2. d.message \notin Jobs
      BY <2>4, InboxAssumption
    <3> QED BY <1>7, <2>1, <3>1, <3>2, EnterTransaction DEF BeginTransaction
  <2> QED BY <1>7, <2>2, <2>3, <2>4 DEF BeginTransaction
<1>8. CASE ClaimJob(w, d)
  <2>1. InTransaction(w) /\ d.message \in Jobs /\ receipts[Key(d)] = {}
    BY <1>8 DEF ClaimJob, SafetyInv, TransactionInv, InTransaction
  <2>2. CASE job[d.message] = "queued" /\ UNCHANGED receipts /\ Goto(w, "running")
    <3>1. UNCHANGED <<hand, receipts, job, effects>> /\ pc' = [pc EXCEPT ![w] = "running"]
      BY <1>8, <2>2 DEF ClaimJob
    <3> QED BY <1>8, <2>1, <2>2, <3>1, EnterTransaction DEF ClaimJob
  <2>3. CASE Receipt(d) /\ Goto(w, "done")
    <3>1. UNCHANGED <<job, effects>>
      BY <1>8 DEF ClaimJob
    <3> QED BY <2>1, <2>3, <3>1, CommitTransaction
  <2> QED BY <1>8, <2>2, <2>3 DEF ClaimJob
<1>9. CASE Handle(w, d) \/ CommitUnknown(w, d)
  <2>1. pc[w] = "running" /\ InTransaction(w)
    BY <1>9 DEF Handle, CommitUnknown, InTransaction
  <2>2. PICK l \in {"done", "retryable", "terminal"} : Goto(w, l)
    BY <1>9 DEF Handle, CommitUnknown
  <2>3. CASE CommitHandled(d)
    <3>1. Receipt(d)
      BY <2>3 DEF CommitHandled
    <3> QED BY <2>1, <2>2, <2>3, <3>1, CommitTransaction
  <2>4. CASE CommitRejected(d)
    <3>1. Receipt(d) /\ d.message \in Jobs /\ UNCHANGED effects
          /\ job' = [job EXCEPT ![d.message] = "isolated"]
      BY <2>4 DEF CommitRejected
    <3> QED BY <2>1, <2>2, <3>1, CommitTransaction
  <2> QED BY <1>9, <2>3, <2>4 DEF Handle, CommitUnknown
<1> QED BY <1>3, <1>4, <1>5, <1>6, <1>7, <1>8, <1>9 DEF Step

\* Every step keeps the invariant: producers and cancellation touch only jobs
\* no transaction has claimed.
LEMMA NextSafety == TypeOK /\ SafetyInv /\ [Next]_vars => SafetyInv'
<1> SUFFICES ASSUME TypeOK, SafetyInv, [Next]_vars PROVE SafetyInv'
  OBVIOUS
<1>1. ASSUME NEW j \in Jobs, CancelJob(j) \/ \E s \in Payloads : SubmitJob(j, s)
      PROVE  SafetyInv'
  <2>1. /\ UNCHANGED <<receipts, pc, hand, effects>>
        /\ job[j] \in {"none", "queued"}
        /\ \A i \in Jobs : i # j => job'[i] = job[i]
        /\ job'[j] \in {"queued", "cancelled"}
    BY <1>1 DEF CancelJob, SubmitJob, TypeOK
  <2>2. \A w \in Workers : \A d \in hand[w] : pc[w] = "running" => d.message # j
    BY <1>1 DEF CancelJob, SubmitJob, JobLocked, SafetyInv, TransactionInv
  <2>3. (OneInHand /\ Serialized /\ EffectInv /\ JobExecutedOnce /\ OnePayload)'
    BY <2>1 DEF SafetyInv, OneInHand, Serialized, EffectInv, JobExecutedOnce, OnePayload, Key
  <2>4. TransactionInv'
    BY <2>1, <2>2 DEF SafetyInv, TransactionInv, InTransaction, Key
  <2>5. TablesAgree'
    BY <2>1 DEF SafetyInv, TablesAgree
  <2> QED BY <2>3, <2>4, <2>5 DEF SafetyInv
<1>2. ASSUME UNCHANGED <<receipts, job, pc, hand, effects>> PROVE SafetyInv'
  BY <1>2 DEF SafetyInv, OneInHand, Serialized, TransactionInv, InTransaction, EffectInv,
              TablesAgree, JobExecutedOnce, OnePayload, Key
<1>3. ASSUME NEW d \in Delivery, Publish(d) PROVE SafetyInv'
  BY <1>2, <1>3 DEF Publish, tables
<1>4. ASSUME NEW w \in Workers, NEW d \in Delivery, Receive(w, d) PROVE SafetyInv'
  <2>1. {d} \in SUBSET Delivery /\ \A e, f \in {d} : e = f
    OBVIOUS
  <2>2. UNCHANGED <<receipts, job, effects>> /\ pc' = [pc EXCEPT ![w] = "received"]
        /\ hand' = [hand EXCEPT ![w] = {d}]
    BY <1>4 DEF Receive, tables
  <2> QED BY <2>1, <2>2, OutsideTransaction
<1>5. ASSUME NEW w \in Workers, NEW d \in hand[w], Step(w, d) PROVE SafetyInv'
  BY <1>5, StepSafety
<1>6. CASE UNCHANGED vars
  BY <1>2, <1>6 DEF vars, tables
<1> QED BY <1>1, <1>3, <1>4, <1>5, <1>6 DEF Next, Progress, Step

\* The inbox transaction protects its tables in every reachable state.
LEMMA SafetyHolds == Spec => [](TypeOK /\ SafetyInv)
<1>1. Init => TypeOK /\ SafetyInv
  <2>1. Init => TypeOK
    BY DEF Init, TypeOK, JobStatuses
  <2>2. Init => OneInHand /\ Serialized /\ TransactionInv /\ EffectInv /\ OnePayload
    BY DEF Init, OneInHand, Serialized, TransactionInv, EffectInv, OnePayload
  <2>3. Init => TablesAgree /\ JobExecutedOnce
    <3> SUFFICES ASSUME Init PROVE TablesAgree /\ JobExecutedOnce
      OBVIOUS
    <3>1. \A k \in Keys : ~(effects[k] > 0) /\ receipts[k] = {}
      BY DEF Init
    <3>2. \A m \in Messages, c \in Consumers : <<m, c>> \in Keys
      BY DEF Keys
    <3>3. \A m \in Messages, c \in Consumers : ~(effects[<<m, c>>] > 0)
      BY <3>1, <3>2
    <3>4. TablesAgree
      BY <3>1, <3>2, <3>3 DEF TablesAgree, Init, Messages
    <3> QED BY <3>3, <3>4 DEF JobExecutedOnce, Messages
  <2> QED BY <2>1, <2>2, <2>3 DEF SafetyInv
<1> QED BY <1>1, NextTypeOK, NextSafety, PTL DEF Spec

\* A handler's effect commits at most once per message and consumer, however
\* often the message is delivered, retried or redelivered.
THEOREM EffectsAtMostOnce == Spec => []EffectAtMostOnce
<1>1. SafetyInv => EffectAtMostOnce
  BY DEF SafetyInv, EffectInv, EffectAtMostOnce
<1> QED BY <1>1, SafetyHolds, PTL

\* A job is executed by at most one of its consumers.
THEOREM JobsExecuteOnce == Spec => []JobExecutedOnce
<1>1. SafetyInv => JobExecutedOnce
  BY DEF SafetyInv
<1> QED BY <1>1, SafetyHolds, PTL

\* Effects, receipts and job status agree in the committed tables.
THEOREM TablesStayInAgreement == Spec => []TablesAgree
<1>1. SafetyInv => TablesAgree
  BY DEF SafetyInv
<1> QED BY <1>1, SafetyHolds, PTL

\* The first payload to settle a message and consumer is the only one.
THEOREM FirstPayloadWins == Spec => []OnePayload
<1>1. SafetyInv => OnePayload
  BY DEF SafetyInv
<1> QED BY <1>1, SafetyHolds, PTL

\* A settled job keeps its status: it is not run, completed or cancelled again.
THEOREM SettledJobsAreFinal == Spec => JobIsFinal
<1>1. TypeOK /\ SafetyInv /\ [Next]_vars =>
        [\A j \in Jobs : job[j] \in {"completed", "cancelled", "isolated"}
                           => job'[j] = job[j]]_vars
  <2> SUFFICES ASSUME TypeOK, SafetyInv, Next, NEW j \in Jobs,
                      job[j] \in {"completed", "cancelled", "isolated"}
               PROVE  job'[j] = job[j]
    OBVIOUS
  <2>1. ASSUME NEW i \in Jobs, CancelJob(i) \/ \E s \in Payloads : SubmitJob(i, s)
        PROVE  job'[j] = job[j]
    BY <2>1 DEF CancelJob, SubmitJob, TypeOK
  <2>2. ASSUME NEW w \in Workers, NEW d \in hand[w], Handle(w, d) \/ CommitUnknown(w, d)
        PROVE  job'[j] = job[j]
    <3>1. pc[w] = "running" /\ (CommitHandled(d) \/ CommitRejected(d))
      BY <2>2 DEF Handle, CommitUnknown
    <3>2. d.message # j
      BY <3>1 DEF SafetyInv, TransactionInv
    <3> QED BY <3>1, <3>2 DEF CommitHandled, CommitRejected, TypeOK
  <2>3. ASSUME UNCHANGED job PROVE job'[j] = job[j]
    BY <2>3
  <2>4. ASSUME NEW w \in Workers, NEW d \in hand[w], Step(w, d)
        PROVE  UNCHANGED job \/ Handle(w, d) \/ CommitUnknown(w, d)
    BY <2>4 DEF Step, RejectStale, Precheck, BeginTransaction, ClaimJob, Fail, Ack, Retry,
                DeadLetter, Crash, tables
  <2>5. ASSUME NEW d \in Delivery, Publish(d) \/ \E w \in Workers : Receive(w, d)
        PROVE  UNCHANGED job
    BY <2>5 DEF Publish, Receive, tables
  <2> QED BY <2>1, <2>2, <2>3, <2>4, <2>5 DEF Next, Progress, Step
<1> QED BY <1>1, SafetyHolds, PTL DEF Spec, JobIsFinal

\* One effect and one payload per message and consumer, for any number of
\* copies, workers and crashes.
THEOREM OneEffectEver == Spec => []OneEffect
BY EffectsAtMostOnce, FirstPayloadWins, PTL DEF OneEffect

\* One execution per job, which the tables agree on.
THEOREM OneExecutionEver == Spec => []OneExecution
BY TypeCorrect, JobsExecuteOnce, TablesStayInAgreement, PTL DEF OneExecution

-----------------------------------------------------------------------------
(* No copy vanishes *)

\* What a message leaves with a consumer for good.
Recorded(k) ==
  receipts[k] # {} \/ (\E i \in isolations : i[1] = k) \/ (\E d \in dead : Key(d) = k)

\* A copy in hand counts until the worker may acknowledge it.
Kept(k) ==
  \/ \E d \in Delivery : Key(d) = k /\ queue[d] > 0
  \/ \E w \in Workers : pc[w] \notin {"done", "retried"} /\ \E d \in hand[w] : Key(d) = k
  \/ Recorded(k)

KeptInv == \A k \in Keys : published[k] > 0 => Kept(k)

\* A worker takes a copy with nothing in its hand.
IdleIsEmpty == \A w \in Workers : pc[w] = "idle" => hand[w] = {}

LEMMA NextIdle == TypeOK /\ IdleIsEmpty /\ [Next]_vars => IdleIsEmpty'
<1> SUFFICES ASSUME TypeOK, IdleIsEmpty, [Next]_vars PROVE IdleIsEmpty'
  OBVIOUS
<1>1. ASSUME UNCHANGED <<pc, hand>> PROVE IdleIsEmpty'
  BY <1>1 DEF IdleIsEmpty
<1>2. ASSUME NEW j \in Jobs, CancelJob(j) \/ \E s \in Payloads : SubmitJob(j, s)
      PROVE  IdleIsEmpty'
  BY <1>1, <1>2 DEF CancelJob, SubmitJob
<1>3. ASSUME NEW d \in Delivery, Publish(d) \/ \E w \in Workers : Receive(w, d)
      PROVE  IdleIsEmpty'
  BY <1>3 DEF Publish, Receive, IdleIsEmpty, TypeOK
<1>4. ASSUME NEW w \in Workers, NEW d \in hand[w], Step(w, d) PROVE IdleIsEmpty'
  BY <1>4 DEF Step, RejectStale, Precheck, BeginTransaction, ClaimJob, Handle, CommitUnknown,
     Fail, Ack, Retry, DeadLetter, Crash, IdleIsEmpty, TypeOK
<1>5. CASE UNCHANGED vars
  BY <1>1, <1>5 DEF vars
<1> QED
  BY <1>2, <1>3, <1>4, <1>5 DEF Next, Progress, Step

\* A worker's step on one copy leaves a trace of it before the copy goes, and touches
\* no other.
LEMMA StepKeeps ==
  ASSUME TypeOK, TypeOK', SafetyInv, NEW w \in Workers, NEW d \in hand[w], Step(w, d),
         NEW k \in Keys, Kept(k)
  PROVE  Kept(k)'
<1>1. d \in Delivery /\ Key(d) \in Keys /\ \A e \in hand[w] : e = d
  BY KeyType DEF TypeOK, SafetyInv, OneInHand
<1>2. \A e \in Delivery : queue[e] > 0 => queue'[e] > 0
  <2>1. CASE Retry(w, d)
    <3>1. [d EXCEPT !.attempt = @ + 1] \in Delivery
      BY <1>1, <2>1, NextAttempt DEF Retry
    <3> QED
      BY <2>1, <3>1 DEF Retry, TypeOK
  <2>2. CASE Crash(w, d)
    BY <1>1, <2>2 DEF Crash, TypeOK
  <2>3. CASE ~Retry(w, d) /\ ~Crash(w, d)
    <3>1. queue' = queue
      BY <2>3 DEF Step, RejectStale, Precheck, BeginTransaction, ClaimJob, Handle, CommitUnknown,
           CommitHandled, CommitRejected, Fail, Ack, DeadLetter, tables
    <3> QED
      BY <3>1
  <2> QED
    BY <2>1, <2>2, <2>3
<1>3. receipts[k] # {} => receipts'[k] # {}
  <2>1. receipts' = receipts \/ Receipt(d)
    BY DEF Step, RejectStale, Precheck, BeginTransaction, ClaimJob, Handle, CommitUnknown,
           CommitHandled, CommitRejected, Fail, Ack, Retry, DeadLetter, Crash, tables
  <2> QED
    BY <1>1, <2>1 DEF TypeOK
<1>4. isolations \subseteq isolations' /\ dead \subseteq dead'
  BY DEF Step, RejectStale, Precheck, BeginTransaction, ClaimJob, Handle, CommitUnknown,
         CommitHandled, CommitRejected, Fail, Ack, Retry, DeadLetter, Crash, tables
<1>5. \A v \in Workers : v # w => pc'[v] = pc[v] /\ hand'[v] = hand[v]
  BY DEF Step, RejectStale, Precheck, BeginTransaction, ClaimJob, Handle, CommitUnknown,
         CommitHandled, CommitRejected, Fail, Ack, Retry, DeadLetter, Crash, TypeOK
<1>6. Recorded(k) => Recorded(k)'
  BY <1>3, <1>4 DEF Recorded, Key
<1>7. CASE k # Key(d)
  BY <1>1, <1>2, <1>5, <1>6, <1>7 DEF Kept, Key
<1>8. CASE k = Key(d)
  <2>1. CASE RejectStale(w, d) \/ DeadLetter(w, d)
    <3>1. d \in dead'
      BY <2>1 DEF RejectStale, DeadLetter
    <3> QED
      BY <1>8, <3>1 DEF Kept, Recorded, Key
  <2>2. CASE Ack(w, d)
    <3>1. \A v \in Workers : pc[v] \notin {"done", "retried"} => v # w
      BY <2>2 DEF Ack
    <3> QED
      BY <1>1, <1>2, <1>5, <1>6, <3>1 DEF Kept, Key
  <2>3. CASE Retry(w, d)
    <3> DEFINE next == [d EXCEPT !.attempt = @ + 1]
    <3>1. next \in Delivery /\ Key(next) = Key(d)
      BY <1>1, <2>3, NextAttempt DEF Retry, Key, Delivery
    <3>2. queue'[next] > 0
      <4> HIDE DEF next
      <4>1. queue' = [queue EXCEPT ![next] = @ + 1]
        BY <2>3 DEF Retry, next
      <4> QED
        BY <3>1, <4>1 DEF TypeOK
    <3> QED
      BY <1>8, <3>1, <3>2 DEF Kept, Key
  <2>4. CASE Crash(w, d)
    <3>1. queue'[d] > 0
      BY <1>1, <2>4 DEF Crash, TypeOK
    <3> QED
      BY <1>1, <1>8, <3>1 DEF Kept, Key
  <2>5. CASE Precheck(w, d) \/ BeginTransaction(w, d) \/ ClaimJob(w, d) \/ Handle(w, d)
             \/ CommitUnknown(w, d) \/ Fail(w, d)
    <3>1. hand' = hand
      BY <2>5 DEF Precheck, BeginTransaction, ClaimJob, Handle, CommitUnknown, Fail
    <3>2. \/ pc'[w] \notin {"done", "retried"}
          \/ receipts[k] # {} \/ Receipt(d)
          \/ \E reason : Isolate(d, reason)
      BY <1>8, <2>5 DEF Precheck, BeginTransaction, ClaimJob, Handle, CommitUnknown, Fail,
                        CommitHandled, CommitRejected, TypeOK
    <3>3. CASE pc'[w] \notin {"done", "retried"}
      BY <1>8, <3>1, <3>3 DEF Kept, Key
    <3>4. CASE receipts[k] # {} \/ Receipt(d)
      <4>1. receipts'[k] # {}
        BY <1>1, <1>3, <1>8, <3>4 DEF TypeOK
      <4> QED
        BY <4>1 DEF Kept, Recorded
    <3>5. ASSUME NEW reason, Isolate(d, reason) PROVE Kept(k)'
      <4>1. <<Key(d), d.payload, reason>> \in isolations'
        BY <3>5
      <4> QED
        BY <1>8, <4>1 DEF Kept, Recorded
    <3> QED
      BY <3>2, <3>3, <3>4, <3>5
  <2> QED
    BY <2>1, <2>2, <2>3, <2>4, <2>5 DEF Step
<1> QED
  BY <1>7, <1>8

\* What was published for a message and consumer is still queued or in hand, or has
\* left a receipt, an isolation or a dead letter: through any redeliveries, retries,
\* crashes and races of workers (consumer.ts, rabbit-adapter.ts).
THEOREM NothingEverVanishes == Spec => []NothingVanishes
<1>1. Init => IdleIsEmpty /\ KeptInv
  BY DEF Init, IdleIsEmpty, KeptInv
<1>2. TypeOK /\ TypeOK' /\ SafetyInv /\ IdleIsEmpty /\ KeptInv /\ [Next]_vars => KeptInv'
  <2> SUFFICES ASSUME TypeOK, TypeOK', SafetyInv, IdleIsEmpty, KeptInv, [Next]_vars,
                      NEW k \in Keys, published'[k] > 0
               PROVE  Kept(k)'
    BY DEF KeptInv
  <2>1. ASSUME NEW j \in Jobs, CancelJob(j) \/ \E s \in Payloads : SubmitJob(j, s)
        PROVE  Kept(k)'
    BY <2>1 DEF CancelJob, SubmitJob, KeptInv, Kept, Recorded, Key
  <2>2. ASSUME NEW d \in Delivery, Publish(d) PROVE Kept(k)'
    <3>1. Key(d) \in Keys
      BY KeyType
    <3>2. /\ queue' = [queue EXCEPT ![d] = @ + 1]
          /\ published' = [published EXCEPT ![Key(d)] = @ + 1]
          /\ UNCHANGED <<dead, receipts, isolations, pc, hand>>
      BY <2>2 DEF Publish, tables
    <3>3. CASE k = Key(d)
      <4>1. queue'[d] > 0
        BY <3>2 DEF TypeOK
      <4> QED
        BY <3>3, <4>1 DEF Kept, Key
    <3>4. CASE k # Key(d)
      <4>1. published[k] > 0 /\ \A e \in Delivery : queue[e] > 0 => queue'[e] > 0
        BY <3>1, <3>2, <3>4 DEF TypeOK
      <4> QED
        BY <3>2, <4>1 DEF KeptInv, Kept, Recorded, Key
    <3> QED
      BY <3>3, <3>4
  <2>3. ASSUME NEW w \in Workers, NEW d \in Delivery, Receive(w, d) PROVE Kept(k)'
    <3>1. /\ pc'[w] = "received" /\ hand'[w] = {d}
          /\ \A v \in Workers : v # w => pc'[v] = pc[v] /\ hand'[v] = hand[v]
          /\ UNCHANGED <<dead, receipts, isolations, published>> /\ pc[w] = "idle"
      BY <2>3 DEF Receive, tables, TypeOK
    <3>2. \A e \in Delivery : e # d => queue'[e] = queue[e]
      BY <2>3 DEF Receive, TypeOK
    <3>3. CASE k = Key(d)
      BY <3>1, <3>3 DEF Kept, Key
    <3>4. CASE k # Key(d)
      <4>1. hand[w] = {}
        BY <3>1 DEF IdleIsEmpty
      <4> QED
        BY <3>1, <3>2, <3>4, <4>1 DEF KeptInv, Kept, Recorded, Key
    <3> QED
      BY <3>3, <3>4
  <2>4. ASSUME NEW w \in Workers, NEW d \in hand[w], Step(w, d) PROVE Kept(k)'
    <3>1. published' = published
      BY <2>4 DEF Step, RejectStale, Precheck, BeginTransaction, ClaimJob, Handle, CommitUnknown,
           CommitHandled, CommitRejected, Fail, Ack, Retry, DeadLetter, Crash, tables
    <3> QED
      BY <2>4, <3>1, StepKeeps DEF KeptInv
  <2>5. CASE UNCHANGED vars
    BY <2>5 DEF vars, tables, KeptInv, Kept, Recorded, Key
  <2> QED
    BY <2>1, <2>2, <2>3, <2>4, <2>5 DEF Next, Progress, Step
<1>3. KeptInv => NothingVanishes
  BY DEF KeptInv, Kept, Recorded, NothingVanishes
<1> QED
  BY <1>1, <1>2, <1>3, NextIdle, SafetyHolds, PTL DEF Spec
=============================================================================
