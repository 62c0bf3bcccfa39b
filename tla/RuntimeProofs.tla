---------------------------- MODULE RuntimeProofs ----------------------------
(***************************************************************************)
(* Proofs about the executor of the integration runtime, for any number of *)
(* calls and for every limit, queue, threshold and retry policy.           *)
(***************************************************************************)
EXTENDS IntegrationRuntime, FiniteSetTheorems, SequenceTheorems, TLAPS

-----------------------------------------------------------------------------
(* The limiter.                                                            *)

HolderPlaces == {"granted", "running", "settling"}

\* A queue holds the calls of a set, each once.
Queued(q, set) ==
  /\ q \in Seq(Calls)
  /\ \A i, j \in 1 .. Len(q) : q[i] = q[j] => i = j
  /\ \A i \in 1 .. Len(q) : q[i] \in set
  /\ \A c \in set : \E i \in 1 .. Len(q) : q[i] = c
  /\ IsFiniteSet(set) /\ Cardinality(set) = Len(q)

\* An empty queue is of no call.
LEMMA EmptyQueue == Queued(<<>>, {})
BY FS_EmptySet DEF Queued

\* Who joins is the last.
LEMMA QueueGrows ==
  ASSUME NEW q, NEW set, Queued(q, set), NEW c \in Calls \ set
  PROVE  Queued(Append(q, c), set \cup {c})
<1> DEFINE r == Append(q, c)
<1>1. /\ r \in Seq(Calls) /\ Len(r) = Len(q) + 1 /\ r[Len(q) + 1] = c
      /\ \A i \in 1 .. Len(q) : r[i] = q[i]
  BY AppendProperties DEF Queued
<1>2. Len(q) \in Nat
  BY LenProperties DEF Queued
<1>3. \A i \in 1 .. Len(r) : i = Len(q) + 1 \/ i \in 1 .. Len(q)
  BY <1>1, <1>2
<1>4. IsFiniteSet(set \cup {c}) /\ Cardinality(set \cup {c}) = Len(r)
  BY <1>1, FS_AddElement DEF Queued
<1> HIDE DEF r
<1>5. \A i, j \in 1 .. Len(r) : r[i] = r[j] => i = j
  BY <1>1, <1>2, <1>3 DEF Queued
<1>6. \A i \in 1 .. Len(r) : r[i] \in set \cup {c}
  BY <1>1, <1>3 DEF Queued
<1>7. \A x \in set \cup {c} : \E i \in 1 .. Len(r) : r[i] = x
  <2> SUFFICES ASSUME NEW x \in set \cup {c} PROVE \E i \in 1 .. Len(r) : r[i] = x
    OBVIOUS
  <2>1. CASE x = c
    BY <1>1, <1>2, <2>1
  <2>2. CASE x \in set
    <3>1. PICK i \in 1 .. Len(q) : q[i] = x
      BY <2>2 DEF Queued
    <3>2. i \in 1 .. Len(r) /\ r[i] = x
      BY <3>1, <1>1, <1>2
    <3> QED BY <3>2
  <2> QED BY <2>1, <2>2
<1>8. Queued(r, set \cup {c})
  BY <1>1, <1>4, <1>5, <1>6, <1>7 DEF Queued
<1> QED BY <1>8 DEF r

\* Who leaves the queue, from wherever it stands, leaves the others in their order.
LEMMA QueueShrinks ==
  ASSUME NEW q, NEW set, Queued(q, set), NEW k \in 1 .. Len(q), NEW r,
         r \in Seq(Calls), Len(r) = Len(q) - 1,
         \A i \in 1 .. Len(r) : r[i] = q[IF i < k THEN i ELSE i + 1]
  PROVE  Queued(r, set \ {q[k]})
<1>1. Len(q) \in Nat /\ Len(r) \in Nat
  BY LenProperties DEF Queued
<1> DEFINE from(i) == IF i < k THEN i ELSE i + 1
<1>2. \A i \in 1 .. Len(r) : from(i) \in 1 .. Len(q) /\ from(i) # k /\ r[i] = q[from(i)]
  BY <1>1
<1>3. \A i, j \in 1 .. Len(r) : from(i) = from(j) => i = j
  BY <1>1
<1>4. \A n \in 1 .. Len(q) : n # k => \E i \in 1 .. Len(r) : from(i) = n
  <2> SUFFICES ASSUME NEW n \in 1 .. Len(q), n # k
               PROVE  \E i \in 1 .. Len(r) : from(i) = n
    OBVIOUS
  <2>1. CASE n < k
    BY <2>1, <1>1
  <2>2. CASE n > k
    <3>1. n - 1 \in 1 .. Len(r) /\ from(n - 1) = n
      BY <2>2, <1>1
    <3> QED BY <3>1
  <2> QED BY <2>1, <2>2, <1>1
<1> HIDE DEF from
<1>5. q[k] \in set
  BY DEF Queued
<1>6. IsFiniteSet(set \ {q[k]}) /\ Cardinality(set \ {q[k]}) = Len(r)
  BY <1>5, FS_RemoveElement DEF Queued
<1>7. \A i, j \in 1 .. Len(r) : r[i] = r[j] => i = j
  BY <1>2, <1>3 DEF Queued
<1>8. \A i \in 1 .. Len(r) : r[i] \in set \ {q[k]}
  BY <1>2 DEF Queued
<1>9. \A x \in set \ {q[k]} : \E i \in 1 .. Len(r) : r[i] = x
  <2> SUFFICES ASSUME NEW x \in set \ {q[k]} PROVE \E i \in 1 .. Len(r) : r[i] = x
    OBVIOUS
  <2>1. PICK n \in 1 .. Len(q) : q[n] = x
    BY DEF Queued
  <2>2. PICK i \in 1 .. Len(r) : from(i) = n
    BY <2>1, <1>4
  <2> QED BY <2>1, <2>2, <1>2
<1> QED BY <1>6, <1>7, <1>8, <1>9 DEF Queued

\* The head leaves first.
LEMMA HeadLeaves ==
  ASSUME NEW q, NEW set, Queued(q, set), q # <<>>
  PROVE  Head(q) \in set /\ Queued(Tail(q), set \ {Head(q)})
<1>1. /\ Tail(q) \in Seq(Calls) /\ Len(Tail(q)) = Len(q) - 1
      /\ \A i \in 1 .. Len(Tail(q)) : Tail(q)[i] = q[i + 1]
  BY HeadTailProperties DEF Queued
<1>2. 1 \in 1 .. Len(q) /\ Head(q) = q[1]
  BY EmptySeq, LenProperties DEF Queued
<1>3. \A i \in 1 .. Len(Tail(q)) : Tail(q)[i] = q[IF i < 1 THEN i ELSE i + 1]
  BY <1>1
<1>4. Queued(Tail(q), set \ {q[1]})
  BY <1>1, <1>2, <1>3, QueueShrinks
<1> QED BY <1>2, <1>4 DEF Queued

\* An aborted call leaves from its place.
LEMMA PlaceIsLeft ==
  ASSUME NEW q, NEW set, Queued(q, set), NEW k \in DOMAIN q
  PROVE  Queued(RemoveAt(q, k), set \ {q[k]})
<1> DEFINE a == SubSeq(q, 1, k - 1)
           b == SubSeq(q, k + 1, Len(q))
<1>1. Len(q) \in Nat /\ k \in 1 .. Len(q) /\ q \in Seq(Calls) /\ \A i \in 1 .. Len(q) : q[i] \in Calls
  BY LenProperties, ElementOfSeq DEF Queued
<1>2. /\ a \in Seq(Calls) /\ Len(a) = k - 1 /\ \A i \in 1 .. k - 1 : a[i] = q[i]
  <2>1. /\ a \in Seq(Calls) /\ Len(a) = IF 1 <= k - 1 THEN (k - 1) - 1 + 1 ELSE 0
        /\ \A i \in 1 .. (k - 1) - 1 + 1 : a[i] = q[1 + i - 1]
    BY <1>1, SubSeqProperties
  <2> HIDE DEF a
  <2> QED BY <2>1, <1>1
<1>3. /\ b \in Seq(Calls) /\ Len(b) = Len(q) - k /\ \A i \in 1 .. Len(q) - k : b[i] = q[k + i]
  <2>1. /\ b \in Seq(Calls) /\ Len(b) = IF k + 1 <= Len(q) THEN Len(q) - (k + 1) + 1 ELSE 0
        /\ \A i \in 1 .. Len(q) - (k + 1) + 1 : b[i] = q[(k + 1) + i - 1]
    BY <1>1, SubSeqProperties
  <2> HIDE DEF b
  <2> QED BY <2>1, <1>1
<1> HIDE DEF a, b
<1> DEFINE r == a \o b
<1>4. /\ r \in Seq(Calls) /\ Len(r) = Len(a) + Len(b)
      /\ \A i \in 1 .. Len(a) + Len(b) : r[i] = IF i <= Len(a) THEN a[i] ELSE b[i - Len(a)]
  BY <1>2, <1>3, ConcatProperties
<1>5. r = RemoveAt(q, k)
  BY DEF r, a, b, RemoveAt
<1> HIDE DEF r
<1>6. Len(r) = Len(q) - 1
  BY <1>1, <1>2, <1>3, <1>4
<1>7. ASSUME NEW i \in 1 .. Len(r) PROVE r[i] = q[IF i < k THEN i ELSE i + 1]
  <2>1. CASE i < k
    BY <2>1, <1>1, <1>2, <1>3, <1>4, <1>6
  <2>2. CASE i >= k
    <3>1. i - Len(a) \in 1 .. Len(q) - k /\ k + (i - Len(a)) = i + 1
      BY <2>2, <1>1, <1>2, <1>6
    <3>2. r[i] = b[i - Len(a)]
      BY <2>2, <1>1, <1>2, <1>3, <1>4, <1>6
    <3>3. ~(i < k)
      BY <2>2, <1>1
    <3> QED BY <3>1, <3>2, <3>3, <1>3
  <2> QED BY <2>1, <2>2, <1>1
<1>8. Queued(r, set \ {q[k]})
  BY <1>1, <1>4, <1>6, <1>7, QueueShrinks
<1> QED BY <1>5, <1>8

\* The limiter's books: a slot for each call between its grant and its finally, a place in
\* the queue for each that waits, and nobody waits while a slot is free.
LimiterInv ==
  /\ pc \in [Calls -> PCs]
  /\ active \in 0 .. Limit
  /\ Queued(queue, Waiting) /\ Len(queue) <= MaxQueue
  /\ IsFiniteSet(Holders) /\ active = Cardinality(Holders)
  /\ queue # <<>> => active = Limit

\* Who is where after a call has gone somewhere.
LEMMA WhereCallsAre ==
  ASSUME pc \in [Calls -> PCs], NEW c \in Calls, NEW l \in PCs, Goto(c, l)
  PROVE  /\ pc' \in [Calls -> PCs]
         /\ l \in HolderPlaces => Holders' = Holders \cup {c}
         /\ l \notin HolderPlaces => Holders' = Holders \ {c}
         /\ (l \in HolderPlaces <=> c \in Holders) => Holders' = Holders
         /\ l = "queued" => Waiting' = Waiting \cup {c}
         /\ l # "queued" => Waiting' = Waiting \ {c}
         /\ l # "queued" /\ c \notin Waiting => Waiting' = Waiting
BY DEF Goto, Holders, Waiting, HolderPlaces

\* A call that goes on without the limiter.
LEMMA LimiterStays ==
  ASSUME LimiterInv, NEW c \in Calls, NEW l \in PCs, Goto(c, l), UNCHANGED limiter,
         l # "queued", pc[c] # "queued", pc[c] \in HolderPlaces <=> l \in HolderPlaces
  PROVE  LimiterInv'
<1>1. c \in Holders <=> l \in HolderPlaces
  BY DEF Holders, HolderPlaces
<1>2. c \notin Waiting
  BY DEF Waiting
<1>3. pc' \in [Calls -> PCs] /\ Holders' = Holders /\ Waiting' = Waiting
  BY <1>1, <1>2, WhereCallsAre DEF LimiterInv
<1>4. active' = active /\ queue' = queue
  BY DEF limiter
<1> QED BY <1>3, <1>4 DEF LimiterInv, Queued

\* A call that asks for a slot.
LEMMA AcquireKeepsLimiter ==
  ASSUME IntegrationAssumption, LimiterInv, NEW c \in Calls, Acquire(c)
  PROVE  LimiterInv'
<1>1. /\ pc[c] = "checking" /\ c \notin Holders /\ c \notin Waiting
      /\ Limit \in Nat /\ MaxQueue \in Nat /\ active \in Nat /\ Len(queue) \in Nat
  <2>1. Len(queue) \in Nat
    BY LenProperties DEF LimiterInv, Queued
  <2> QED BY <2>1 DEF Acquire, Holders, Waiting, IntegrationAssumption, LimiterInv
<1>2. CASE Goto(c, "failure") /\ UNCHANGED limiter
  <2>1. "failure" \in PCs /\ "failure" \notin HolderPlaces /\ pc[c] \notin HolderPlaces
    BY <1>1 DEF PCs, Ends, HolderPlaces
  <2> QED BY <1>1, <1>2, <2>1, LimiterStays
<1>3. CASE active < Limit /\ active' = active + 1 /\ queue' = queue /\ Goto(c, "granted")
  <2>1. pc' \in [Calls -> PCs] /\ Holders' = Holders \cup {c} /\ Waiting' = Waiting
    <3>1. "granted" \in PCs /\ "granted" \in HolderPlaces
      BY DEF PCs, HolderPlaces
    <3> QED BY <1>1, <1>3, <3>1, WhereCallsAre DEF LimiterInv
  <2>2. IsFiniteSet(Holders') /\ Cardinality(Holders') = Cardinality(Holders) + 1
    BY <1>1, <2>1, FS_AddElement DEF LimiterInv
  <2>3. active' \in 0 .. Limit /\ active' = Cardinality(Holders')
    BY <1>1, <1>3, <2>2 DEF LimiterInv
  <2>4. queue = <<>>
    BY <1>1, <1>3 DEF LimiterInv
  <2>5. Queued(queue', Waiting') /\ Len(queue') <= MaxQueue
    BY <1>3, <2>1 DEF LimiterInv
  <2> QED BY <1>3, <2>1, <2>2, <2>3, <2>4, <2>5 DEF LimiterInv, Queued
<1>4. CASE /\ active >= Limit /\ Len(queue) < MaxQueue
           /\ queue' = Append(queue, c) /\ active' = active /\ Goto(c, "queued")
  <2>1. pc' \in [Calls -> PCs] /\ Holders' = Holders /\ Waiting' = Waiting \cup {c}
    <3>1. "queued" \in PCs /\ "queued" \notin HolderPlaces
      BY DEF PCs, HolderPlaces
    <3> QED BY <1>1, <1>4, <3>1, WhereCallsAre DEF LimiterInv
  <2>2. Queued(queue', Waiting')
    BY <1>1, <1>4, <2>1, QueueGrows DEF LimiterInv
  <2>3. Len(queue') = Len(queue) + 1
    BY <1>4, AppendProperties DEF LimiterInv, Queued
  <2>4. active' = Limit /\ Len(queue') <= MaxQueue
    BY <1>1, <1>4, <2>3 DEF LimiterInv
  <2> QED BY <1>1, <1>4, <2>1, <2>2, <2>4 DEF LimiterInv, Queued
<1> QED BY <1>2, <1>3, <1>4 DEF Acquire, limiter

\* A call that gives its slot back, or to the head of the queue.
LEMMA ReleaseKeepsLimiter ==
  ASSUME IntegrationAssumption, LimiterInv, NEW c \in Calls, pc[c] = "settling",
         NEW l \in {"success", "failure", "backoff"}, Release(c, l)
  PROVE  LimiterInv'
<1>1. /\ c \in Holders /\ c \notin Waiting /\ Limit \in Nat /\ active \in Nat
  BY DEF Holders, Waiting, LimiterInv, IntegrationAssumption
<1>2. IsFiniteSet(Holders \ {c}) /\ Cardinality(Holders \ {c}) = active - 1
  BY <1>1, FS_RemoveElement DEF LimiterInv
<1>3. CASE queue = <<>>
  <2>1. active' = active - 1 /\ queue' = queue /\ Goto(c, l)
    <3>1. pc' = [x \in Calls |-> IF x = c THEN l ELSE pc[x]]
      BY <1>3 DEF Release
    <3>2. pc' = [pc EXCEPT ![c] = l]
      BY <3>1 DEF LimiterInv
    <3> QED BY <1>3, <3>2 DEF Release, Freed, Goto
  <2>2. l \in PCs /\ l \notin HolderPlaces /\ l # "queued"
    BY DEF PCs, HolderPlaces, Ends
  <2>3. pc' \in [Calls -> PCs] /\ Holders' = Holders \ {c} /\ Waiting' = Waiting
    BY <1>1, <2>1, <2>2, WhereCallsAre DEF LimiterInv
  <2>4. active' \in 0 .. Limit
    <3>1. active - 1 \in Nat
      BY <1>2, FS_CardinalityType
    <3> QED BY <1>1, <2>1, <3>1 DEF LimiterInv
  <2> QED BY <1>2, <1>3, <2>1, <2>3, <2>4 DEF LimiterInv, Queued
<1>4. CASE queue # <<>>
  <2> DEFINE h == Head(queue)
  <2>1. h \in Waiting /\ Queued(Tail(queue), Waiting \ {h})
    BY <1>4, HeadLeaves DEF LimiterInv
  <2>2. h \in Calls /\ h # c /\ h \notin Holders
    BY <1>1, <2>1 DEF Waiting, Holders
  <2>3. /\ active' = active /\ queue' = Tail(queue)
        /\ pc' = [x \in Calls |-> IF x = c THEN l ELSE IF x = h THEN "granted" ELSE pc[x]]
    BY <1>4 DEF Release, Freed
  <2> HIDE DEF h
  <2>4. /\ pc' \in [Calls -> PCs] /\ Waiting' = Waiting \ {h}
        /\ Holders' = (Holders \ {c}) \cup {h}
    <3>1. l \in PCs /\ "granted" \in PCs /\ l \notin HolderPlaces /\ l # "queued"
      BY DEF PCs, Ends, HolderPlaces
    <3>2. pc' \in [Calls -> PCs]
      BY <2>3, <3>1 DEF LimiterInv
    <3>3. \A x \in Calls : pc'[x] = IF x = c THEN l ELSE IF x = h THEN "granted" ELSE pc[x]
      BY <2>3
    <3>4. Waiting' = Waiting \ {h}
      BY <1>1, <3>1, <3>3 DEF Waiting
    <3>5. Holders' = (Holders \ {c}) \cup {h}
      <4>1. \A x : x \in Holders' <=> x \in Calls /\ pc'[x] \in HolderPlaces
        BY DEF Holders, HolderPlaces
      <4>2. \A x : x \in Holders <=> x \in Calls /\ pc[x] \in HolderPlaces
        BY DEF Holders, HolderPlaces
      <4>3. "granted" \in HolderPlaces
        BY DEF HolderPlaces
      <4>4. \A x : x \in Holders' <=> x \in (Holders \ {c}) \cup {h}
        BY <2>2, <3>1, <3>3, <4>1, <4>2, <4>3
      <4> QED BY <4>4
    <3> QED BY <3>2, <3>4, <3>5
  <2>5. IsFiniteSet(Holders') /\ Cardinality(Holders') = active
    <3>1. /\ IsFiniteSet((Holders \ {c}) \cup {h})
          /\ Cardinality((Holders \ {c}) \cup {h}) = Cardinality(Holders \ {c}) + 1
      BY <1>2, <2>2, FS_AddElement
    <3> QED BY <1>1, <1>2, <2>4, <3>1
  <2>6. Len(queue') <= MaxQueue
    <3>1. Len(queue') = Len(queue) - 1
      BY <1>4, <2>3, HeadTailProperties DEF LimiterInv, Queued
    <3>2. Len(queue) \in Nat /\ MaxQueue \in Nat
      BY LenProperties DEF LimiterInv, Queued, IntegrationAssumption
    <3> QED BY <3>1, <3>2 DEF LimiterInv
  <2>7. active' = Limit
    BY <1>4, <2>3 DEF LimiterInv
  <2>8. Queued(queue', Waiting')
    BY <2>1, <2>3, <2>4
  <2> QED BY <1>1, <2>3, <2>4, <2>5, <2>6, <2>7, <2>8 DEF LimiterInv, Queued
<1> QED BY <1>3, <1>4

\* A queued call that is aborted.
LEMMA LeavingKeepsLimiter ==
  ASSUME IntegrationAssumption, LimiterInv, NEW c \in Calls, pc[c] = "queued",
         NEW k \in DOMAIN queue, queue[k] = c, queue' = RemoveAt(queue, k),
         Goto(c, "failure"), UNCHANGED active
  PROVE  LimiterInv'
<1>1. pc' \in [Calls -> PCs] /\ Holders' = Holders /\ Waiting' = Waiting \ {c}
  <2>1. c \notin Holders
    BY DEF Holders
  <2>2. "failure" \in PCs /\ "failure" \notin HolderPlaces
    BY DEF PCs, Ends, HolderPlaces
  <2> QED BY <2>1, <2>2, WhereCallsAre DEF LimiterInv
<1>2. Queued(queue', Waiting')
  BY <1>1, PlaceIsLeft DEF LimiterInv
<1>3. Len(queue') <= MaxQueue
  <2>1. c \in Waiting
    BY DEF Waiting
  <2>2. Len(queue') = Cardinality(Waiting \ {c}) /\ Len(queue) = Cardinality(Waiting)
    BY <1>1, <1>2 DEF LimiterInv, Queued
  <2>3. Cardinality(Waiting \ {c}) = Cardinality(Waiting) - 1
    BY <2>1, FS_RemoveElement DEF LimiterInv, Queued
  <2>4. Len(queue) \in Nat /\ MaxQueue \in Nat
    BY LenProperties DEF LimiterInv, Queued, IntegrationAssumption
  <2> QED BY <2>2, <2>3, <2>4 DEF LimiterInv
<1>4. queue # <<>>
  BY DEF LimiterInv, Queued
<1> QED BY <1>1, <1>2, <1>3, <1>4 DEF LimiterInv, Queued

\* Every step keeps the limiter's books: most go on without it.
LEMMA NextLimiter ==
  ASSUME IntegrationAssumption, LimiterInv, [Next]_vars
  PROVE  LimiterInv'
<1> USE DEF PCs, Ends, HolderPlaces
<1>1. CASE UNCHANGED <<pc, limiter>>
  <2>1. Waiting' = Waiting /\ Holders' = Holders
    BY <1>1 DEF Waiting, Holders
  <2> QED BY <1>1, <2>1 DEF LimiterInv, Queued, limiter
<1>2. ASSUME NEW c \in Calls, CallStep(c) PROVE LimiterInv'
  <2>1. CASE Acquire(c)
    BY <2>1, AcquireKeepsLimiter
  <2>2. CASE Enter(c)
    <3>1. pc[c] = "granted" /\ UNCHANGED limiter /\ (Goto(c, "settling") \/ Goto(c, "running"))
      BY <2>2 DEF Enter
    <3> QED BY <3>1, LimiterStays
  <2>3. CASE Finish(c)
    <3>1. /\ pc[c] = "settling"
          /\ \E l \in {"success", "failure", "backoff"} : Release(c, l)
      BY <2>3 DEF Finish
    <3> QED BY <3>1, ReleaseKeepsLimiter
  <2>4. CASE BackoffElapses(c)
    <3>1. pc[c] = "backoff" /\ UNCHANGED limiter /\ Goto(c, "checking")
      BY <2>4 DEF BackoffElapses
    <3> QED BY <3>1, LimiterStays
  <2>5. CASE OperationSucceeds(c) \/ OperationFails(c) \/ PhaseTimeout(c)
    <3>1. pc[c] = "running" /\ UNCHANGED limiter /\ Goto(c, "settling")
      BY <2>5 DEF OperationSucceeds, OperationFails, PhaseTimeout, Settled
    <3> QED BY <3>1, LimiterStays
  <2>6. CASE BudgetExpires(c) \/ CallerCancels(c)
    <3>1. PICK reason : Abort(c, reason)
      BY <2>6 DEF BudgetExpires, CallerCancels
    <3>2. UNCHANGED active
      BY <3>1 DEF Abort
    <3>3. CASE /\ pc[c] = "queued" /\ Goto(c, "failure")
               /\ \E i \in DOMAIN queue : queue[i] = c /\ queue' = RemoveAt(queue, i)
      BY <3>2, <3>3, LeavingKeepsLimiter
    <3>4. CASE pc[c] = "running" /\ Goto(c, "settling") /\ UNCHANGED queue
      BY <3>2, <3>4, LimiterStays DEF limiter
    <3>5. CASE pc[c] = "backoff" /\ Goto(c, "failure") /\ UNCHANGED queue
      BY <3>2, <3>5, LimiterStays DEF limiter
    <3>6. CASE UNCHANGED <<pc, queue>>
      BY <1>1, <3>2, <3>6 DEF limiter
    <3> QED BY <3>1, <3>3, <3>4, <3>5, <3>6 DEF Abort
  <2> QED BY <1>2, <2>1, <2>2, <2>3, <2>4, <2>5, <2>6 DEF CallStep
<1>3. CASE UNCHANGED vars
  BY <1>1, <1>3 DEF vars, call
<1>4. CASE (\E o \in operations : LateSettlement(o)) \/ CoolDown \/ Snapshot \/ WindowElapses
  <2>1. UNCHANGED <<pc, limiter>>
    BY <1>4 DEF LateSettlement, CoolDown, Snapshot, WindowElapses, call
  <2> QED BY <1>1, <2>1
<1> QED BY <1>2, <1>3, <1>4 DEF Next

LEMMA InitLimiter == IntegrationAssumption /\ Init => LimiterInv
<1> SUFFICES ASSUME IntegrationAssumption, Init PROVE LimiterInv
  OBVIOUS
<1>1. Waiting = {} /\ Holders = {} /\ queue = <<>> /\ active = 0
  BY DEF Init, Waiting, Holders
<1>2. Queued(queue, Waiting) /\ Len(queue) <= MaxQueue
  BY <1>1, EmptyQueue DEF IntegrationAssumption
<1>3. pc \in [Calls -> PCs]
  BY DEF Init, PCs
<1>4. active \in 0 .. Limit
  BY <1>1 DEF IntegrationAssumption
<1> QED BY <1>1, <1>2, <1>3, <1>4, FS_EmptySet DEF LimiterInv

-----------------------------------------------------------------------------
(* The circuit breaker.                                                    *)

Probes == {c \in Calls : probe[c]}

\* The breaker's books: a place taken in the half-open state is of a probe that still runs,
\* whichever half-open state admitted it.
BreakerInv ==
  /\ pc \in [Calls -> PCs] /\ probe \in [Calls -> BOOLEAN]
  /\ state \in {"closed", "open", "half_open"}
  /\ failures \in Nat /\ halfOpenActive \in Int
  /\ \A c \in Calls : probe[c] => pc[c] = "running"
  /\ IsFiniteSet(Probes)
  /\ HalfOpenNotWedged
  /\ ClosedBelowThreshold

\* Without the breaker nothing changes if no probe moves.
LEMMA BreakerStays ==
  ASSUME BreakerInv, pc' \in [Calls -> PCs], UNCHANGED <<probe, state, failures, halfOpenActive>>,
         \A c \in Calls : probe[c] => pc'[c] = pc[c]
  PROVE  BreakerInv'
<1>1. Probes' = Probes
  BY DEF Probes
<1> QED BY <1>1 DEF BreakerInv, HalfOpenNotWedged, ClosedBelowThreshold, Probes

\* What the clock does to a breaker that is looked at.
LEMMA BreakerRefreshes ==
  ASSUME BreakerInv
  PROVE  /\ Refreshed \in {"closed", "open", "half_open"} /\ RefreshedActive \in Int
         /\ Refreshed = "half_open" => RefreshedActive <= Cardinality(Probes)
         /\ Refreshed = "closed" => failures < FailureThreshold
<1>1. Cardinality(Probes) \in Nat
  BY FS_CardinalityType DEF BreakerInv
<1> QED BY <1>1 DEF BreakerInv, Refreshed, RefreshedActive, HalfOpenNotWedged,
                    ClosedBelowThreshold, Probes

\* An attempt that ends leaves the probes.
LEMMA ProbeLeaves ==
  ASSUME BreakerInv, NEW c \in Calls, probe' = [probe EXCEPT ![c] = FALSE]
  PROVE  /\ IsFiniteSet(Probes') /\ Cardinality(Probes') \in Nat
         /\ Cardinality(Probes') = IF probe[c] THEN Cardinality(Probes) - 1 ELSE Cardinality(Probes)
<1>1. Probes' = Probes \ {c} /\ (c \in Probes <=> probe[c])
  BY DEF Probes, BreakerInv
<1>2. /\ IsFiniteSet(Probes \ {c})
      /\ Cardinality(Probes \ {c}) = IF c \in Probes THEN Cardinality(Probes) - 1
                                                     ELSE Cardinality(Probes)
  BY FS_RemoveElement DEF BreakerInv
<1> QED BY <1>1, <1>2, FS_CardinalityType

\* What a failure, and a success, makes of the breaker when their attempt ends.
LEMMA EndKeepsBreaker ==
  ASSUME IntegrationAssumption, BreakerInv, NEW c \in Calls,
         (\E e \in Errors : BreakerFails(c, e)) \/ BreakerSucceeds(c),
         Goto(c, "settling"), probe' = [probe EXCEPT ![c] = FALSE]
  PROVE  BreakerInv'
<1>1. /\ IsFiniteSet(Probes') /\ Cardinality(Probes') \in Nat
      /\ Cardinality(Probes') = IF probe[c] THEN Cardinality(Probes) - 1 ELSE Cardinality(Probes)
  BY ProbeLeaves
<1>2. pc' \in [Calls -> PCs] /\ probe' \in [Calls -> BOOLEAN]
  BY DEF BreakerInv, Goto, PCs
<1>3. \A x \in Calls : probe'[x] => pc'[x] = "running"
  BY DEF BreakerInv, Goto
<1>4. Cardinality(Probes) \in Nat /\ FailureThreshold \in Nat \ {0}
  BY FS_CardinalityType DEF BreakerInv, IntegrationAssumption
<1>5. /\ state' \in {"closed", "open", "half_open"} /\ failures' \in Nat /\ halfOpenActive' \in Int
      /\ state' = "half_open" => halfOpenActive' <= Cardinality(Probes')
      /\ state' = "closed" => failures' < FailureThreshold
  <2>1. CASE BreakerSucceeds(c)
    BY <1>1, <1>4, <2>1 DEF BreakerSucceeds, FailuresReset, BreakerInv, HalfOpenNotWedged,
                            ClosedBelowThreshold, Probes
  <2>2. ASSUME NEW e \in Errors, BreakerFails(c, e)
        PROVE  <1>5!:
    <3>1. CASE e \in Counted /\ (probe[c] \/ failures + 1 >= FailureThreshold)
      BY <2>2, <3>1 DEF BreakerFails, Open, BreakerInv
    <3>2. CASE ~(e \in Counted /\ (probe[c] \/ failures + 1 >= FailureThreshold))
      BY <1>1, <1>4, <2>2, <3>2 DEF BreakerFails, PlaceFreed, BreakerInv, HalfOpenNotWedged,
                                    ClosedBelowThreshold, Probes
    <3> QED BY <3>1, <3>2
  <2> QED BY <2>1, <2>2
<1> QED BY <1>1, <1>2, <1>3, <1>5 DEF BreakerInv, HalfOpenNotWedged, ClosedBelowThreshold, Probes

\* A granted call that the breaker admits, or refuses.
LEMMA EnterKeepsBreaker ==
  ASSUME BreakerInv, NEW c \in Calls, Enter(c)
  PROVE  BreakerInv'
<1>1. pc[c] = "granted" /\ ~probe[c] /\ c \notin Probes
  BY DEF Enter, BreakerInv, Probes
<1>2. Cardinality(Probes) \in Nat
  BY FS_CardinalityType DEF BreakerInv
<1>3. pc' \in [Calls -> PCs] /\ \A x \in Calls : x # c => pc'[x] = pc[x]
  BY DEF Enter, Goto, BreakerInv, PCs
<1>4. CASE UNCHANGED <<probe, breaker>>
  BY <1>1, <1>3, <1>4, BreakerStays DEF breaker
<1>5. CASE /\ state' = Refreshed /\ halfOpenActive' = RefreshedActive
           /\ UNCHANGED <<probe, failures, cooled>>
  <2>1. \A x \in Calls : probe'[x] => pc'[x] = "running"
    BY <1>1, <1>3, <1>5 DEF BreakerInv
  <2>2. Probes' = Probes
    BY <1>5 DEF Probes
  <2> QED BY <1>3, <1>5, <2>1, <2>2, BreakerRefreshes
          DEF BreakerInv, HalfOpenNotWedged, ClosedBelowThreshold, Probes
<1>6. CASE /\ state' = Refreshed /\ UNCHANGED <<failures, cooled>> /\ Goto(c, "running")
           /\ probe' = [probe EXCEPT ![c] = Refreshed = "half_open"]
           /\ halfOpenActive' = IF Refreshed = "half_open" THEN RefreshedActive + 1 ELSE RefreshedActive
  <2>1. probe' \in [Calls -> BOOLEAN] /\ \A x \in Calls : probe'[x] => pc'[x] = "running"
    BY <1>3, <1>6 DEF BreakerInv, Goto
  <2>2. CASE Refreshed = "half_open"
    <3>1. Probes' = Probes \cup {c}
      BY <1>6, <2>2 DEF Probes, BreakerInv
    <3>2. IsFiniteSet(Probes') /\ Cardinality(Probes') = Cardinality(Probes) + 1
      BY <1>1, <3>1, FS_AddElement DEF BreakerInv
    <3> QED BY <1>2, <1>3, <1>6, <2>1, <2>2, <3>2, BreakerRefreshes
            DEF BreakerInv, HalfOpenNotWedged, ClosedBelowThreshold, Probes
  <2>3. CASE Refreshed # "half_open"
    <3>1. Probes' = Probes
      BY <1>1, <1>6, <2>3 DEF Probes, BreakerInv
    <3> QED BY <1>3, <1>6, <2>1, <2>3, <3>1, BreakerRefreshes
            DEF BreakerInv, HalfOpenNotWedged, ClosedBelowThreshold, Probes
  <2> QED BY <2>2, <2>3
<1> QED BY <1>4, <1>5, <1>6 DEF Enter

\* Every step keeps the breaker's books.
LEMMA NextBreaker ==
  ASSUME IntegrationAssumption, LimiterInv, BreakerInv, [Next]_vars
  PROVE  BreakerInv'
<1>1. CASE UNCHANGED <<pc, probe, breaker>>
  BY <1>1, BreakerStays DEF breaker, BreakerInv
<1>2. ASSUME NEW c \in Calls, pc[c] # "running", UNCHANGED <<probe, breaker>>, NEW l \in PCs,
             Goto(c, l)
      PROVE  BreakerInv'
  <2>1. pc' \in [Calls -> PCs] /\ \A x \in Calls : probe[x] => pc'[x] = pc[x]
    BY <1>2 DEF BreakerInv, Goto
  <2> QED BY <1>2, <2>1, BreakerStays DEF breaker
<1>3. ASSUME NEW c \in Calls, CallStep(c) PROVE BreakerInv'
  <2> USE DEF PCs, Ends
  <2>1. CASE Acquire(c)
    <3>1. /\ pc[c] # "running" /\ UNCHANGED <<probe, breaker>>
          /\ Goto(c, "failure") \/ Goto(c, "granted") \/ Goto(c, "queued")
      BY <2>1 DEF Acquire
    <3> QED BY <1>2, <3>1
  <2>2. CASE Enter(c)
    BY <2>2, EnterKeepsBreaker
  <2>3. CASE Finish(c)
    <3>1. UNCHANGED <<probe, breaker>> /\ pc[c] = "settling"
      BY <2>3 DEF Finish
    <3>2. PICK l \in {"success", "failure", "backoff"} :
            pc' = [x \in Calls |-> IF x = c THEN l
                                   ELSE IF queue # <<>> /\ x = Head(queue) THEN "granted"
                                   ELSE pc[x]]
      BY <2>3 DEF Finish, Release
    <3>3. queue # <<>> => pc[Head(queue)] = "queued"
      <4>1. queue # <<>> => Head(queue) \in Waiting
        BY HeadLeaves DEF LimiterInv
      <4> QED BY <4>1 DEF Waiting
    <3>4. pc' \in [Calls -> PCs] /\ \A x \in Calls : probe[x] => pc'[x] = pc[x]
      BY <3>1, <3>2, <3>3 DEF BreakerInv
    <3> QED BY <3>1, <3>4, BreakerStays DEF breaker
  <2>4. CASE BackoffElapses(c)
    <3>1. pc[c] = "backoff" /\ UNCHANGED <<probe, breaker>> /\ Goto(c, "checking")
      BY <2>4 DEF BackoffElapses
    <3> QED BY <1>2, <3>1
  <2>5. CASE OperationSucceeds(c) \/ OperationFails(c) \/ PhaseTimeout(c)
    <3>1. /\ Goto(c, "settling") /\ probe' = [probe EXCEPT ![c] = FALSE]
          /\ (\E e \in Errors : BreakerFails(c, e)) \/ BreakerSucceeds(c)
      BY <2>5 DEF OperationSucceeds, OperationFails, PhaseTimeout, Settled, Errors
    <3> QED BY <3>1, EndKeepsBreaker
  <2>6. CASE BudgetExpires(c) \/ CallerCancels(c)
    <3>1. PICK reason : Abort(c, reason)
      BY <2>6 DEF BudgetExpires, CallerCancels
    <3>2. CASE pc[c] \in {"queued", "backoff"} /\ Goto(c, "failure") /\ UNCHANGED <<probe, breaker>>
      BY <1>2, <3>2
    <3>3. CASE /\ Goto(c, "settling") /\ probe' = [probe EXCEPT ![c] = FALSE]
               /\ \E e \in Errors : BreakerFails(c, e)
      BY <3>3, EndKeepsBreaker
    <3>4. CASE UNCHANGED <<pc, probe, breaker>>
      BY <1>1, <3>4
    <3> QED BY <3>1, <3>2, <3>3, <3>4 DEF Abort, Errors
  <2> QED BY <1>3, <2>1, <2>2, <2>3, <2>4, <2>5, <2>6 DEF CallStep
<1>4. CASE UNCHANGED vars
  BY <1>1, <1>4 DEF vars, call
<1>5. CASE (\E o \in operations : LateSettlement(o)) \/ CoolDown \/ WindowElapses
  <2>1. UNCHANGED <<pc, probe, state, failures, halfOpenActive>>
    BY <1>5 DEF LateSettlement, CoolDown, WindowElapses, call, breaker
  <2> QED BY <2>1, BreakerStays DEF BreakerInv
<1>6. CASE Snapshot
  <2>1. /\ UNCHANGED <<pc, probe, failures>>
        /\ state' = Refreshed /\ halfOpenActive' = RefreshedActive
    BY <1>6 DEF Snapshot, call
  <2>2. Probes' = Probes
    BY <2>1 DEF Probes
  <2> QED BY <2>1, <2>2, BreakerRefreshes
          DEF BreakerInv, HalfOpenNotWedged, ClosedBelowThreshold, Probes
<1> QED BY <1>3, <1>4, <1>5, <1>6 DEF Next

LEMMA InitBreaker == IntegrationAssumption /\ Init => BreakerInv
<1> SUFFICES ASSUME IntegrationAssumption, Init PROVE BreakerInv
  OBVIOUS
<1>1. Probes = {} /\ IsFiniteSet(Probes)
  <2>1. Probes = {}
    BY DEF Init, Probes
  <2> QED BY <2>1, FS_EmptySet
<1> QED BY <1>1 DEF Init, BreakerInv, PCs, HalfOpenNotWedged, ClosedBelowThreshold,
                    IntegrationAssumption

-----------------------------------------------------------------------------
(* The calls, and what they are promised.                                  *)

\* What a call knows of itself: a call that backs off has an attempt left.
CallInv ==
  /\ pc \in [Calls -> PCs]
  /\ attempt \in [Calls -> Nat \ {0}]
  /\ \A c \in Calls : /\ attempt[c] <= MaxAttempts[c]
                      /\ pc[c] = "backoff" => attempt[c] < MaxAttempts[c]
  /\ error \in [Calls -> Errors] /\ aborted \in [Calls -> {"no", "expired", "cancelled"}]
  /\ cooled \in BOOLEAN /\ used \in 0 .. RateLimit
  /\ operations \in SUBSET [call : Calls, attempt : Nat \ {0}]

\* Every step keeps the calls' books.
LEMMA NextCalls ==
  ASSUME IntegrationAssumption, LimiterInv, CallInv, [Next]_vars
  PROVE  CallInv'
<1> USE DEF CallInv
<1>1. CASE UNCHANGED vars
  BY <1>1 DEF vars, call, limiter, breaker
<1>2. ASSUME NEW c \in Calls, CallStep(c) PROVE CallInv'
  <2>1. RateLimit \in Nat /\ MaxAttempts \in [Calls -> Nat \ {0}]
    BY DEF IntegrationAssumption
  <2>2. Operation(c) \in [call : Calls, attempt : Nat \ {0}]
    BY DEF Operation
  <2>3. LimiterInv'
    BY <1>2, NextLimiter DEF Next
  <2>4. pc' \in [Calls -> PCs]
    BY <2>3 DEF LimiterInv
  <2>5. CASE Acquire(c)
    <3>1. used' \in 0 .. RateLimit
      BY <2>1, <2>5 DEF Acquire, Limited
    <3>2. \A x \in Calls : pc'[x] = "backoff" => pc[x] = "backoff"
      BY <2>5 DEF Acquire, Goto
    <3> QED BY <2>4, <2>5, <3>1, <3>2 DEF Acquire, breaker
  <2>6. CASE Enter(c)
    <3>1. \A x \in Calls : pc'[x] = "backoff" => pc[x] = "backoff"
      BY <2>6 DEF Enter, Goto
    <3>2. error' \in [Calls -> Errors]
      BY <2>6 DEF Enter, Errors
    <3>3. operations' \in SUBSET [call : Calls, attempt : Nat \ {0}]
      BY <2>2, <2>6 DEF Enter
    <3>4. cooled' = cooled /\ UNCHANGED <<attempt, aborted, used>>
      BY <2>6 DEF Enter, breaker
    <3> QED BY <2>4, <3>1, <3>2, <3>3, <3>4
  <2>7. CASE Finish(c)
    <3>1. UNCHANGED <<attempt, error, aborted, cooled, used, operations>>
      BY <2>7 DEF Finish, breaker
    <3>2. \A x \in Calls : pc'[x] = "backoff" => pc[x] = "backoff" \/ (x = c /\ Retries(c))
      BY <2>7 DEF Finish, Release
    <3> QED BY <2>4, <3>1, <3>2 DEF Retries
  <2>8. CASE BackoffElapses(c)
    <3>1. /\ pc[c] = "backoff" /\ attempt' = [attempt EXCEPT ![c] = attempt[c] + 1]
          /\ error' = [error EXCEPT ![c] = "none"]
          /\ UNCHANGED <<aborted, cooled, used, operations>>
          /\ pc' = [pc EXCEPT ![c] = "checking"]
      BY <2>8 DEF BackoffElapses, breaker, Goto
    <3>2. attempt' \in [Calls -> Nat \ {0}]
      BY <3>1
    <3>3. error' \in [Calls -> Errors]
      BY <3>1 DEF Errors
    <3>4. \A x \in Calls : /\ attempt'[x] <= MaxAttempts[x]
                           /\ pc'[x] = "backoff" => attempt'[x] < MaxAttempts[x]
      <4> SUFFICES ASSUME NEW x \in Calls
                   PROVE  /\ attempt'[x] <= MaxAttempts[x]
                          /\ pc'[x] = "backoff" => attempt'[x] < MaxAttempts[x]
        OBVIOUS
      <4>1. attempt[x] \in Nat /\ MaxAttempts[x] \in Nat
        BY <2>1
      <4>4. /\ attempt[x] <= MaxAttempts[x]
            /\ pc[x] = "backoff" => attempt[x] < MaxAttempts[x]
        BY Zenon
      <4>2. CASE x = c
        <5>1. pc[x] = "backoff" /\ pc'[x] = "checking" /\ attempt'[x] = attempt[x] + 1
          BY <3>1, <4>2
        <5> QED BY <4>1, <4>4, <5>1
      <4>3. CASE x # c
        <5>1. pc'[x] = pc[x] /\ attempt'[x] = attempt[x]
          BY <3>1, <4>3
        <5> QED BY <4>4, <5>1
      <4> QED BY <4>2, <4>3
    <3> QED BY <2>4, <3>1, <3>2, <3>3, <3>4
  <2>9. CASE OperationSucceeds(c) \/ OperationFails(c) \/ PhaseTimeout(c)
    <3>1. /\ \E e \in Errors : error' = [error EXCEPT ![c] = e]
          /\ pc' = [pc EXCEPT ![c] = "settling"]
          /\ UNCHANGED <<attempt, aborted, used>>
          /\ operations' \subseteq operations
          /\ cooled' \in BOOLEAN
      BY <2>9 DEF OperationSucceeds, OperationFails, PhaseTimeout, Settled, Abandon, Goto, Errors,
                  BreakerSucceeds, BreakerFails, Open
    <3>2. error' \in [Calls -> Errors]
      BY <3>1
    <3> QED BY <2>4, <3>1, <3>2
  <2>10. CASE BudgetExpires(c) \/ CallerCancels(c)
    <3>1. PICK reason \in {"expired", "cancelled"} : Abort(c, reason)
      BY <2>10 DEF BudgetExpires, CallerCancels
    <3>2. aborted' \in [Calls -> {"no", "expired", "cancelled"}] /\ UNCHANGED <<attempt, used>>
      BY <3>1 DEF Abort
    <3>3. operations' \subseteq operations
      BY <3>1 DEF Abort, Abandon
    <3>4. error' \in [Calls -> Errors]
      BY <3>1 DEF Abort, Errors
    <3>5. cooled' \in BOOLEAN
      BY <3>1 DEF Abort, BreakerFails, Open, breaker
    <3>6. \A x \in Calls : pc'[x] = "backoff" => pc[x] = "backoff"
      BY <3>1 DEF Abort, Goto
    <3> QED BY <2>4, <3>2, <3>3, <3>4, <3>5, <3>6
  <2> QED BY <1>2, <2>5, <2>6, <2>7, <2>8, <2>9, <2>10 DEF CallStep
<1>3. CASE (\E o \in operations : LateSettlement(o)) \/ CoolDown \/ Snapshot \/ WindowElapses
  <2>1. UNCHANGED call /\ operations' \subseteq operations /\ cooled' \in BOOLEAN
    BY <1>3 DEF LateSettlement, CoolDown, Snapshot, WindowElapses, breaker
  <2>2. used' \in 0 .. RateLimit
    BY <1>3 DEF LateSettlement, CoolDown, Snapshot, WindowElapses, IntegrationAssumption
  <2> QED BY <2>1, <2>2 DEF call
<1> QED BY <1>1, <1>2, <1>3 DEF Next

RuntimeInv == LimiterInv /\ BreakerInv /\ CallInv

LEMMA RuntimeInvHolds == Spec => []RuntimeInv
<1> USE IntegrationAssumption
<1>1. Init => RuntimeInv
  <2> SUFFICES ASSUME Init PROVE RuntimeInv
    OBVIOUS
  <2>1. CallInv
    <3>1. attempt = [c \in Calls |-> 1] /\ pc = [c \in Calls |-> "checking"]
      BY DEF Init
    <3>2. MaxAttempts \in [Calls -> Nat \ {0}] /\ RateLimit \in Nat
      BY DEF IntegrationAssumption
    <3>3. ASSUME NEW c \in Calls
          PROVE  /\ attempt[c] <= MaxAttempts[c]
                 /\ pc[c] = "backoff" => attempt[c] < MaxAttempts[c]
      BY <3>1, <3>2
    <3>4. /\ error \in [Calls -> Errors] /\ aborted \in [Calls -> {"no", "expired", "cancelled"}]
          /\ operations \in SUBSET [call : Calls, attempt : Nat \ {0}] /\ cooled \in BOOLEAN
      BY DEF Init, Errors
    <3>6. used \in 0 .. RateLimit
      BY <3>2 DEF Init
    <3>5. pc \in [Calls -> PCs] /\ attempt \in [Calls -> Nat \ {0}]
      BY <3>1 DEF PCs
    <3> QED BY <3>3, <3>4, <3>5, <3>6, Zenon DEF CallInv
  <2> QED BY <2>1, InitLimiter, InitBreaker DEF RuntimeInv
<1>2. RuntimeInv /\ [Next]_vars => RuntimeInv'
  BY NextLimiter, NextBreaker, NextCalls DEF RuntimeInv
<1> QED BY <1>1, <1>2, PTL DEF Spec

\* A slot of the limiter is held exactly while a call is between its grant and its finally,
\* the half-open breaker keeps no place for a probe that is over, and a closed breaker is
\* below its threshold (limits.ts:12-70, circuit-breaker.ts, executor.ts), for every number
\* of calls and every limit.
THEOREM LimitsStaySound == Spec => []LimitsAreSound
<1>1. RuntimeInv => LimitsAreSound
  <2> SUFFICES ASSUME RuntimeInv PROVE LimitsAreSound
    OBVIOUS
  <2> USE DEF RuntimeInv
  <2>1. TypeOK
    <3>1. pc \in [Calls -> PCs] /\ queue \in Seq(Calls) /\ Len(queue) <= MaxQueue /\ active \in 0 .. Limit
      BY DEF LimiterInv, Queued
    <3>2. /\ probe \in [Calls -> BOOLEAN] /\ state \in {"closed", "open", "half_open"}
          /\ failures \in Nat /\ halfOpenActive \in Int
      BY DEF BreakerInv
    <3>3. /\ attempt \in [Calls -> Nat \ {0}] /\ \A c \in Calls : attempt[c] <= MaxAttempts[c]
          /\ error \in [Calls -> Errors] /\ aborted \in [Calls -> {"no", "expired", "cancelled"}]
          /\ cooled \in BOOLEAN /\ used \in 0 .. RateLimit
          /\ operations \in SUBSET [call : Calls, attempt : Nat \ {0}]
      BY Zenon DEF CallInv
    <3> QED BY <3>1, <3>2, <3>3, Zenon DEF TypeOK
  <2>2. ToSet(queue) = Waiting
    <3>1. queue \in Seq(Calls) /\ DOMAIN queue = 1 .. Len(queue)
      BY DEF LimiterInv, Queued
    <3> QED BY <3>1 DEF ToSet, LimiterInv, Queued
  <2>3. SlotsMatchHolders
    BY <2>2 DEF SlotsMatchHolders, LimiterInv, Queued
  <2> QED BY <2>1, <2>3 DEF LimitsAreSound, BreakerInv
<1> QED BY <1>1, RuntimeInvHolds, PTL

\* No operation of the provider starts for a call whose budget is aborted: a granted call
\* looks at its signal before it enters (executor.ts:122-131).
THEOREM AbortedStartNothing == Spec => AbortedStartsNothing
<1>1. RuntimeInv /\ [Next]_vars =>
        [\A c \in Calls : aborted[c] # "no" => {o \in operations' : o.call = c} \subseteq operations]_vars
  <2> SUFFICES ASSUME RuntimeInv, Next, NEW c \in Calls, aborted[c] # "no"
               PROVE  {o \in operations' : o.call = c} \subseteq operations
    OBVIOUS
  <2>1. CASE \E d \in Calls : Enter(d)
    <3>1. PICK d \in Calls : Enter(d)
      BY <2>1
    <3>2. CASE d = c
      BY <3>1, <3>2 DEF Enter, SignalAborted
    <3>3. CASE d # c
      BY <3>1, <3>3 DEF Enter, Operation
    <3> QED BY <3>2, <3>3
  <2>2. CASE ~\E d \in Calls : Enter(d)
    <3>1. operations' \subseteq operations
      BY <2>2 DEF Next, CallStep, Acquire, Finish, BackoffElapses, OperationSucceeds, OperationFails,
                  PhaseTimeout, BudgetExpires, CallerCancels, Abort, Abandon, LateSettlement,
                  CoolDown, Snapshot, WindowElapses
    <3> QED BY <3>1
  <2> QED BY <2>1, <2>2
<1> QED BY <1>1, RuntimeInvHolds, PTL DEF Spec, AbortedStartsNothing
=============================================================================
