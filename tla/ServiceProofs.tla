---------------------------- MODULE ServiceProofs ----------------------------
(***************************************************************************)
(* Proofs about the services of the platform modules, for any number of    *)
(* callers and any commands, and whatever their stores refuse or lose.     *)
(***************************************************************************)
EXTENDS TaskCenter, AuditTrail, Notifications, AppRegistry, AiGateway, FormSchema, Webhook,
        RabbitConnections, Workflow, Shells, Database, FileCenter, TLAPS

-----------------------------------------------------------------------------
(* The task center's projection.                                           *)

\* The source's history, and what was read of it: a snapshot in a reconciliation's hand
\* and the projected row are versions of it, and the row is no older than any event that
\* has its receipt.
ProjectionInv ==
  /\ \E n \in Nat \ {0} : DOMAIN source = 1 .. n
  /\ DOMAIN snapshot = Reconcilers
  /\ \A r \in Reconcilers :
       snapshot[r] # NoSnapshot => /\ snapshot[r].version \in DOMAIN source
                                   /\ snapshot[r].status = source[snapshot[r].version]
                                   /\ \E kind \in {"event", "snapshot"} :
                                        snapshot[r].id = <<kind, snapshot[r].version>>
  /\ projection = Row(projection)
  /\ projection # NoRow => /\ projection.version \in DOMAIN source
                           /\ projection.status = source[projection.version]
  /\ \A v \in Nat : <<"event", v>> \in projectionReceipts => projection.version >= v

\* The newest version is the last.
LEMMA NewestIsLast ==
  ASSUME NEW n \in Nat \ {0}, DOMAIN source = 1 .. n
  PROVE  Newest = n
<1>1. n \in DOMAIN source /\ \A u \in DOMAIN source : u <= n
  OBVIOUS
<1>2. ASSUME NEW m \in DOMAIN source, \A u \in DOMAIN source : u <= m
      PROVE  m = n
  BY <1>1, <1>2
<1> QED
  BY <1>1, <1>2 DEF Newest

LEMMA NextProjection ==
  ProjectionInv /\ [ProjectionNext]_projectionVars
    => ProjectionInv' /\ projection'.version >= projection.version
<1> SUFFICES ASSUME ProjectionInv, [ProjectionNext]_projectionVars
             PROVE  ProjectionInv' /\ projection'.version >= projection.version
  OBVIOUS
<1> PICK n \in Nat \ {0} : DOMAIN source = 1 .. n
  BY DEF ProjectionInv
<1>0. Newest = n
  BY NewestIsLast
<1>n. projection.version \in Nat
  BY DEF ProjectionInv, NoRow
<1>1. ASSUME NEW s \in TaskStatuses, SourceChanges(s)
      PROVE  ProjectionInv' /\ projection'.version >= projection.version
  <2>1. /\ DOMAIN source' = 1 .. (n + 1) /\ n + 1 \in Nat \ {0}
        /\ \A v \in DOMAIN source : v \in DOMAIN source' /\ source'[v] = source[v]
    BY <1>0, <1>1 DEF SourceChanges
  <2>2. projection'.version >= projection.version
    BY <1>n, <1>1 DEF SourceChanges
  <2>3. ASSUME NEW r \in Reconcilers, snapshot'[r] # NoSnapshot
        PROVE  /\ snapshot'[r].version \in DOMAIN source'
               /\ snapshot'[r].status = source'[snapshot'[r].version]
               /\ \E kind \in {"event", "snapshot"} :
                    snapshot'[r].id = <<kind, snapshot'[r].version>>
    BY <1>1, <2>1, <2>3 DEF SourceChanges, ProjectionInv
  <2> QED
    BY <1>1, <2>1, <2>2, <2>3 DEF SourceChanges, ProjectionInv, Row
<1>2. ASSUME NEW v \in DOMAIN source, Apply(v)
      PROVE  ProjectionInv' /\ projection'.version >= projection.version
  <2>1. projection' = IF v > projection.version THEN [version |-> v, status |-> source[v]]
                      ELSE projection
    BY <1>2 DEF Apply, EventOf, Supersedes, Row
  <2>2. /\ projectionReceipts' = projectionReceipts \cup {<<"event", v>>}
        /\ UNCHANGED <<source, snapshot>>
    BY <1>2 DEF Apply, EventOf
  <2>3. projection'.version >= projection.version /\ projection'.version >= v
    BY <1>n, <2>1
  <2>4. projection' = Row(projection)'
    BY <2>1 DEF Row, ProjectionInv
  <2>5. \A u \in Nat : <<"event", u>> \in projectionReceipts' => projection'.version >= u
    BY <1>n, <2>1, <2>2, <2>3 DEF ProjectionInv
  <2>6. projection' # NoRow => /\ projection'.version \in DOMAIN source
                               /\ projection'.status = source[projection'.version]
    BY <1>2, <2>1 DEF ProjectionInv
  <2>7. /\ \E m \in Nat \ {0} : DOMAIN source' = 1 .. m
        /\ DOMAIN snapshot' = Reconcilers
        /\ \A r \in Reconcilers :
             snapshot'[r] # NoSnapshot => /\ snapshot'[r].version \in DOMAIN source'
                                          /\ snapshot'[r].status = source'[snapshot'[r].version]
                                          /\ \E kind \in {"event", "snapshot"} :
                                               snapshot'[r].id = <<kind, snapshot'[r].version>>
    BY <2>2 DEF ProjectionInv
  <2>8. source' = source
    BY <2>2
  <2> QED
    BY <2>3, <2>4, <2>5, <2>6, <2>7, <2>8 DEF ProjectionInv
<1>3. ASSUME NEW r \in Reconcilers, NEW kind \in {"event", "snapshot"}, ReadSource(r, kind)
      PROVE  ProjectionInv' /\ projection'.version >= projection.version
  <2>1. snapshot' = [snapshot EXCEPT ![r] =
                       [id |-> <<kind, n>>, version |-> n, status |-> source[n]]]
    <3>1. [EventOf(n) EXCEPT !.id = <<kind, n>>]
            = [id |-> <<kind, n>>, version |-> n, status |-> source[n]]
      BY DEF EventOf
    <3> QED
      BY <1>0, <1>3, <3>1 DEF ReadSource
  <2> QED
    BY <1>n, <1>3, <2>1 DEF ReadSource, ProjectionInv, Row
<1>4. ASSUME NEW r \in Reconcilers, Reconcile(r)
      PROVE  ProjectionInv' /\ projection'.version >= projection.version
  <2>1. CASE snapshot[r].version < projection.version
    BY <1>n, <1>4, <2>1 DEF Reconcile, ProjectionInv, Row
  <2>2. CASE ~(snapshot[r].version < projection.version)
    <3> DEFINE v == snapshot[r].version
    <3>1. /\ v \in DOMAIN source /\ v \in Nat /\ v >= projection.version
          /\ \A u \in Nat : snapshot[r].id = <<"event", u>> => u = v
          /\ snapshot[r].status = source[v]
      BY <1>n, <1>4, <2>2 DEF Reconcile, ProjectionInv
    <3>2. /\ projection' = [version |-> v, status |-> source[v]]
          /\ projectionReceipts' = projectionReceipts \cup {snapshot[r].id}
          /\ snapshot' = [snapshot EXCEPT ![r] = NoSnapshot]
          /\ UNCHANGED source
      BY <1>4, <2>2, <3>1 DEF Reconcile, Row
    <3>3. \A u \in Nat : <<"event", u>> \in projectionReceipts' => projection'.version >= u
      BY <1>n, <3>1, <3>2 DEF ProjectionInv
    <3>4. projection' = Row(projection)'
      BY <3>2 DEF Row
    <3> QED
      BY <3>1, <3>2, <3>3, <3>4 DEF ProjectionInv
  <2> QED
    BY <2>1, <2>2
<1>5. ASSUME NEW r \in Reconcilers, ReconcileFails(r)
      PROVE  ProjectionInv' /\ projection'.version >= projection.version
  BY <1>n, <1>5 DEF ReconcileFails, ProjectionInv, Row
<1>6. CASE UNCHANGED projectionVars
  BY <1>n, <1>6 DEF projectionVars, ProjectionInv, Row
<1> QED
  BY <1>1, <1>2, <1>3, <1>4, <1>5, <1>6 DEF ProjectionNext

LEMMA ProjectionInvHolds ==
  ProjectionSpec => []ProjectionInv /\ NeverOlder
<1>1. ProjectionInit => ProjectionInv
  BY DEF ProjectionInit, ProjectionInv, NoRow, Row
<1> QED
  BY <1>1, NextProjection, PTL DEF ProjectionSpec, NeverOlder

\* The projection is a version of the task, the newest once every event has its receipt,
\* and never turns back: for any number of versions and reconciliations, and any order
\* and repetition of events (postgres-store.ts:40-63).
THEOREM ProjectionStaysNewest == ProjectionSpec => ProjectionIsNewest
<1>1. ProjectionInv => ProjectionSettles
  <2> SUFFICES ASSUME ProjectionInv, \A v \in DOMAIN source : EventOf(v).id \in projectionReceipts
               PROVE  projection = Row(EventOf(Newest))
    BY DEF ProjectionInv, ProjectionSettles
  <2> PICK n \in Nat \ {0} : DOMAIN source = 1 .. n
    BY DEF ProjectionInv
  <2>1. projection.version >= n
    <3>1. n \in DOMAIN source /\ EventOf(n).id = <<"event", n>>
      BY DEF EventOf
    <3> QED
      BY <3>1 DEF ProjectionInv
  <2>2. projection.version = n /\ projection.status = source[n]
    BY <2>1 DEF ProjectionInv, NoRow
  <2> QED
    BY <2>2, NewestIsLast DEF ProjectionInv, Row, EventOf
<1> QED
  BY <1>1, ProjectionInvHolds, PTL DEF ProjectionIsNewest

-----------------------------------------------------------------------------
(* The task center's completion command.                                   *)

\* Every answer that is told is the recorded one: what is told is recorded with it, and
\* a recorded answer is never replaced (service.ts:20).
LEMMA OneAnswerStays == CommandSpec => []OneAnswer
<1>1. CommandInit => OneAnswer
  BY DEF CommandInit, OneAnswer
<1>2. OneAnswer /\ [CommandNext]_commandVars => OneAnswer'
  <2> SUFFICES ASSUME OneAnswer, [CommandNext]_commandVars PROVE OneAnswer'
    OBVIOUS
  <2>1. CASE TaskTick
    BY <2>1 DEF TaskTick, OneAnswer
  <2>2. ASSUME NEW r \in TaskCallers, Claim(r) PROVE OneAnswer'
    BY <2>2 DEF Claim, Claimable, OneAnswer
  <2>3. ASSUME NEW r \in TaskCallers, ClaimAnswered(r) PROVE OneAnswer'
    BY <2>3 DEF ClaimAnswered, OneAnswer
  <2>4. ASSUME NEW r \in TaskCallers, RouterFails(r) PROVE OneAnswer'
    BY <2>4 DEF RouterFails, HoldsCommand, OneAnswer
  <2>5. ASSUME NEW r \in TaskCallers, Accept(r) PROVE OneAnswer'
    BY <2>5 DEF Accept, HoldsCommand, OneAnswer
  <2>6. ASSUME NEW r \in TaskCallers,
               \/ \E a \in TaskActors : CallComplete(r, a)
               \/ SourceExecutes(r) \/ TaskCallerDies(r)
        PROVE  OneAnswer'
    BY <2>6 DEF CallComplete, SourceExecutes, TaskCallerDies, OneAnswer
  <2>7. CASE UNCHANGED commandVars
    BY <2>7 DEF commandVars, OneAnswer
  <2> QED
    BY <2>1, <2>2, <2>3, <2>4, <2>5, <2>6, <2>7 DEF CommandNext
<1> QED
  BY <1>1, <1>2, PTL DEF CommandSpec

\* The task center as a whole: the projection it shows and the answers it gives.
THEOREM TaskCenterStaysSound == ProjectionSpec /\ CommandSpec => TaskCenterIsSound
BY ProjectionStaysNewest, OneAnswerStays, PTL DEF TaskCenterIsSound

-----------------------------------------------------------------------------
(* The audit trail.                                                        *)

\* Receipts and records stand for each other, both ways.
TrailAgrees ==
  OneFactPerOperation /\ \A i \in DOMAIN records : records[i].operation \in DOMAIN auditReceipts

\* What a sensitive read holds at each place; what it found is on record, and so is the
\* access, once it is disclosed.
ReadHolds(k) ==
  LET call == auditCalls[k] IN
    /\ call.at \in {"idle", "deciding", "finding", "found", "disclosed"}
    /\ call.at \in {"deciding", "finding"} =>
         call = [at |-> call.at, operation |-> call.operation, target |-> call.target]
    /\ call.at \in {"found", "disclosed"} =>
         /\ call = [at |-> call.at, operation |-> call.operation, target |-> call.target,
                    record |-> call.record]
         /\ call.target \in DOMAIN records /\ records[call.target] = call.record
    /\ call.at = "disclosed" =>
         \E i \in DOMAIN records :
           records[i] = [operation |-> call.operation,
                         meaning |-> ReadMeaning(call.target, "succeeded")]

AuditInv == TrailAgrees /\ DOMAIN auditCalls = AuditCallers /\ \A k \in AuditCallers : ReadHolds(k)

RecordsStay == \A i \in DOMAIN records : i \in DOMAIN records' /\ records'[i] = records[i]

\* Appending keeps what is on record, and leaves the fact there.
LEMMA AppendsKeep ==
  ASSUME TrailAgrees, NEW o, NEW meaning, NEW id, Appends(o, meaning, id)
  PROVE  /\ TrailAgrees' /\ RecordsStay
         /\ \E i \in DOMAIN records' : records'[i] = [operation |-> o, meaning |-> meaning]
<1>1. CASE Inserts(o, meaning, id)
  <2>1. /\ DOMAIN records' = DOMAIN records \cup {id} /\ id \notin DOMAIN records
        /\ records'[id] = [operation |-> o, meaning |-> meaning]
        /\ RecordsStay
    BY <1>1 DEF Inserts, RecordsStay
  <2>2. /\ DOMAIN auditReceipts' = DOMAIN auditReceipts \cup {o} /\ o \notin DOMAIN auditReceipts
        /\ auditReceipts'[o] = [id |-> id, meaning |-> meaning]
        /\ \A p \in DOMAIN auditReceipts : auditReceipts'[p] = auditReceipts[p]
    BY <1>1 DEF Inserts, OnRecord
  <2>3. OneFactPerOperation'
    <3>1. ASSUME NEW p \in DOMAIN auditReceipts'
          PROVE  /\ auditReceipts'[p].id \in DOMAIN records'
                 /\ records'[auditReceipts'[p].id]
                      = [operation |-> p, meaning |-> auditReceipts'[p].meaning]
      BY <2>1, <2>2 DEF TrailAgrees, OneFactPerOperation, RecordsStay
    <3>2. ASSUME NEW i \in DOMAIN records' PROVE auditReceipts'[records'[i].operation].id = i
      BY <2>1, <2>2 DEF TrailAgrees, OneFactPerOperation, RecordsStay
    <3> QED
      BY <3>1, <3>2 DEF OneFactPerOperation
  <2>4. \A i \in DOMAIN records' : records'[i].operation \in DOMAIN auditReceipts'
    BY <2>1, <2>2 DEF TrailAgrees, RecordsStay
  <2> QED
    BY <2>1, <2>3, <2>4 DEF TrailAgrees
<1>2. CASE Replays(o, meaning) /\ UNCHANGED <<records, auditReceipts>>
  <2>1. records[auditReceipts[o].id] = [operation |-> o, meaning |-> meaning]
    BY <1>2 DEF Replays, OnRecord, TrailAgrees, OneFactPerOperation
  <2>2. auditReceipts[o].id \in DOMAIN records
    BY <1>2 DEF Replays, OnRecord, TrailAgrees, OneFactPerOperation
  <2> QED
    BY <1>2, <2>1, <2>2 DEF TrailAgrees, OneFactPerOperation, RecordsStay
<1> QED
  BY <1>1, <1>2 DEF Appends

\* A read stays as it is while records are added, and so do those of the others.
LEMMA OthersKeep ==
  ASSUME AuditInv, RecordsStay, NEW k \in AuditCallers, auditCalls'[k] = auditCalls[k]
  PROVE  ReadHolds(k)'
BY DEF AuditInv, ReadHolds, RecordsStay, ReadMeaning

\* A step of one sensitive read, with what it records.
LEMMA ReadStep ==
  ASSUME AuditInv, NEW k \in AuditCallers, NEW after, TrailAgrees', RecordsStay,
         auditCalls' = [auditCalls EXCEPT ![k] = after], ReadHolds(k)'
  PROVE  AuditInv'
<1>1. ASSUME NEW j \in AuditCallers PROVE ReadHolds(j)'
  <2>1. j # k => auditCalls'[j] = auditCalls[j]
    BY DEF AuditInv
  <2> QED
    BY <2>1, OthersKeep
<1> QED
  BY <1>1 DEF AuditInv

LEMMA NextAudit == AuditInv /\ [AuditNext]_auditVars => AuditInv'
<1> SUFFICES ASSUME AuditInv, [AuditNext]_auditVars PROVE AuditInv'
  OBVIOUS
<1> USE DEF ReadingAt, ReadingEnds
<1>0. /\ TrailAgrees /\ DOMAIN auditCalls = AuditCallers
      /\ \A k \in AuditCallers : ReadHolds(k)
  BY DEF AuditInv
<1>u. ASSUME UNCHANGED <<records, auditReceipts>> PROVE TrailAgrees' /\ RecordsStay
  BY <1>0, <1>u DEF TrailAgrees, OneFactPerOperation, RecordsStay
<1>1. ASSUME NEW o \in AuditOperations, NEW m \in Meanings, NEW id \in AuditIds, RecordFact(o, m, id)
      PROVE  AuditInv'
  <2>1. TrailAgrees' /\ RecordsStay
    BY <1>0, <1>1, AppendsKeep DEF RecordFact, Appends
  <2>2. UNCHANGED auditCalls
    BY <1>1 DEF RecordFact
  <2> QED
    BY <1>0, <2>1, <2>2, OthersKeep DEF AuditInv
<1>2. ASSUME NEW k \in AuditCallers, NEW o \in AuditOperations, NEW target \in AuditIds,
             ReadSensitive(k, o, target)
      PROVE  AuditInv'
  <2> DEFINE after == [at |-> "deciding", operation |-> o, target |-> target]
  <2>1. ReadHolds(k)'
    BY <1>0, <1>2 DEF ReadSensitive, ReadHolds
  <2> QED
    BY <1>2, <1>u, <2>1, ReadStep DEF ReadSensitive
<1>3. ASSUME NEW k \in AuditCallers, ReadAllowed(k) PROVE AuditInv'
  <2> DEFINE after == [auditCalls[k] EXCEPT !.at = "finding"]
  <2>1. after = [at |-> "finding", operation |-> auditCalls[k].operation,
                 target |-> auditCalls[k].target]
    BY <1>0, <1>3 DEF ReadAllowed, ReadHolds
  <2>2. auditCalls' = [auditCalls EXCEPT ![k] = after]
    BY <1>3 DEF ReadAllowed
  <2>3. ReadHolds(k)'
    BY <1>0, <2>1, <2>2 DEF ReadHolds
  <2> QED
    BY <1>3, <1>u, <2>2, <2>3, ReadStep DEF ReadAllowed
<1>4. ASSUME NEW k \in AuditCallers, ReadDenied(k) \/ FindFails(k) \/ DiscloseFails(k) \/ Told(k)
      PROVE  AuditInv'
  <2>1. TrailAgrees' /\ RecordsStay
    BY <1>0, <1>4, <1>u, AppendsKeep DEF ReadDenied, FindFails, DiscloseFails, Told
  <2>2. auditCalls' = [auditCalls EXCEPT ![k] = NoAuditCall]
    BY <1>4 DEF ReadDenied, FindFails, DiscloseFails, Told
  <2>3. ReadHolds(k)'
    BY <1>0, <2>2 DEF ReadHolds, NoAuditCall
  <2> QED
    BY <2>1, <2>2, <2>3, ReadStep
<1>5. ASSUME NEW k \in AuditCallers, Find(k) PROVE AuditInv'
  <2> DEFINE call == auditCalls[k]
             after == [at |-> "found", operation |-> call.operation, target |-> call.target,
                       record |-> records[call.target]]
  <2>1. auditCalls' = [auditCalls EXCEPT ![k] = after] /\ call.target \in DOMAIN records
    BY <1>5 DEF Find
  <2>2. ReadHolds(k)'
    BY <1>0, <1>5, <2>1 DEF ReadHolds, Find
  <2> QED
    BY <1>5, <1>u, <2>1, <2>2, ReadStep DEF Find
<1>6. ASSUME NEW k \in AuditCallers, Disclose(k) PROVE AuditInv'
  <2> DEFINE call == auditCalls[k]
             after == [call EXCEPT !.at = "disclosed"]
  <2>1. PICK id \in AuditIds :
          Appends(call.operation, ReadMeaning(call.target, "succeeded"), id)
    BY <1>6 DEF Disclose
  <2>2. /\ TrailAgrees' /\ RecordsStay
        /\ \E i \in DOMAIN records' :
             records'[i] = [operation |-> call.operation,
                            meaning |-> ReadMeaning(call.target, "succeeded")]
    BY <1>0, <2>1, AppendsKeep
  <2>3. auditCalls' = [auditCalls EXCEPT ![k] = after]
    BY <1>6 DEF Disclose
  <2>4. after = [at |-> "disclosed", operation |-> call.operation, target |-> call.target,
                 record |-> call.record]
    BY <1>0, <1>6 DEF Disclose, ReadHolds
  <2>5. call.target \in DOMAIN records' /\ records'[call.target] = call.record
    BY <1>0, <1>6, <2>2 DEF Disclose, ReadHolds, RecordsStay
  <2>6. ReadHolds(k)'
    BY <1>0, <2>2, <2>3, <2>4, <2>5 DEF ReadHolds, ReadMeaning
  <2> QED
    BY <2>2, <2>3, <2>6, ReadStep
<1>7. CASE UNCHANGED auditVars
  BY <1>0, <1>7, <1>u, OthersKeep DEF auditVars, AuditInv
<1> QED
  BY <1>1, <1>2, <1>3, <1>4, <1>5, <1>6, <1>7 DEF AuditNext

\* Whoever is shown a record is on record as having been shown it, and an operation is
\* one fact: for any callers, operations, ids and meanings (service.ts readSensitive,
\* postgres-store.ts:17-33).
THEOREM TrailStaysSound == AuditSpec => []TrailIsSound
<1>1. AuditInit => AuditInv
  BY DEF AuditInit, AuditInv, TrailAgrees, OneFactPerOperation, ReadHolds, NoAuditCall
<1>2. AuditInv => TrailIsSound
  BY DEF AuditInv, TrailAgrees, ReadHolds, TrailIsSound, DisclosureIsRecorded, ReadingAt
<1> QED
  BY <1>1, <1>2, NextAudit, PTL DEF AuditSpec

-----------------------------------------------------------------------------
(* Notifications.                                                          *)

IsNotice(row) ==
  row = [body |-> row.body, release |-> row.release, delivered |-> row.delivered,
         marks |-> row.marks]

IsIntent(stored) == stored = [intent |-> stored.intent, result |-> stored.result]

\* The intents, the notifications they have, each with the text of its release.
IntentsAgree ==
  /\ DOMAIN notices = UNION {intents[i].result : i \in DOMAIN intents}
  /\ \A i \in DOMAIN intents :
       intents[i].result = {n \in DOMAIN notices : n[1] = intents[i].intent.id}
  /\ \A i \in DOMAIN intents : IsIntent(intents[i])
  /\ noticeFacts \subseteq DOMAIN intents

NoticesAgree ==
  \A n \in DOMAIN notices :
    /\ IsNotice(notices[n])
    /\ notices[n].release \in Releases /\ templates[notices[n].release] # Unpublished
    /\ notices[n].body = templates[notices[n].release]
    /\ ~notices[n].delivered => notices[n].marks = {}

\* What a request holds at each place: the text of a release that was published, a result
\* that is stored, a notification that was delivered.
NoticeHolds(k) ==
  LET call == noticeCalls[k] IN
    /\ call.at \in {"idle", "finding", "accepting", "finishing", "told", "marking"}
    /\ call.at \in {"finding", "accepting"} => call.intent.release \in Releases
    /\ call.at = "accepting" => /\ templates[call.intent.release] # Unpublished
                                /\ call.body = templates[call.intent.release]
    /\ call.at \in {"finishing", "told"} =>
         /\ call = [at |-> call.at, key |-> call.key, intent |-> call.intent,
                    result |-> call.result]
         /\ call.key \in DOMAIN intents
         /\ intents[call.key] = [intent |-> call.intent, result |-> call.result]
    /\ call.at = "marking" => call.notice \in DOMAIN notices /\ notices[call.notice].delivered

NoticeInv ==
  /\ DOMAIN templates = Releases /\ DOMAIN noticeCalls = NotificationCallers
  /\ IntentsAgree /\ NoticesAgree
  /\ \A k \in NotificationCallers : NoticeHolds(k)

\* What no step of the notifications takes back.
NoticesStay ==
  /\ DOMAIN templates' = Releases
  /\ \A r \in Releases : templates[r] # Unpublished => templates'[r] = templates[r]
  /\ \A i \in DOMAIN intents : i \in DOMAIN intents' /\ intents'[i] = intents[i]
  /\ \A n \in DOMAIN notices :
       n \in DOMAIN notices' /\ notices'[n].delivered = notices[n].delivered

\* A step of one request, or of none, that takes nothing back.
LEMMA NoticeStep ==
  ASSUME NoticeInv, NoticesStay, IntentsAgree', NoticesAgree',
         \/ UNCHANGED noticeCalls
         \/ \E k \in NotificationCallers : \E after :
              noticeCalls' = [noticeCalls EXCEPT ![k] = after] /\ NoticeHolds(k)'
  PROVE  NoticeInv'
<1>1. ASSUME NEW j \in NotificationCallers, noticeCalls'[j] = noticeCalls[j]
      PROVE  NoticeHolds(j)'
  BY <1>1 DEF NoticeInv, NoticeHolds, NoticesStay
<1>2. CASE UNCHANGED noticeCalls
  BY <1>1, <1>2 DEF NoticeInv, NoticesStay
<1>3. ASSUME NEW k \in NotificationCallers, NEW after,
             noticeCalls' = [noticeCalls EXCEPT ![k] = after], NoticeHolds(k)'
      PROVE  NoticeInv'
  <2>1. \A j \in NotificationCallers : j # k => noticeCalls'[j] = noticeCalls[j]
    BY <1>3 DEF NoticeInv
  <2>2. DOMAIN noticeCalls' = NotificationCallers
    BY <1>3 DEF NoticeInv
  <2>3. \A j \in NotificationCallers : NoticeHolds(j)'
    BY <1>1, <1>3, <2>1
  <2> QED
    BY <2>2, <2>3 DEF NoticeInv, NoticesStay
<1> QED
  BY <1>2, <1>3

\* An intent that is accepted is stored with its notifications, and they with it.
LEMMA AcceptStores ==
  ASSUME NoticeInv, NEW call,
         call.intent.release \in Releases, templates[call.intent.release] # Unpublished,
         call.body = templates[call.intent.release],
         ~IntentKnown(call.key), \A i \in DOMAIN intents : intents[i].intent.id # call.intent.id,
         intents' = StoredIntent(call), notices' = Rows(call), UNCHANGED <<templates, noticeFacts>>
  PROVE  NoticesStay /\ IntentsAgree' /\ NoticesAgree'
<1> DEFINE result == ResultOf(call)
<1>1. /\ DOMAIN intents' = DOMAIN intents \cup {call.key}
      /\ intents'[call.key] = [intent |-> call.intent, result |-> result]
      /\ \A i \in DOMAIN intents : i # call.key /\ intents'[i] = intents[i]
  BY DEF StoredIntent, IntentKnown
<1>2. /\ DOMAIN notices' = DOMAIN notices \cup result
      /\ \A n \in DOMAIN notices : notices'[n] = notices[n]
      /\ \A n \in result \ DOMAIN notices :
           /\ IsNotice(notices'[n]) /\ notices'[n].body = call.body
           /\ notices'[n].release = call.intent.release /\ notices'[n].marks = {}
  BY DEF Rows, IsNotice
<1>3. \A n \in result : n[1] = call.intent.id
  BY DEF ResultOf
<1> HIDE DEF result
<1>4. \A n \in DOMAIN notices : n[1] # call.intent.id
  BY DEF NoticeInv, IntentsAgree
<1>5. NoticesStay
  BY <1>1, <1>2 DEF NoticesStay, NoticeInv
<1>6. NoticesAgree'
  BY <1>2 DEF NoticesAgree, NoticeInv
<1>7. IntentsAgree'
  <2>1. DOMAIN notices' = UNION {intents'[i].result : i \in DOMAIN intents'}
    BY <1>1, <1>2 DEF NoticeInv, IntentsAgree
  <2>2. ASSUME NEW i \in DOMAIN intents'
        PROVE  intents'[i].result = {n \in DOMAIN notices' : n[1] = intents'[i].intent.id}
    <3>1. CASE i = call.key
      BY <1>1, <1>2, <1>3, <1>4, <3>1
    <3>2. CASE i # call.key
      <4>1. i \in DOMAIN intents /\ intents'[i] = intents[i] /\ intents[i].intent.id # call.intent.id
        BY <1>1, <3>2
      <4>2. intents[i].result = {n \in DOMAIN notices : n[1] = intents[i].intent.id}
        BY <4>1 DEF NoticeInv, IntentsAgree
      <4> QED
        BY <1>2, <1>3, <4>1, <4>2
    <3> QED
      BY <3>1, <3>2
  <2>3. noticeFacts' \subseteq DOMAIN intents' /\ \A i \in DOMAIN intents' : IsIntent(intents'[i])
    BY <1>1 DEF NoticeInv, IntentsAgree, IsIntent
  <2> QED
    BY <2>1, <2>2, <2>3 DEF IntentsAgree
<1> QED
  BY <1>5, <1>6, <1>7

LEMMA NextNotification == NoticeInv /\ [NotificationNext]_notificationVars => NoticeInv'
<1> SUFFICES ASSUME NoticeInv, [NotificationNext]_notificationVars PROVE NoticeInv'
  OBVIOUS
<1> USE DEF NoticeAt, NoticeEnds, IntentKnown
<1>0. /\ DOMAIN templates = Releases /\ DOMAIN noticeCalls = NotificationCallers
      /\ IntentsAgree /\ NoticesAgree /\ \A k \in NotificationCallers : NoticeHolds(k)
  BY DEF NoticeInv
<1>u. ASSUME UNCHANGED <<templates, intents, notices>>,
             noticeFacts' \subseteq noticeFacts \cup DOMAIN intents
      PROVE  NoticesStay /\ IntentsAgree' /\ NoticesAgree'
  BY <1>0, <1>u DEF NoticesStay, IntentsAgree, NoticesAgree
<1>1. ASSUME NEW r \in Releases, NEW t \in Templates, PublishTemplate(r, t) PROVE NoticeInv'
  <2>1. /\ DOMAIN templates' = Releases
        /\ \A q \in Releases : templates[q] # Unpublished => templates'[q] = templates[q]
        /\ UNCHANGED <<intents, notices, noticeCalls, noticeFacts>>
    BY <1>0, <1>1 DEF PublishTemplate
  <2>2. NoticesStay /\ IntentsAgree' /\ NoticesAgree'
    BY <1>0, <2>1 DEF NoticesStay, IntentsAgree, NoticesAgree
  <2> QED
    BY <2>1, <2>2, NoticeStep
<1>2. ASSUME NEW k \in NotificationCallers, NEW key \in IntentKeys, NEW intent \in IntentsOf[key],
             Submit(k, key, intent)
      PROVE  NoticeInv'
  <2> DEFINE after == [at |-> "finding", key |-> key, intent |-> intent]
  <2>1. noticeCalls' = [noticeCalls EXCEPT ![k] = after]
    BY <1>2 DEF Submit
  <2>2. NoticeHolds(k)'
    BY <1>0, <2>1, NotificationAssumption DEF NoticeHolds
  <2> QED
    BY <1>2, <1>u, <2>1, <2>2, NoticeStep DEF Submit
<1>3. ASSUME NEW k \in NotificationCallers, FoundIntent(k) PROVE NoticeInv'
  <2> DEFINE call == noticeCalls[k]
             after == [at |-> "finishing", key |-> call.key, intent |-> call.intent,
                       result |-> intents[call.key].result]
  <2>1. noticeCalls' = [noticeCalls EXCEPT ![k] = after] /\ UNCHANGED <<templates, intents, notices>>
    BY <1>3 DEF FoundIntent
  <2>2. /\ call.key \in DOMAIN intents
        /\ intents[call.key] = [intent |-> call.intent, result |-> intents[call.key].result]
    BY <1>0, <1>3 DEF FoundIntent, IntentsAgree, IsIntent
  <2>3. NoticeHolds(k)'
    BY <1>0, <2>1, <2>2 DEF NoticeHolds
  <2> QED
    BY <1>3, <1>u, <2>1, <2>3, NoticeStep DEF FoundIntent
<1>4. ASSUME NEW k \in NotificationCallers, Resolve(k) PROVE NoticeInv'
  <2> DEFINE call == noticeCalls[k]
  <2>1. PICK r \in Resolutions :
          noticeCalls' = [noticeCalls EXCEPT ![k] =
            [at |-> "accepting", key |-> call.key, intent |-> call.intent,
             body |-> templates[call.intent.release], to |-> r.to, suppressed |-> r.suppressed]]
    BY <1>4 DEF Resolve
  <2>2. NoticeHolds(k)'
    BY <1>0, <1>4, <2>1 DEF NoticeHolds, Resolve
  <2> QED
    BY <1>4, <1>u, <2>1, <2>2, NoticeStep DEF Resolve
<1>5. ASSUME NEW k \in NotificationCallers, AcceptIntent(k) PROVE NoticeInv'
  <2> DEFINE call == noticeCalls[k]
  <2>1. /\ call.at = "accepting" /\ call.intent.release \in Releases
        /\ templates[call.intent.release] # Unpublished
        /\ call.body = templates[call.intent.release]
    BY <1>0, <1>5 DEF AcceptIntent, NoticeHolds
  <2>2. CASE call.key \in DOMAIN intents
    <3> DEFINE after == Finishing(call, intents[call.key].result)
    <3>1. /\ noticeCalls' = [noticeCalls EXCEPT ![k] = after]
          /\ UNCHANGED <<templates, intents, notices, noticeFacts>>
          /\ intents[call.key] = [intent |-> call.intent, result |-> intents[call.key].result]
      BY <1>0, <1>5, <2>2 DEF AcceptIntent, IntentsAgree, IsIntent
    <3>2. NoticeHolds(k)'
      BY <1>0, <2>2, <3>1 DEF NoticeHolds, Finishing
    <3> QED
      BY <1>u, <3>1, <3>2, NoticeStep
  <2>3. CASE call.key \notin DOMAIN intents
    <3>1. /\ \A i \in DOMAIN intents : intents[i].intent.id # call.intent.id
          /\ intents' = StoredIntent(call) /\ notices' = Rows(call)
          /\ UNCHANGED <<templates, noticeFacts>>
      BY <1>5, <2>3 DEF AcceptIntent
    <3>2. NoticesStay /\ IntentsAgree' /\ NoticesAgree'
      BY <2>1, <2>3, <3>1, AcceptStores
    <3>3. PICK after \in {Finishing(call, ResultOf(call)), NoNoticeCall} :
            noticeCalls' = [noticeCalls EXCEPT ![k] = after]
      BY <1>5, <2>3 DEF AcceptIntent
    <3>4. /\ call.key \in DOMAIN intents'
          /\ intents'[call.key] = [intent |-> call.intent, result |-> ResultOf(call)]
      BY <3>1 DEF StoredIntent
    <3>5. noticeCalls'[k] = after
      BY <1>0, <3>3
    <3>6. NoticeHolds(k)'
      BY <3>4, <3>5 DEF NoticeHolds, Finishing, NoNoticeCall
    <3> QED
      BY <3>2, <3>3, <3>6, NoticeStep
  <2> QED
    BY <2>2, <2>3
<1>6. ASSUME NEW k \in NotificationCallers, SubmitFails(k) \/ SubmitEnds(k) \/ MarkFails(k)
      PROVE  NoticeInv'
  <2>1. /\ noticeCalls' = [noticeCalls EXCEPT ![k] = NoNoticeCall]
        /\ UNCHANGED <<templates, intents, notices, noticeFacts>>
    BY <1>6 DEF SubmitFails, SubmitEnds, MarkFails
  <2>2. NoticeHolds(k)'
    BY <1>0, <2>1 DEF NoticeHolds, NoNoticeCall
  <2> QED
    BY <1>u, <2>1, <2>2, NoticeStep
<1>7. ASSUME NEW k \in NotificationCallers, FinishSubmit(k) PROVE NoticeInv'
  <2> DEFINE call == noticeCalls[k]
  <2>1. /\ call = [at |-> "finishing", key |-> call.key, intent |-> call.intent,
                   result |-> call.result]
        /\ call.key \in DOMAIN intents
        /\ intents[call.key] = [intent |-> call.intent, result |-> call.result]
    BY <1>0, <1>7 DEF FinishSubmit, NoticeHolds
  <2>2. NoticesStay /\ IntentsAgree' /\ NoticesAgree'
    BY <1>7, <1>u, <2>1 DEF FinishSubmit
  <2>3. CASE noticeCalls' = [noticeCalls EXCEPT ![k] = NoNoticeCall]
    <3>1. NoticeHolds(k)'
      BY <1>0, <2>3 DEF NoticeHolds, NoNoticeCall
    <3> QED
      BY <2>2, <2>3, <3>1, NoticeStep
  <2>4. CASE noticeCalls' = [noticeCalls EXCEPT ![k].at = "told"]
    <3> DEFINE after == [at |-> "told", key |-> call.key, intent |-> call.intent,
                         result |-> call.result]
    <3>1. [call EXCEPT !.at = "told"] = after
      BY <2>1
    <3>2. noticeCalls' = [noticeCalls EXCEPT ![k] = after]
      BY <2>4, <3>1
    <3>3. UNCHANGED intents
      BY <1>7 DEF FinishSubmit
    <3>4. NoticeHolds(k)'
      BY <1>0, <2>1, <3>2, <3>3 DEF NoticeHolds
    <3> QED
      BY <2>2, <3>2, <3>4, NoticeStep
  <2> QED
    BY <1>7, <2>3, <2>4 DEF FinishSubmit
<1>8. ASSUME NEW k \in NotificationCallers, NEW n \in DOMAIN notices, NEW mark \in Marks,
             ReadNotice(k, n, mark)
      PROVE  NoticeInv'
  <2>1. NoticeHolds(k)'
    BY <1>0, <1>8 DEF ReadNotice, NoticeHolds
  <2> QED
    BY <1>8, <1>u, <2>1, NoticeStep DEF ReadNotice
<1>9. ASSUME NEW k \in NotificationCallers, MarkNotice(k) PROVE NoticeInv'
  <2> DEFINE n == noticeCalls[k].notice
             row == notices[n]
             marks == row.marks \cup {noticeCalls[k].mark}
  <2>1. n \in DOMAIN notices /\ row.delivered
    BY <1>0, <1>9 DEF MarkNotice, NoticeHolds
  <2>2. /\ notices' = [notices EXCEPT ![n] = [row EXCEPT !.marks = marks]]
        /\ noticeCalls' = [noticeCalls EXCEPT ![k] = NoNoticeCall]
        /\ UNCHANGED <<templates, intents, noticeFacts>>
    BY <1>9 DEF MarkNotice
  <2>3. [row EXCEPT !.marks = marks]
          = [body |-> row.body, release |-> row.release, delivered |-> row.delivered,
             marks |-> marks]
    <3>1. IsNotice(row)
      BY <1>0, <2>1 DEF NoticesAgree
    <3> HIDE DEF marks
    <3> QED
      BY <3>1 DEF IsNotice
  <2>4. /\ DOMAIN notices' = DOMAIN notices
        /\ \A p \in DOMAIN notices : p # n => notices'[p] = notices[p]
        /\ notices'[n] = [body |-> row.body, release |-> row.release,
                          delivered |-> row.delivered, marks |-> marks]
    BY <2>1, <2>2, <2>3
  <2>5. NoticesStay
    BY <1>0, <2>1, <2>2, <2>4 DEF NoticesStay
  <2>6. IntentsAgree'
    BY <1>0, <2>2, <2>4 DEF IntentsAgree
  <2>7. ASSUME NEW p \in DOMAIN notices'
        PROVE  /\ IsNotice(notices'[p])
               /\ notices'[p].release \in Releases /\ templates[notices'[p].release] # Unpublished
               /\ notices'[p].body = templates[notices'[p].release]
               /\ ~notices'[p].delivered => notices'[p].marks = {}
    <3>1. CASE p = n
      BY <1>0, <2>1, <2>4, <3>1 DEF NoticesAgree, IsNotice
    <3>2. CASE p # n
      BY <1>0, <2>4, <3>2 DEF NoticesAgree
    <3> QED
      BY <3>1, <3>2
  <2>8. NoticesAgree'
    BY <2>2, <2>7 DEF NoticesAgree
  <2>9. NoticeHolds(k)'
    BY <1>0, <2>2 DEF NoticeHolds, NoNoticeCall
  <2> QED
    BY <2>2, <2>5, <2>6, <2>8, <2>9, NoticeStep
<1>10. CASE UNCHANGED notificationVars
  BY <1>10, <1>u, NoticeStep DEF notificationVars
<1> QED
  BY <1>1, <1>2, <1>3, <1>4, <1>5, <1>6, <1>7, <1>8, <1>9, <1>10 DEF NotificationNext

\* What is told of an intent is what was stored with it, its result is the notifications
\* it has, with the text of the release they name: for any requests, resolutions and
\* publications (postgres-store.ts acceptIntent).
THEOREM NotificationsStayExact == NotificationSpec => []NotificationsAreExact
<1>1. NotificationInit => NoticeInv
  BY DEF NotificationInit, NoticeInv, IntentsAgree, NoticesAgree, NoticeHolds, NoNoticeCall
<1>2. NoticeInv => NotificationsAreExact
  BY DEF NoticeInv, IntentsAgree, NoticesAgree, NoticeHolds, NotificationsAreExact,
         IntentsAreExact, NoticesAreFaithful, IntentKnown
<1> QED
  BY <1>1, <1>2, NextNotification, PTL DEF NotificationSpec

-----------------------------------------------------------------------------
(* The application registry.                                               *)

\* The fields of a request: a mutation, a query, the resolution of a link.
IsMutation(call) ==
  call = [at |-> call.at, operation |-> call.operation, command |-> call.command]
IsQuery(call) == call = [at |-> call.at, entries |-> call.entries, witnessed |-> call.witnessed]
IsLink(call) == call = [at |-> call.at, entries |-> call.entries, route |-> call.route,
                        witnessed |-> call.witnessed]

LEMMA MutationMoves ==
  ASSUME NEW call, IsMutation(call), NEW spot
  PROVE  [call EXCEPT !.at = spot] = [at |-> spot, operation |-> call.operation,
                                       command |-> call.command]
BY DEF IsMutation

LEMMA LinkMoves ==
  ASSUME NEW call, IsLink(call), NEW spot
  PROVE  [call EXCEPT !.at = spot] = [at |-> spot, entries |-> call.entries,
                                       route |-> call.route, witnessed |-> call.witnessed]
BY DEF IsLink

LEMMA QueryWitnesses ==
  ASSUME NEW call, NEW seen
  PROVE  /\ IsQuery(call) =>
              [call EXCEPT !.witnessed = seen]
                = [at |-> call.at, entries |-> call.entries, witnessed |-> seen]
         /\ IsLink(call) =>
              [call EXCEPT !.witnessed = seen]
                = [at |-> call.at, entries |-> call.entries, route |-> call.route,
                   witnessed |-> seen]
<1>1. ASSUME IsQuery(call)
      PROVE  [call EXCEPT !.witnessed = seen]
               = [at |-> call.at, entries |-> call.entries, witnessed |-> seen]
  BY <1>1 DEF IsQuery
<1>2. ASSUME IsLink(call)
      PROVE  [call EXCEPT !.witnessed = seen]
               = [at |-> call.at, entries |-> call.entries, route |-> call.route,
                  witnessed |-> seen]
  BY <1>2 DEF IsLink
<1> QED
  BY <1>1, <1>2

\* What a request holds at each place: a mutation its attempt, and its receipt once it
\* has succeeded; a query entries that were enabled while it ran, with all they refer to.
RequestHolds(call, stated, known, on) ==
  /\ call.at \in {"idle", "authorized", "committing", "succeeded", "failed",
                 "routes", "navigation", "link", "answered"}
  /\ call.at \in {"authorized", "committing", "succeeded", "failed"} =>
       /\ IsMutation(call) /\ call.operation \in RegistryOperations
       /\ call.command \in RegistryCommandsOf[call.operation]
  /\ call.at \in {"committing", "succeeded", "failed"} =>
       <<call.operation, "attempted">> \in stated
  /\ call.at = "succeeded" => call.operation \in known
  /\ call.at \in {"routes", "navigation"} => IsQuery(call)
  /\ call.at = "link" =>
       /\ IsLink(call) /\ call.route \in Routes
       /\ call.entries = BelongsTo[call.route] \cup {call.route}
       /\ BelongsTo[call.route] \subseteq call.witnessed
  /\ call.at \in {"routes", "navigation", "link"} => on \subseteq call.witnessed
  /\ call.at \in {"routes", "navigation", "answered"} => call.entries \subseteq call.witnessed
  /\ call.at \in {"routes", "navigation", "link", "answered"} =>
       /\ call.entries \subseteq Entries
       /\ \A e \in call.entries : BelongsTo[e] \subseteq call.entries

RegistryHolds(k) ==
  RequestHolds(registryCalls[k], registryFacts, DOMAIN registryReceipts, On(Entries))

RegistryInv ==
  /\ DOMAIN registryCalls = RegistryCallers /\ DOMAIN entryState = Entries
  /\ registryEffects \in [RegistryOperations -> Nat]
  /\ MutationsAreOnRecord
  /\ \A k \in RegistryCallers : RegistryHolds(k)

\* What is kept of the navigation refers to what is kept: the greatest set of candidates
\* that holds the parents of its items is what the recursion defines.
LEMMA ReachableIsClosed ==
  ASSUME NEW candidates \in SUBSET Navigation
  PROVE  /\ Reachable(candidates) \subseteq candidates
         /\ \A n \in Reachable(candidates) :
              BelongsTo[n] \cap Navigation \subseteq Reachable(candidates)
<1> DEFINE Closed(S) == \A n \in S : BelongsTo[n] \cap Navigation \subseteq S
           greatest == UNION {S \in SUBSET candidates : Closed(S)}
           kept == CHOOSE f : f = [n \in Navigation |->
                     n \in candidates /\ \A p \in BelongsTo[n] \cap Navigation : f[p]]
<1>1. greatest \subseteq candidates /\ Closed(greatest)
  OBVIOUS
<1>2. ASSUME NEW n \in candidates, BelongsTo[n] \cap Navigation \subseteq greatest
      PROVE  n \in greatest
  <2>1. greatest \cup {n} \in SUBSET candidates /\ Closed(greatest \cup {n})
    BY <1>1, <1>2
  <2> QED
    BY <2>1
<1> HIDE DEF greatest
<1> DEFINE member == [n \in Navigation |-> n \in greatest]
<1>3. member = [n \in Navigation |->
                  n \in candidates /\ \A p \in BelongsTo[n] \cap Navigation : member[p]]
  <2>1. ASSUME NEW n \in Navigation
        PROVE  n \in greatest <=>
                 n \in candidates /\ \A p \in BelongsTo[n] \cap Navigation : member[p]
    BY <1>1, <1>2
  <2> QED
    BY <2>1
<1> HIDE DEF member
<1>4. kept = [n \in Navigation |->
                n \in candidates /\ \A p \in BelongsTo[n] \cap Navigation : kept[p]]
  BY <1>3
<1>5. Reachable(candidates) = {n \in candidates : kept[n]}
  BY DEF Reachable
<1> HIDE DEF kept
<1> QED
  BY <1>4, <1>5

\* What a request holds, it keeps while facts and receipts only come and nothing is
\* switched on.
LEMMA RequestKeeps ==
  ASSUME NEW call, NEW stated, NEW known, NEW on, RequestHolds(call, stated, known, on),
         NEW stated2, stated \subseteq stated2, NEW known2, known \subseteq known2,
         NEW on2, on2 \subseteq on
  PROVE  RequestHolds(call, stated2, known2, on2)
BY DEF RequestHolds

LEMMA MutationHolds ==
  ASSUME NEW spot \in {"authorized", "committing", "succeeded", "failed"},
         NEW o \in RegistryOperations, NEW c \in RegistryCommandsOf[o],
         NEW stated, NEW known, NEW on,
         spot # "authorized" => <<o, "attempted">> \in stated,
         spot = "succeeded" => o \in known
  PROVE  RequestHolds([at |-> spot, operation |-> o, command |-> c], stated, known, on)
BY DEF RequestHolds, IsMutation

LEMMA QueryHolds ==
  ASSUME NEW spot \in {"routes", "navigation"}, NEW entries \in SUBSET Entries,
         NEW witnessed, NEW stated, NEW known, NEW on,
         entries \subseteq witnessed, on \subseteq witnessed,
         \A e \in entries : BelongsTo[e] \subseteq entries
  PROVE  RequestHolds([at |-> spot, entries |-> entries, witnessed |-> witnessed],
                      stated, known, on)
BY DEF RequestHolds, IsQuery

LEMMA LinkHolds ==
  ASSUME NEW route \in Routes, NEW entries \in SUBSET Entries,
         NEW witnessed, NEW stated, NEW known, NEW on,
         entries = BelongsTo[route] \cup {route},
         BelongsTo[route] \subseteq witnessed, on \subseteq witnessed,
         \A e \in entries : BelongsTo[e] \subseteq entries
  PROVE  RequestHolds([at |-> "link", entries |-> entries, route |-> route,
                       witnessed |-> witnessed], stated, known, on)
BY DEF RequestHolds, IsLink

\* A step of one request that changes no entry.
LEMMA RegistryStep ==
  ASSUME RegistryInv, NEW k \in RegistryCallers, NEW after,
         registryCalls' = [registryCalls EXCEPT ![k] = after],
         UNCHANGED <<entryState, registryReceipts, registryEffects>>,
         \/ UNCHANGED registryFacts
         \/ \E o, result : /\ registryFacts' = registryFacts \cup {<<o, result>>}
                           /\ result = "succeeded" => HasReceipt(o),
         RegistryHolds(k)'
  PROVE  RegistryInv'
<1>1. registryFacts \subseteq registryFacts'
  OBVIOUS
<1>2. ASSUME NEW j \in RegistryCallers, j # k PROVE RegistryHolds(j)'
  <2>1. registryCalls'[j] = registryCalls[j] /\ RegistryHolds(j)
    BY <1>2 DEF RegistryInv
  <2>2. On(Entries)' = On(Entries) /\ DOMAIN registryReceipts' = DOMAIN registryReceipts
    BY DEF On
  <2> QED
    BY <1>1, <2>1, <2>2, RequestKeeps DEF RegistryHolds
<1>3. MutationsAreOnRecord'
  <2>1. ASSUME NEW o \in RegistryOperations, <<o, "succeeded">> \in registryFacts'
        PROVE  HasReceipt(o)
    <3>1. CASE <<o, "succeeded">> \in registryFacts
      BY <3>1 DEF RegistryInv, MutationsAreOnRecord
    <3>2. CASE <<o, "succeeded">> \notin registryFacts
      <4>1. PICK p, result : /\ registryFacts' = registryFacts \cup {<<p, result>>}
                             /\ result = "succeeded" => HasReceipt(p)
        BY <2>1, <3>2
      <4>2. <<o, "succeeded">> = <<p, result>>
        BY <2>1, <3>2, <4>1
      <4> QED
        BY <4>1, <4>2
    <3> QED
      BY <3>1, <3>2
  <2> QED
    BY <1>1, <2>1 DEF RegistryInv, MutationsAreOnRecord, HasReceipt
<1>4. /\ DOMAIN registryCalls' = RegistryCallers /\ DOMAIN entryState' = Entries
      /\ registryEffects' \in [RegistryOperations -> Nat]
  BY DEF RegistryInv
<1> QED
  BY <1>2, <1>3, <1>4 DEF RegistryInv

\* A mutation takes effect: every query in progress has seen what it switched on.
LEMMA AppliedStep ==
  ASSUME RegistryInv, NEW k \in RegistryCallers, NEW next \in {"succeeded", "failed"},
         RegistryAt(k, "committing"), ~HasReceipt(registryCalls[k].operation),
         Applied(registryCalls[k].operation, registryCalls[k].command),
         registryCalls' = WitnessedBy([registryCalls EXCEPT ![k].at = next],
                                      registryCalls[k].command.entry,
                                      registryCalls[k].command.enabled),
         UNCHANGED registryFacts
  PROVE  RegistryInv'
<1> DEFINE call == registryCalls[k]  o == call.operation  c == call.command
<1>1. /\ RegistryHolds(k) /\ o \in RegistryOperations /\ c \in RegistryCommandsOf[o]
      /\ c.entry \in Entries /\ c.enabled \in BOOLEAN
      /\ <<o, "attempted">> \in registryFacts
  BY RegistryAssumption DEF RegistryInv, RegistryHolds, RequestHolds, RegistryAt
<1>2. [call EXCEPT !.at = next] = [at |-> next, operation |-> o, command |-> c]
  BY <1>1, MutationMoves DEF RegistryHolds, RequestHolds, RegistryAt
<1>3. /\ DOMAIN registryReceipts' = DOMAIN registryReceipts \cup {o}
      /\ registryEffects' = [registryEffects EXCEPT ![o] = @ + 1]
      /\ DOMAIN entryState' = Entries
      /\ On(Entries)' \subseteq On(Entries) \cup (IF c.enabled THEN {c.entry} ELSE {})
  BY <1>1 DEF Applied, On, RegistryInv
<1>4. /\ DOMAIN registryCalls' = RegistryCallers
      /\ registryCalls'[k] = [at |-> next, operation |-> o, command |-> c]
  BY <1>2 DEF WitnessedBy, RegistryInv
<1>5. ASSUME NEW j \in RegistryCallers, j # k
      PROVE  registryCalls'[j] =
               IF c.enabled /\ registryCalls[j].at \in {"routes", "navigation", "link"}
               THEN [registryCalls[j] EXCEPT !.witnessed = @ \cup {c.entry}] ELSE registryCalls[j]
  BY <1>5 DEF WitnessedBy, RegistryInv
<1>6. MutationsAreOnRecord'
  <2>1. registryEffects[o] = 0
    BY <1>1 DEF RegistryInv, MutationsAreOnRecord
  <2>2. ASSUME NEW p \in RegistryOperations
        PROVE  registryEffects'[p] = IF p = o THEN 1 ELSE registryEffects[p]
    BY <1>1, <1>3, <2>1 DEF RegistryInv
  <2> QED
    BY <1>1, <1>3, <2>2 DEF RegistryInv, MutationsAreOnRecord, HasReceipt
<1>7. registryEffects' \in [RegistryOperations -> Nat]
  BY <1>1, <1>3 DEF RegistryInv
<1>8. ASSUME NEW j \in RegistryCallers, j # k PROVE RegistryHolds(j)'
  <2>1. RegistryHolds(j) /\ \A p : HasReceipt(p) => HasReceipt(p)'
    BY <1>3 DEF RegistryInv, HasReceipt
  <2>2. CASE c.enabled /\ registryCalls[j].at \in {"routes", "navigation"}
    <3> DEFINE query == registryCalls[j]  seen == query.witnessed \cup {c.entry}
    <3>1. registryCalls'[j] = [query EXCEPT !.witnessed = seen] /\ IsQuery(query)
      BY <1>5, <1>8, <2>1, <2>2 DEF RegistryHolds, RequestHolds
    <3>2. /\ query.entries \subseteq query.witnessed /\ On(Entries) \subseteq query.witnessed
          /\ query.entries \subseteq Entries
          /\ \A e \in query.entries : BelongsTo[e] \subseteq query.entries
      BY <2>1, <2>2 DEF RegistryHolds, RequestHolds
    <3>3. registryCalls'[j] = [at |-> query.at, entries |-> query.entries, witnessed |-> seen]
      BY <3>1, QueryWitnesses
    <3>4. On(Entries)' \subseteq seen
      BY <1>3, <2>2, <3>2
    <3>5. query.entries \subseteq seen
      BY <3>2
    <3> DEFINE spot == query.at  entries == query.entries
    <3> HIDE DEF seen, entries, spot
    <3>6. RequestHolds([at |-> spot, entries |-> entries, witnessed |-> seen],
                       registryFacts', DOMAIN registryReceipts', On(Entries)')
      <4>1. spot \in {"routes", "navigation"} /\ entries \in SUBSET Entries
        BY <2>2, <3>2 DEF spot, entries
      <4>2. entries \subseteq seen /\ \A e \in entries : BelongsTo[e] \subseteq entries
        BY <3>2, <3>5 DEF entries
      <4> QED
        BY <3>4, <4>1, <4>2, QueryHolds
    <3> QED
      BY <3>3, <3>6 DEF RegistryHolds, spot, entries
  <2>3. CASE c.enabled /\ registryCalls[j].at = "link"
    <3> DEFINE query == registryCalls[j]  seen == query.witnessed \cup {c.entry}
    <3>1. registryCalls'[j] = [query EXCEPT !.witnessed = seen] /\ IsLink(query)
      BY <1>5, <1>8, <2>1, <2>3 DEF RegistryHolds, RequestHolds
    <3>2. /\ query.route \in Routes /\ query.entries = BelongsTo[query.route] \cup {query.route}
          /\ BelongsTo[query.route] \subseteq query.witnessed
          /\ On(Entries) \subseteq query.witnessed /\ query.entries \subseteq Entries
          /\ \A e \in query.entries : BelongsTo[e] \subseteq query.entries
      BY <2>1, <2>3 DEF RegistryHolds, RequestHolds
    <3>3. registryCalls'[j] = [at |-> query.at, entries |-> query.entries,
                               route |-> query.route, witnessed |-> seen]
      BY <3>1, QueryWitnesses
    <3>4. On(Entries)' \subseteq seen /\ BelongsTo[query.route] \subseteq seen
      BY <1>3, <2>3, <3>2
    <3> DEFINE route == query.route  entries == query.entries
    <3> HIDE DEF seen, entries, route
    <3>5. RequestHolds([at |-> "link", entries |-> entries, route |-> route, witnessed |-> seen],
                       registryFacts', DOMAIN registryReceipts', On(Entries)')
      <4>1. route \in Routes /\ entries \in SUBSET Entries /\ entries = BelongsTo[route] \cup {route}
        BY <3>2 DEF route, entries
      <4>2. BelongsTo[route] \subseteq seen /\ \A e \in entries : BelongsTo[e] \subseteq entries
        BY <3>2, <3>4 DEF entries, route
      <4> QED
        BY <3>4, <4>1, <4>2, LinkHolds
    <3> QED
      BY <2>3, <3>3, <3>5 DEF RegistryHolds, route, entries
  <2>4. CASE ~(c.enabled /\ registryCalls[j].at \in {"routes", "navigation", "link"})
    <3>1. registryCalls'[j] = registryCalls[j]
      BY <1>5, <1>8, <2>4
    <3> QED
      BY <1>3, <2>1, <2>4, <3>1 DEF RegistryHolds, RequestHolds
  <2> HIDE DEF c
  <2> QED
    BY <2>2, <2>3, <2>4
<1>9. RegistryHolds(k)'
  BY <1>1, <1>3, <1>4, MutationHolds DEF RegistryHolds
<1> QED
  BY <1>3, <1>4, <1>6, <1>7, <1>8, <1>9 DEF RegistryInv

LEMMA NextRegistry == RegistryInv /\ [RegistryNext]_registryVars => RegistryInv'
<1> SUFFICES ASSUME RegistryInv, [RegistryNext]_registryVars PROVE RegistryInv'
  OBVIOUS
<1> USE DEF RegistryAt, RegistryGoes, RegistryEnds, RegistryAudits
<1>0. DOMAIN registryCalls = RegistryCallers /\ \A k \in RegistryCallers : RegistryHolds(k)
  BY DEF RegistryInv
<1>1. ASSUME NEW k \in RegistryCallers, NEW o \in RegistryOperations,
             NEW c \in RegistryCommandsOf[o], Mutate(k, o, c)
      PROVE  RegistryInv'
  <2>1. registryCalls'[k] = [at |-> "authorized", operation |-> o, command |-> c]
    BY <1>0, <1>1 DEF Mutate
  <2>2. RegistryHolds(k)'
    BY <2>1 DEF RegistryHolds, RequestHolds, IsMutation
  <2> QED
    BY <1>1, <2>2, RegistryStep DEF Mutate
<1>2. ASSUME NEW k \in RegistryCallers, Attempt(k) PROVE RegistryInv'
  <2> DEFINE call == registryCalls[k]
             after == [at |-> "committing", operation |-> call.operation, command |-> call.command]
  <2>0. RegistryHolds(k) /\ call.at = "authorized"
    BY <1>0, <1>2 DEF Attempt
  <2>1. [call EXCEPT !.at = "committing"] = after
    BY <2>0, MutationMoves DEF RegistryHolds, RequestHolds
  <2>2. registryCalls' = [registryCalls EXCEPT ![k] = after]
    BY <1>2, <2>1 DEF Attempt
  <2>3. RegistryHolds(k)'
    <3>1. /\ registryCalls'[k] = after /\ call.operation \in RegistryOperations
          /\ call.command \in RegistryCommandsOf[call.operation]
      BY <1>0, <2>0, <2>2 DEF RegistryHolds, RequestHolds
    <3>2. <<call.operation, "attempted">> \in registryFacts'
      BY <1>2, <2>0 DEF Attempt, RegistryHolds, RequestHolds
    <3> QED
      BY <3>1, <3>2 DEF RegistryHolds, RequestHolds, IsMutation
  <2> QED
    <3>1. /\ registryFacts' = registryFacts \cup {<<call.operation, "attempted">>}
          /\ UNCHANGED <<entryState, registryReceipts, registryEffects>>
      BY <1>2 DEF Attempt
    <3>2. \E p, result : /\ registryFacts' = registryFacts \cup {<<p, result>>}
                         /\ result = "succeeded" => HasReceipt(p)
      <4> WITNESS call.operation, "attempted"
      <4> QED
        BY <3>1
    <3> QED
      BY <2>2, <2>3, <3>1, <3>2, RegistryStep
<1>3. ASSUME NEW k \in RegistryCallers, CommitMutation(k) PROVE RegistryInv'
  <2> DEFINE call == registryCalls[k]
  <2>1. PICK next \in {"succeeded", "failed"} :
          IF HasReceipt(call.operation)
          THEN /\ registryCalls' = [registryCalls EXCEPT ![k].at = next]
               /\ UNCHANGED <<entryState, registryReceipts, registryEffects>>
          ELSE /\ Applied(call.operation, call.command)
               /\ registryCalls' = WitnessedBy([registryCalls EXCEPT ![k].at = next],
                                               call.command.entry, call.command.enabled)
    BY <1>3 DEF CommitMutation
  <2>2. RegistryAt(k, "committing") /\ UNCHANGED registryFacts
    BY <1>3 DEF CommitMutation
  <2>3. CASE HasReceipt(call.operation)
    <3> DEFINE after == [at |-> next, operation |-> call.operation, command |-> call.command]
    <3>0. RegistryHolds(k) /\ call.at = "committing"
      BY <1>0, <2>2
    <3>1. [call EXCEPT !.at = next] = after
      BY <3>0, MutationMoves DEF RegistryHolds, RequestHolds
    <3>2. registryCalls' = [registryCalls EXCEPT ![k] = after]
      BY <2>1, <2>3, <3>1
    <3>3. UNCHANGED <<entryState, registryReceipts, registryEffects, registryFacts>>
      BY <2>1, <2>2, <2>3
    <3>4. RegistryHolds(k)'
      <4>1. /\ registryCalls'[k] = after /\ call.operation \in RegistryOperations
            /\ call.command \in RegistryCommandsOf[call.operation]
            /\ <<call.operation, "attempted">> \in registryFacts'
            /\ call.operation \in DOMAIN registryReceipts'
        BY <1>0, <2>3, <3>0, <3>2, <3>3 DEF RegistryHolds, RequestHolds, HasReceipt
      <4> QED
        BY <4>1 DEF RegistryHolds, RequestHolds, IsMutation, HasReceipt
    <3> QED
      BY <3>2, <3>3, <3>4, RegistryStep
  <2>4. CASE ~HasReceipt(call.operation)
    BY <2>1, <2>2, <2>4, AppliedStep
  <2> QED
    BY <2>3, <2>4
<1>4. ASSUME NEW k \in RegistryCallers, CommitRefused(k) PROVE RegistryInv'
  <2> DEFINE call == registryCalls[k]
             after == [at |-> "failed", operation |-> call.operation, command |-> call.command]
  <2>0. RegistryHolds(k) /\ call.at = "committing"
    BY <1>0, <1>4 DEF CommitRefused
  <2>1. [call EXCEPT !.at = "failed"] = after
    BY <2>0, MutationMoves DEF RegistryHolds, RequestHolds
  <2>2. registryCalls' = [registryCalls EXCEPT ![k] = after]
    BY <1>4, <2>1 DEF CommitRefused
  <2>3. RegistryHolds(k)'
    <3>1. /\ registryCalls'[k] = after /\ call.operation \in RegistryOperations
          /\ call.command \in RegistryCommandsOf[call.operation]
      BY <1>0, <2>0, <2>2 DEF RegistryHolds, RequestHolds
    <3>2. <<call.operation, "attempted">> \in registryFacts'
      BY <1>4, <2>0 DEF CommitRefused, RegistryHolds, RequestHolds
    <3> QED
      BY <3>1, <3>2 DEF RegistryHolds, RequestHolds, IsMutation
  <2> QED
    BY <1>4, <2>2, <2>3, RegistryStep DEF CommitRefused
<1>5. ASSUME NEW k \in RegistryCallers, MutationDenied(k) \/ AuditMutation(k) \/ QueryEnds(k)
      PROVE  RegistryInv'
  <2>1. registryCalls' = [registryCalls EXCEPT ![k] = NoRegistryCall]
    BY <1>5 DEF MutationDenied, AuditMutation, QueryEnds
  <2>2. RegistryHolds(k)'
    BY <1>0, <2>1 DEF RegistryHolds, RequestHolds, NoRegistryCall
  <2>3. \/ UNCHANGED registryFacts
        \/ /\ registryFacts' = registryFacts \cup {<<registryCalls[k].operation, "succeeded">>}
           /\ HasReceipt(registryCalls[k].operation)
    <3>1. RegistryHolds(k)
      BY <1>0
    <3>2. \/ UNCHANGED registryFacts
          \/ /\ registryFacts' = registryFacts \cup {<<registryCalls[k].operation, "succeeded">>}
             /\ registryCalls[k].at = "succeeded"
      BY <1>5 DEF MutationDenied, AuditMutation, QueryEnds
    <3>3. registryCalls[k].at = "succeeded" => HasReceipt(registryCalls[k].operation)
      BY <3>1 DEF RegistryHolds, RequestHolds, HasReceipt
    <3> QED
      BY <3>2, <3>3
  <2>4. UNCHANGED <<entryState, registryReceipts, registryEffects>>
    BY <1>5 DEF MutationDenied, AuditMutation, QueryEnds
  <2> QED
    BY <2>1, <2>2, <2>3, <2>4, RegistryStep
<1>6. ASSUME NEW k \in RegistryCallers, LoadApplications(k) PROVE RegistryInv'
  <2>1. PICK allowed \in SUBSET On(Applications) :
          registryCalls' = [registryCalls EXCEPT ![k] =
            [at |-> "routes", entries |-> allowed, witnessed |-> On(Entries)]]
    BY <1>6 DEF LoadApplications
  <2>2. /\ allowed \subseteq On(Entries) /\ On(Entries) \subseteq Entries
        /\ \A e \in allowed : BelongsTo[e] = {}
    BY RegistryAssumption DEF On, Entries
  <2>3. On(Entries)' = On(Entries)
    BY <1>6 DEF LoadApplications, On
  <2>4. RegistryHolds(k)'
    <3>1. registryCalls'[k] = [at |-> "routes", entries |-> allowed, witnessed |-> On(Entries)]
      BY <1>0, <2>1
    <3> QED
      BY <2>2, <2>3, <3>1 DEF RegistryHolds, RequestHolds, IsQuery
  <2> QED
    BY <1>6, <2>1, <2>4, RegistryStep DEF LoadApplications
<1>7. ASSUME NEW k \in RegistryCallers, LoadRoutes(k) PROVE RegistryInv'
  <2> DEFINE call == registryCalls[k]
  <2>1. PICK allowed \in SUBSET {r \in On(Routes) : BelongsTo[r] \subseteq call.entries} :
          registryCalls' = [registryCalls EXCEPT ![k] =
            [at |-> "navigation", witnessed |-> call.witnessed, entries |-> call.entries \cup allowed]]
    BY <1>7 DEF LoadRoutes
  <2>2. /\ allowed \subseteq On(Entries) /\ On(Entries) \subseteq Entries
        /\ \A e \in allowed : BelongsTo[e] \subseteq call.entries
    BY DEF On, Entries
  <2>3. On(Entries)' = On(Entries)
    BY <1>7 DEF LoadRoutes, On
  <2>4. RegistryHolds(k)'
    <3>1. registryCalls'[k] = [at |-> "navigation", witnessed |-> call.witnessed,
                               entries |-> call.entries \cup allowed]
      BY <1>0, <2>1
    <3>2. /\ call.entries \subseteq call.witnessed /\ On(Entries) \subseteq call.witnessed
          /\ call.entries \subseteq Entries
          /\ \A e \in call.entries : BelongsTo[e] \subseteq call.entries
      BY <1>0, <1>7 DEF RegistryHolds, RequestHolds, LoadRoutes
    <3> QED
      BY <2>2, <2>3, <3>1, <3>2 DEF RegistryHolds, RequestHolds, IsQuery
  <2> QED
    BY <1>7, <2>1, <2>4, RegistryStep DEF LoadRoutes
<1>8. ASSUME NEW k \in RegistryCallers, LoadNavigation(k) PROVE RegistryInv'
  <2> DEFINE call == registryCalls[k]
             kept == Reachable(Candidates(call.entries))
  <2>1. /\ call.entries \subseteq call.witnessed /\ On(Entries) \subseteq call.witnessed
        /\ call.entries \subseteq Entries
        /\ \A e \in call.entries : BelongsTo[e] \subseteq call.entries
    BY <1>0, <1>8 DEF LoadNavigation, RegistryHolds, RequestHolds
  <2>2. /\ kept \subseteq Candidates(call.entries)
        /\ \A n \in kept : BelongsTo[n] \cap Navigation \subseteq kept
    <3>1. Candidates(call.entries) \in SUBSET Navigation
      BY DEF Candidates, On
    <3> QED
      BY <3>1, ReachableIsClosed
  <2>3. \A n \in kept : n \in On(Entries) /\ n \in Entries /\ BelongsTo[n] \subseteq call.entries \cup kept
    BY <2>2 DEF Candidates, On, Entries
  <2>4. registryCalls'[k] = [at |-> "answered", witnessed |-> call.witnessed,
                             entries |-> call.entries \cup kept]
    BY <1>0, <1>8 DEF LoadNavigation
  <2> HIDE DEF kept
  <2>5. RegistryHolds(k)'
    BY <2>1, <2>3, <2>4 DEF RegistryHolds, RequestHolds
  <2> QED
    BY <1>8, <2>5, RegistryStep DEF LoadNavigation
<1>9. ASSUME NEW k \in RegistryCallers, NEW r \in Routes, FindApplication(k, r) PROVE RegistryInv'
  <2>1. registryCalls'[k] = [at |-> "link", entries |-> BelongsTo[r] \cup {r}, route |-> r,
                             witnessed |-> On(Entries)]
    BY <1>0, <1>9 DEF FindApplication
  <2>2. /\ BelongsTo[r] \subseteq On(Entries) /\ On(Entries) \subseteq Entries /\ r \in Entries
        /\ \A e \in BelongsTo[r] : BelongsTo[e] = {}
    BY <1>9, RegistryAssumption DEF FindApplication, On, Entries
  <2>3. On(Entries)' = On(Entries)
    BY <1>9 DEF FindApplication, On
  <2>4. RegistryHolds(k)'
    BY <1>9, <2>1, <2>2, <2>3 DEF RegistryHolds, RequestHolds, IsLink
  <2> QED
    BY <1>9, <2>4, RegistryStep DEF FindApplication
<1>10. ASSUME NEW k \in RegistryCallers, ResolveLink(k) PROVE RegistryInv'
  <2> DEFINE call == registryCalls[k]
             after == [at |-> "answered", entries |-> call.entries, route |-> call.route,
                       witnessed |-> call.witnessed]
  <2>1. [call EXCEPT !.at = "answered"] = after
    BY <1>0, <1>10, LinkMoves DEF ResolveLink, RegistryHolds, RequestHolds
  <2>2. registryCalls' = [registryCalls EXCEPT ![k] = after]
    BY <1>10, <2>1 DEF ResolveLink
  <2>3. /\ call.route \in On(Entries) /\ call.entries \subseteq call.witnessed
        /\ call.entries \subseteq Entries
        /\ \A e \in call.entries : BelongsTo[e] \subseteq call.entries
    BY <1>0, <1>10 DEF ResolveLink, RegistryHolds, RequestHolds, On, Entries
  <2>4. RegistryHolds(k)'
    <3>1. registryCalls'[k] = after
      BY <1>0, <2>2
    <3> QED
      BY <2>3, <3>1 DEF RegistryHolds, RequestHolds
  <2> QED
    BY <1>10, <2>2, <2>4, RegistryStep DEF ResolveLink
<1>11. CASE UNCHANGED registryVars
  BY <1>11 DEF registryVars, RegistryInv, RegistryHolds, RequestHolds, MutationsAreOnRecord, HasReceipt, On
<1> QED
  BY <1>1, <1>2, <1>3, <1>4, <1>5, <1>6, <1>7, <1>8, <1>9, <1>10, <1>11 DEF RegistryNext

\* A mutation takes effect once, after its attempt and before its success is on record,
\* and what a query shows was enabled while it ran, with all it refers to: for any
\* registry, operations and callers (app-registry service.ts, query-service.ts).
THEOREM RegistryStaysSound == RegistrySpec => []RegistryIsSound
<1>1. RegistryInit => RegistryInv
  BY DEF RegistryInit, RegistryInv, RegistryHolds, RequestHolds, NoRegistryCall, MutationsAreOnRecord, HasReceipt
<1>2. RegistryInv => RegistryIsSound
  BY DEF RegistryInv, RegistryHolds, RequestHolds, RegistryIsSound, AnswersAreClosed, RegistryAt
<1> QED
  BY <1>1, <1>2, NextRegistry, PTL DEF RegistrySpec

-----------------------------------------------------------------------------
(* The worker's connections to RabbitMQ.                                   *)

\* Who has the connection at each place of its factory and of its close.
ConnectionInv ==
  /\ adapterKind \in Kinds /\ channels \in Nat
  /\ place \in {"connecting", "channels", "setup", "cleaning", "held", "failed"}
  /\ closer \in {"none", "channel", "model", "failing", "done", "failed"}
  /\ place = "connecting" => model = "pending" /\ channels = 0
  /\ model = "pending" => place \in {"connecting", "failed"}
  /\ place \in {"cleaning", "failed"} => model # "open"
  /\ closer # "none" => place = "held"
  /\ closer \in {"model", "failing"} => model = "closing"
  /\ closer = "done" => model = "closed"
  /\ closer = "failed" => model # "open"
  /\ place = "channels" => channels < ChannelsNeeded
  /\ place = "setup" => channels = ChannelsNeeded
  /\ place = "held" /\ usable => model = "open" /\ closer = "none" /\ channels = ChannelsNeeded

LEMMA NextConnection == ConnectionInv /\ [ConnectionNext]_connectionVars => ConnectionInv'
<1> SUFFICES ASSUME ConnectionInv, [ConnectionNext]_connectionVars PROVE ConnectionInv'
  OBVIOUS
<1> USE DEF ConnectionInv, connectionStart, connectionClose, ChannelsNeeded, ModelAskedToClose
<1>1. CASE Connects \/ ConnectionRefused
  BY <1>1 DEF Connects, ConnectionRefused
<1>2. CASE ChannelOpens \/ SetupEnds
  <2>1. CASE SetupEnds
    BY <2>1 DEF SetupEnds
  <2>2. CASE ChannelOpens /\ adapterKind = "consumer"
    BY <2>2 DEF ChannelOpens
  <2>3. CASE ChannelOpens /\ adapterKind # "consumer"
    BY <2>3 DEF ChannelOpens
  <2> QED
    BY <1>2, <2>1, <2>2, <2>3
<1>3. CASE AcquisitionFails \/ GivenUp
  BY <1>3 DEF AcquisitionFails, GivenUp
<1>4. CASE AbortStart \/ LateConnection
  BY <1>4 DEF AbortStart, LateConnection
<1>5. CASE ConnectionLost \/ ChannelLost \/ BlocksOrUnblocks \/ ModelCloses
  BY <1>5 DEF ConnectionLost, ChannelLost, BlocksOrUnblocks, ModelCloses
<1>6. CASE Close \/ ChannelCloses \/ AbortClose
  BY <1>6 DEF Close, ChannelCloses, AbortClose
<1>7. CASE UNCHANGED connectionVars
  BY <1>7 DEF connectionVars
<1> QED
  BY <1>1, <1>2, <1>3, <1>4, <1>5, <1>6, <1>7 DEF ConnectionNext

\* No open connection is without an owner, whenever the start or a close is
\* aborted and whatever the broker does; no close claims more than it did; and
\* an adapter that calls itself healthy has its connection and channels.
THEOREM ConnectionsStayOwned == ConnectionSpec => []ConnectionsAreOwned
<1>1. ConnectionInit => ConnectionInv
  BY DEF ConnectionInit, ConnectionInv, ChannelsNeeded, Kinds
<1>2. ConnectionInv => ConnectionsAreOwned
  BY DEF ConnectionInv, ConnectionsAreOwned, AdapterHealthy
<1> QED
  BY <1>1, <1>2, NextConnection, PTL DEF ConnectionSpec

-----------------------------------------------------------------------------
(* The AI gateway.                                                         *)

\* The places of an invocation that is its operation's own.
AiOwning == {"authorizing", "reserving", "invoking", "recording", "failing"}

AiOwner(call, kind, id) == call.at \in AiOwning /\ call.kind = kind /\ call.id = id

\* A request has the fields of its place.
AiShaped(call) ==
  /\ call.at \in AiOwning \cup {"idle", "sharing"} /\ "at" \in DOMAIN call
  /\ call.at # "idle" =>
       /\ {"kind", "id"} \subseteq DOMAIN call
       /\ \/ call.kind = "invoke" /\ call.id \in AiOperations
          \/ /\ call.kind = "confirm" /\ call.id \in AiConfirmations
             /\ call.at \in {"authorizing", "sharing"}
  /\ call.at = "recording" => call.expires \in Nat

\* One request runs an operation or a confirmation, while its entry says so.
AiOneOwner ==
  /\ \A q, r \in AiRequests : \A kind \in {"invoke", "confirm"} :
       \A id \in AiOperations \cup AiConfirmations :
         AiOwner(aiRequests[q], kind, id) /\ AiOwner(aiRequests[r], kind, id) => q = r
  /\ \A r \in AiRequests : \A o \in AiOperations :
       AiOwner(aiRequests[r], "invoke", o) =>
         /\ operations[o].status = "running"
         /\ aiRequests[r].at \in {"authorizing", "reserving"} => charges[o] = 0
         /\ aiRequests[r].at \in {"invoking", "recording"} => charges[o] = 1
  /\ \A r \in AiRequests : \A c \in AiConfirmations :
       AiOwner(aiRequests[r], "confirm", c) => confirmations[c].status = "running"

\* An operation is charged once, and what can be confirmed of it was charged,
\* recorded and kept.
AiEntriesAgree ==
  \A o \in AiOperations :
    /\ "status" \in DOMAIN operations[o]
    /\ charges[o] \in {0, 1} /\ proposals[o] \in Nat
    /\ operations[o].status = "absent" => charges[o] = 0
    /\ proposals[o] # 0 => /\ operations[o].status = "proposed" /\ charges[o] = 1
                           /\ <<o, "proposal_created">> \in callRecords

\* A confirmation was asked of a proposal in time, and what was told of it stays.
AiConfirmationsAgree ==
  /\ \A c \in AiConfirmations :
       /\ "status" \in DOMAIN confirmations[c]
       /\ confirmations[c].status # "absent" =>
            /\ {"of", "decision", "at"} \subseteq DOMAIN confirmations[c]
            /\ confirmations[c].of \in AiOperations
            /\ confirmations[c].at \in Nat
            /\ confirmations[c].at < proposals[confirmations[c].of]
  /\ \A t \in confirmed :
       /\ t.id \in AiConfirmations
       /\ confirmations[t.id].status = "confirmed"
       /\ t = [id |-> t.id, of |-> confirmations[t.id].of,
                   decision |-> confirmations[t.id].decision,
                   at |-> confirmations[t.id].at]

AiInv ==
  /\ aiTime \in Nat \ {0}
  /\ DOMAIN aiRequests = AiRequests /\ DOMAIN operations = AiOperations
  /\ DOMAIN proposals = AiOperations /\ DOMAIN charges = AiOperations
  /\ DOMAIN confirmations = AiConfirmations
  /\ \A r \in AiRequests : AiShaped(aiRequests[r])
  /\ AiOneOwner /\ AiEntriesAgree /\ AiConfirmationsAgree

LEMMA AiImplies == AiInv => AiIsAccountable
<1> SUFFICES ASSUME AiInv PROVE AiIsAccountable
  OBVIOUS
<1>1. ASSUME NEW o \in AiOperations PROVE charges[o] <= 1
  <2>1. charges[o] = 0 \/ charges[o] = 1
    BY DEF AiInv, AiEntriesAgree
  <2> QED
    BY <2>1
<1>2. ASSUME NEW c \in confirmed
      PROVE  /\ c.at < proposals[c.of] /\ charges[c.of] = 1
             /\ <<c.of, "proposal_created">> \in callRecords
             /\ operations[c.of].status = "proposed"
  <2> DEFINE k == c.id
  <2>1. /\ k \in AiConfirmations /\ confirmations[k].status = "confirmed"
        /\ c = [id |-> k, of |-> confirmations[k].of, decision |-> confirmations[k].decision,
                at |-> confirmations[k].at]
    BY DEF AiInv, AiConfirmationsAgree
  <2> HIDE DEF k
  <2>2. c.of = confirmations[k].of /\ c.at = confirmations[k].at
    BY <2>1
  <2>3. c.of \in AiOperations /\ c.at \in Nat /\ c.at < proposals[c.of]
    BY <2>1, <2>2 DEF AiInv, AiConfirmationsAgree
  <2>4. proposals[c.of] \in Nat
    BY <2>3 DEF AiInv, AiEntriesAgree
  <2>5. proposals[c.of] # 0
    BY <2>3, <2>4
  <2> QED
    BY <2>3, <2>5 DEF AiInv, AiEntriesAgree
<1>3. ASSUME NEW b \in confirmed, NEW c \in confirmed, b.id = c.id PROVE b = c
  BY <1>3 DEF AiInv, AiConfirmationsAgree
<1> QED
  BY <1>1, <1>2, <1>3 DEF AiIsAccountable

\* A request that goes on keeps its kind and its operation.
LEMMA AiGoesOn ==
  ASSUME AiInv, NEW r \in AiRequests, aiRequests[r].at # "idle",
         NEW to \in AiOwning, to # "recording",
         aiRequests[r].kind = "invoke", Goes(r, to)
  PROVE  /\ DOMAIN aiRequests' = AiRequests
         /\ \A q \in AiRequests : q # r => aiRequests'[q] = aiRequests[q]
         /\ aiRequests'[r].at = to /\ aiRequests'[r].kind = "invoke"
         /\ aiRequests'[r].id = aiRequests[r].id /\ aiRequests[r].id \in AiOperations
         /\ \A q \in AiRequests : AiShaped(aiRequests'[q])
<1> DEFINE call == aiRequests[r]  next == [call EXCEPT !.at = to]
<1>1. AiShaped(call) /\ DOMAIN aiRequests = AiRequests
  BY DEF AiInv
<1>2. aiRequests' = [aiRequests EXCEPT ![r] = next]
  BY DEF Goes
<1> HIDE DEF call
<1>3. /\ next.at = to /\ next.kind = call.kind /\ next.id = call.id
      /\ {"at", "kind", "id"} \subseteq DOMAIN next
  BY <1>1 DEF AiShaped, call
<1>4. call.kind = "invoke" /\ call.id = aiRequests[r].id
  BY DEF call
<1>5. call.id \in AiOperations
  BY <1>1, <1>4 DEF AiShaped, call
<1> HIDE DEF next
<1>6. AiShaped(next)
  BY <1>3, <1>4, <1>5 DEF AiShaped
<1>7. \A q \in AiRequests : aiRequests'[q] = IF q = r THEN next ELSE aiRequests[q]
  BY <1>1, <1>2
<1> QED
  BY <1>1, <1>2, <1>3, <1>4, <1>5, <1>6, <1>7 DEF AiInv

\* When a promise settles its callers are at rest and the others stay.
LEMMA AiSettles ==
  ASSUME AiInv, NEW kind, NEW id, aiRequests' = Answered(kind, id)
  PROVE  /\ DOMAIN aiRequests' = AiRequests
         /\ \A q \in AiRequests : aiRequests'[q] = AtRest \/ aiRequests'[q] = aiRequests[q]
         /\ \A q \in AiRequests : ~AiOwner(aiRequests'[q], kind, id)
         /\ \A q \in AiRequests : AiShaped(aiRequests'[q])
<1>1. AiShaped(AtRest) /\ AtRest.at = "idle"
  BY DEF AiShaped, AtRest
<1>2. \A q \in AiRequests : aiRequests'[q] = AtRest \/ aiRequests'[q] = aiRequests[q]
  BY DEF Answered
<1>3. \A q \in AiRequests : ~AiOwner(aiRequests'[q], kind, id)
  BY <1>1 DEF Answered, AiOwner, AiOwning
<1> QED
  BY <1>1, <1>2, <1>3 DEF Answered, AiInv

\* Who owns nothing new keeps the owners apart.
LEMMA AiOwnersStay ==
  ASSUME AiInv,
         \A q \in AiRequests : \A kind \in {"invoke", "confirm"} :
           \A id \in AiOperations \cup AiConfirmations :
             AiOwner(aiRequests'[q], kind, id) => AiOwner(aiRequests[q], kind, id)
  PROVE  \A q, r \in AiRequests : \A kind \in {"invoke", "confirm"} :
           \A id \in AiOperations \cup AiConfirmations :
             AiOwner(aiRequests'[q], kind, id) /\ AiOwner(aiRequests'[r], kind, id) => q = r
BY DEF AiInv, AiOneOwner

\* The entries of an operation only grow into outcomes.
LEMMA AiConfirmationsStay ==
  ASSUME AiInv, UNCHANGED <<confirmations, confirmed>>,
         \A o \in AiOperations : proposals'[o] = proposals[o] \/ proposals[o] = 0
  PROVE  AiConfirmationsAgree'
<1>1. ASSUME NEW c \in AiConfirmations, confirmations[c].status # "absent"
      PROVE  confirmations[c].at < proposals'[confirmations[c].of]
  <2>1. /\ confirmations[c].of \in AiOperations /\ confirmations[c].at \in Nat
        /\ confirmations[c].at < proposals[confirmations[c].of]
    BY <1>1 DEF AiInv, AiConfirmationsAgree
  <2>2. proposals[confirmations[c].of] # 0
    BY <2>1
  <2> QED
    BY <2>1, <2>2
<1> QED
  BY <1>1 DEF AiInv, AiConfirmationsAgree

\* A first caller takes the operation, a later one shares it.
LEMMA InvokeKeeps ==
  ASSUME AiInv, NEW r \in AiRequests, NEW o \in AiOperations, NEW m, Invoke(r, o, m)
  PROVE  AiInv'
<1> USE DEF AiInv
<1>1. aiRequests[r].at = "idle"
  BY DEF Invoke, Runs
<1>2. ASSUME NEW to \in {"authorizing", "sharing"},
             aiRequests' = [aiRequests EXCEPT ![r] = [at |-> to, kind |-> "invoke", id |-> o]]
      PROVE  /\ DOMAIN aiRequests' = AiRequests
             /\ \A q \in AiRequests : AiShaped(aiRequests'[q])
             /\ \A q \in AiRequests : q # r => aiRequests'[q] = aiRequests[q]
             /\ aiRequests'[r] = [at |-> to, kind |-> "invoke", id |-> o]
  BY <1>2 DEF AiShaped, AiOwning
<1>3. CASE operations[o].status = "absent"
  <2>1. /\ operations' = [operations EXCEPT ![o] = [status |-> "running", means |-> m]]
        /\ aiRequests' = [aiRequests EXCEPT ![r] =
                            [at |-> "authorizing", kind |-> "invoke", id |-> o]]
        /\ UNCHANGED <<aiTime, proposals, confirmations, charges, callRecords, confirmed>>
    BY <1>3 DEF Invoke
  <2>2. /\ operations'[o].status = "running" /\ "status" \in DOMAIN operations'[o]
        /\ DOMAIN operations' = AiOperations
        /\ \A p \in AiOperations : p # o => operations'[p] = operations[p]
    BY <2>1
  <2>3. \A q \in AiRequests : ~AiOwner(aiRequests[q], "invoke", o)
    BY <1>3 DEF AiOneOwner
  <2>4. /\ aiRequests'[r].at = "authorizing" /\ aiRequests'[r].kind = "invoke"
        /\ aiRequests'[r].id = o
    BY <1>2, <2>1
  <2>5. charges[o] = 0 /\ proposals[o] = 0
    BY <1>3 DEF AiEntriesAgree
  <2>6. AiOneOwner'
    BY <1>2, <2>1, <2>2, <2>3, <2>4, <2>5 DEF AiOneOwner, AiOwner
  <2>7. AiEntriesAgree'
    BY <2>1, <2>2, <2>5 DEF AiEntriesAgree
  <2>8. AiConfirmationsAgree'
    BY <2>1, AiConfirmationsStay
  <2> QED
    BY <1>2, <2>1, <2>2, <2>6, <2>7, <2>8
<1>4. CASE operations[o].status # "absent"
  <2>1. /\ aiRequests' = [aiRequests EXCEPT ![r] =
                            [at |-> "sharing", kind |-> "invoke", id |-> o]]
        /\ UNCHANGED <<aiTime, operations, proposals, confirmations, charges, callRecords,
                       confirmed>>
    BY <1>4 DEF Invoke
  <2>2. \A q \in AiRequests : \A kind, id :
          AiOwner(aiRequests'[q], kind, id) => AiOwner(aiRequests[q], kind, id) /\ q # r
    BY <1>2, <2>1 DEF AiOwner, AiOwning
  <2>3. AiOneOwner'
    BY <1>2, <2>1, <2>2, AiOwnersStay DEF AiOneOwner
  <2>4. AiEntriesAgree' /\ AiConfirmationsAgree'
    BY <2>1, AiConfirmationsStay DEF AiEntriesAgree
  <2> QED
    BY <1>2, <2>1, <2>3, <2>4
<1> QED
  BY <1>3, <1>4

\* A request of an operation that goes on: it alone has it.
LEMMA GoesOnKeeps ==
  ASSUME AiInv, NEW r \in AiRequests, NEW o, o = aiRequests[r].id,
         AiOwner(aiRequests[r], "invoke", o),
         DOMAIN aiRequests' = AiRequests,
         \A q \in AiRequests : q # r => aiRequests'[q] = aiRequests[q],
         aiRequests'[r].kind = "invoke", aiRequests'[r].id = o,
         \A q \in AiRequests : AiShaped(aiRequests'[q]),
         UNCHANGED <<aiTime, operations, proposals, confirmations, confirmed>>,
         DOMAIN charges' = AiOperations, charges'[o] \in {0, 1},
         \A p \in AiOperations : p # o => charges'[p] = charges[p],
         aiRequests'[r].at \in {"authorizing", "reserving"} => charges'[o] = 0,
         aiRequests'[r].at \in {"invoking", "recording"} => charges'[o] = 1,
         callRecords \subseteq callRecords'
  PROVE  AiInv'
<1> USE DEF AiInv
<1>1. o \in AiOperations /\ operations[o].status = "running" /\ proposals[o] = 0
  <2>1. aiRequests[r].at # "idle" /\ aiRequests[r].kind = "invoke" /\ AiShaped(aiRequests[r])
    BY DEF AiOwner, AiOwning
  <2>2. o \in AiOperations
    BY <2>1 DEF AiShaped
  <2>3. operations[o].status = "running"
    BY <2>2 DEF AiOneOwner
  <2> QED
    BY <2>2, <2>3 DEF AiEntriesAgree
<1>2. \A q \in AiRequests : \A kind \in {"invoke", "confirm"} :
        \A id \in AiOperations \cup AiConfirmations :
          AiOwner(aiRequests'[q], kind, id) => AiOwner(aiRequests[q], kind, id)
  BY DEF AiOwner
<1>3. \A q \in AiRequests : AiOwner(aiRequests'[q], "invoke", o) => q = r
  BY <1>1, <1>2 DEF AiOneOwner
<1>4. AiOneOwner'
  <2>1. ASSUME NEW q \in AiRequests, NEW p \in AiOperations, AiOwner(aiRequests'[q], "invoke", p)
        PROVE  /\ operations'[p].status = "running"
               /\ aiRequests'[q].at \in {"authorizing", "reserving"} => charges'[p] = 0
               /\ aiRequests'[q].at \in {"invoking", "recording"} => charges'[p] = 1
    <3>1. CASE p = o
      BY <1>1, <1>3, <2>1, <3>1
    <3>2. CASE p # o
      <4>1. q # r
        BY <2>1, <3>2 DEF AiOwner
      <4> QED
        BY <1>2, <2>1, <3>2, <4>1 DEF AiOneOwner
    <3> QED
      BY <3>1, <3>2
  <2>2. ASSUME NEW q \in AiRequests, NEW c \in AiConfirmations,
               AiOwner(aiRequests'[q], "confirm", c)
        PROVE  confirmations'[c].status = "running"
    BY <1>2, <2>2 DEF AiOneOwner
  <2> QED
    BY <1>2, <2>1, <2>2, AiOwnersStay DEF AiOneOwner
<1>5. AiEntriesAgree'
  BY <1>1 DEF AiEntriesAgree
<1>6. AiConfirmationsAgree'
  BY AiConfirmationsStay
<1> QED
  BY <1>4, <1>5, <1>6

\* The outcome of an operation is kept in its entry.
LEMMA OutcomeIsKept ==
  ASSUME AiInv, NEW o \in AiOperations, NEW outcome,
         operations' = [operations EXCEPT ![o].status = outcome]
  PROVE  /\ DOMAIN operations' = AiOperations
         /\ operations'[o].status = outcome /\ "status" \in DOMAIN operations'[o]
         /\ \A p \in AiOperations : p # o => operations'[p] = operations[p]
<1>1. "status" \in DOMAIN operations[o] /\ DOMAIN operations = AiOperations
  BY DEF AiInv, AiEntriesAgree
<1>2. /\ DOMAIN operations' = AiOperations
      /\ operations'[o] = [operations[o] EXCEPT !.status = outcome]
      /\ \A p \in AiOperations : p # o => operations'[p] = operations[p]
  BY <1>1
<1> QED
  BY <1>1, <1>2

\* The operation is over: its entry has the outcome and its callers their answer.
LEMMA OutcomeKeeps ==
  ASSUME AiInv, NEW r \in AiRequests, NEW o, o = aiRequests[r].id,
         AiOwner(aiRequests[r], "invoke", o),
         aiRequests' = Answered("invoke", o),
         DOMAIN operations' = AiOperations,
         operations'[o].status \in {"proposed", "failed"}, "status" \in DOMAIN operations'[o],
         \A p \in AiOperations : p # o => operations'[p] = operations[p],
         DOMAIN proposals' = AiOperations, proposals'[o] \in Nat,
         \A p \in AiOperations : p # o => proposals'[p] = proposals[p],
         proposals'[o] # 0 => /\ operations'[o].status = "proposed" /\ charges[o] = 1
                              /\ <<o, "proposal_created">> \in callRecords',
         callRecords \subseteq callRecords',
         UNCHANGED <<aiTime, confirmations, charges, confirmed>>
  PROVE  AiInv'
<1> USE DEF AiInv
<1>1. o \in AiOperations /\ operations[o].status = "running" /\ proposals[o] = 0
  <2>1. aiRequests[r].at # "idle" /\ aiRequests[r].kind = "invoke" /\ AiShaped(aiRequests[r])
    BY DEF AiOwner, AiOwning
  <2>2. o \in AiOperations
    BY <2>1 DEF AiShaped
  <2>3. operations[o].status = "running"
    BY <2>2 DEF AiOneOwner
  <2> QED
    BY <2>2, <2>3 DEF AiEntriesAgree
<1>2. /\ DOMAIN aiRequests' = AiRequests
      /\ \A q \in AiRequests : aiRequests'[q] = AtRest \/ aiRequests'[q] = aiRequests[q]
      /\ \A q \in AiRequests : ~AiOwner(aiRequests'[q], "invoke", o)
      /\ \A q \in AiRequests : AiShaped(aiRequests'[q])
  BY AiSettles
<1>3. \A q \in AiRequests : \A kind, id :
        AiOwner(aiRequests'[q], kind, id) =>
          AiOwner(aiRequests[q], kind, id) /\ aiRequests'[q] = aiRequests[q]
  BY <1>2 DEF AiOwner, AiOwning, AtRest
<1>4. AiOneOwner'
  BY <1>2, <1>3, AiOwnersStay DEF AiOneOwner
<1>5. AiEntriesAgree'
  <2> SUFFICES ASSUME NEW p \in AiOperations
               PROVE  /\ "status" \in DOMAIN operations'[p]
                      /\ charges'[p] \in {0, 1} /\ proposals'[p] \in Nat
                      /\ operations'[p].status = "absent" => charges'[p] = 0
                      /\ proposals'[p] # 0 => /\ operations'[p].status = "proposed"
                                              /\ charges'[p] = 1
                                              /\ <<p, "proposal_created">> \in callRecords'
    BY DEF AiEntriesAgree
  <2>1. CASE p = o
    BY <1>1, <2>1 DEF AiEntriesAgree
  <2>2. CASE p # o
    BY <2>2 DEF AiEntriesAgree
  <2> QED
    BY <2>1, <2>2
<1>6. AiConfirmationsAgree'
  BY <1>1, AiConfirmationsStay
<1> QED
  BY <1>2, <1>4, <1>5, <1>6

\* A confirmation that begins has found its proposal in time; one that is asked
\* again shares it.
LEMMA ConfirmKeeps ==
  ASSUME AiInv, NEW r \in AiRequests, NEW c \in AiConfirmations, NEW o \in AiOperations,
         NEW d, ConfirmProposal(r, c, o, d)
  PROVE  AiInv'
<1> USE DEF AiInv
<1>1. aiRequests[r].at = "idle"
  BY DEF ConfirmProposal, Runs
<1>2. ASSUME NEW to \in {"authorizing", "sharing"},
             aiRequests' = [aiRequests EXCEPT ![r] = [at |-> to, kind |-> "confirm", id |-> c]]
      PROVE  /\ DOMAIN aiRequests' = AiRequests
             /\ \A q \in AiRequests : AiShaped(aiRequests'[q])
             /\ \A q \in AiRequests : q # r => aiRequests'[q] = aiRequests[q]
             /\ aiRequests'[r] = [at |-> to, kind |-> "confirm", id |-> c]
  BY <1>2 DEF AiShaped, AiOwning
<1>3. UNCHANGED <<aiTime, operations, proposals, charges, callRecords, confirmed>>
  BY DEF ConfirmProposal
<1>4. AiEntriesAgree'
  BY <1>3 DEF AiEntriesAgree
<1>5. CASE confirmations[c].status = "absent"
  <2>1. /\ confirmations' = [confirmations EXCEPT ![c] =
             [status |-> "running", of |-> o, decision |-> d, at |-> aiTime]]
        /\ aiTime < proposals[o]
        /\ aiRequests' = [aiRequests EXCEPT ![r] =
             [at |-> "authorizing", kind |-> "confirm", id |-> c]]
    BY <1>5 DEF ConfirmProposal
  <2>2. /\ DOMAIN confirmations' = AiConfirmations
        /\ confirmations'[c] =
             [status |-> "running", of |-> o, decision |-> d, at |-> aiTime]
        /\ \A e \in AiConfirmations : e # c => confirmations'[e] = confirmations[e]
    BY <2>1
  <2>3. /\ {"status", "of", "decision", "at"} \subseteq DOMAIN confirmations'[c]
        /\ confirmations'[c].status = "running" /\ confirmations'[c].of = o
        /\ confirmations'[c].at = aiTime
    BY <2>2
  <2>4. \A q \in AiRequests : ~AiOwner(aiRequests[q], "confirm", c)
    BY <1>5 DEF AiOneOwner
  <2>5. \A t \in confirmed : t.id # c
    BY <1>5 DEF AiConfirmationsAgree
  <2>6. /\ aiRequests'[r].at = "authorizing" /\ aiRequests'[r].kind = "confirm"
        /\ aiRequests'[r].id = c
    BY <1>2, <2>1
  <2>7. AiOneOwner'
    BY <1>2, <1>3, <2>1, <2>2, <2>3, <2>4, <2>6 DEF AiOneOwner, AiOwner
  <2>8. ASSUME NEW e \in AiConfirmations
        PROVE  /\ "status" \in DOMAIN confirmations'[e]
               /\ confirmations'[e].status # "absent" =>
                    /\ {"of", "decision", "at"} \subseteq DOMAIN confirmations'[e]
                    /\ confirmations'[e].of \in AiOperations
                    /\ confirmations'[e].at \in Nat
                    /\ confirmations'[e].at < proposals'[confirmations'[e].of]
    <3>1. CASE e = c
      BY <1>3, <2>1, <2>3, <3>1
    <3>2. CASE e # c
      BY <1>3, <2>2, <3>2 DEF AiConfirmationsAgree
    <3> QED
      BY <3>1, <3>2
  <2>9. ASSUME NEW t \in confirmed'
        PROVE  /\ t.id \in AiConfirmations
               /\ confirmations'[t.id].status = "confirmed"
               /\ t = [id |-> t.id, of |-> confirmations'[t.id].of,
                       decision |-> confirmations'[t.id].decision,
                       at |-> confirmations'[t.id].at]
    <3>1. t \in confirmed /\ t.id \in AiConfirmations
      BY <1>3 DEF AiConfirmationsAgree
    <3>2. confirmations'[t.id] = confirmations[t.id]
      BY <2>2, <2>5, <3>1
    <3> QED
      BY <3>1, <3>2 DEF AiConfirmationsAgree
  <2>10. AiConfirmationsAgree'
    BY <2>8, <2>9 DEF AiConfirmationsAgree
  <2> QED
    BY <1>2, <1>3, <1>4, <2>1, <2>2, <2>7, <2>10
<1>6. CASE confirmations[c].status # "absent"
  <2>1. /\ aiRequests' = [aiRequests EXCEPT ![r] =
             [at |-> "sharing", kind |-> "confirm", id |-> c]]
        /\ UNCHANGED confirmations
    BY <1>6 DEF ConfirmProposal
  <2>2. \A q \in AiRequests : \A kind, id :
          AiOwner(aiRequests'[q], kind, id) => AiOwner(aiRequests[q], kind, id) /\ q # r
    BY <1>2, <2>1 DEF AiOwner, AiOwning
  <2>3. AiOneOwner'
    BY <1>2, <1>3, <2>1, <2>2, AiOwnersStay DEF AiOneOwner
  <2>4. AiConfirmationsAgree'
    BY <1>3, <2>1, AiConfirmationsStay
  <2> QED
    BY <1>2, <1>3, <1>4, <2>1, <2>3, <2>4
<1> QED
  BY <1>5, <1>6

\* A confirmation is over, told or forgotten.
LEMMA ConfirmationOver ==
  ASSUME AiInv, NEW r \in AiRequests, Confirmed(r) \/ ConfirmationFails(r)
  PROVE  AiInv'
<1> USE DEF AiInv
<1> DEFINE c == aiRequests[r].id
<1>1. c \in AiConfirmations /\ AiOwner(aiRequests[r], "confirm", c)
  BY DEF Confirmed, ConfirmationFails, Runs, AiOwner, AiOwning, AiShaped
<1> HIDE DEF c
<1>2. confirmations[c].status = "running"
  BY <1>1 DEF AiOneOwner
<1>3. /\ aiRequests' = Answered("confirm", c)
      /\ UNCHANGED <<aiTime, operations, proposals, charges, callRecords>>
  BY DEF Confirmed, ConfirmationFails, c
<1>4. /\ DOMAIN aiRequests' = AiRequests
      /\ \A q \in AiRequests : aiRequests'[q] = AtRest \/ aiRequests'[q] = aiRequests[q]
      /\ \A q \in AiRequests : ~AiOwner(aiRequests'[q], "confirm", c)
      /\ \A q \in AiRequests : AiShaped(aiRequests'[q])
  BY <1>3, AiSettles
<1>5. \A q \in AiRequests : \A kind, id :
        AiOwner(aiRequests'[q], kind, id) =>
          AiOwner(aiRequests[q], kind, id) /\ aiRequests'[q] = aiRequests[q]
  BY <1>4 DEF AiOwner, AiOwning, AtRest
<1>6. AiEntriesAgree'
  BY <1>3 DEF AiEntriesAgree
<1>7. \A t \in confirmed : t.id # c
  BY <1>2 DEF AiConfirmationsAgree
<1>8. /\ DOMAIN confirmations' = AiConfirmations
      /\ \A e \in AiConfirmations : e # c => confirmations'[e] = confirmations[e]
  BY DEF Confirmed, ConfirmationFails, c
<1>9. AiOneOwner'
  BY <1>3, <1>4, <1>5, <1>8, AiOwnersStay DEF AiOneOwner
<1>10. /\ "status" \in DOMAIN confirmations'[c]
       /\ confirmations'[c].status # "absent" =>
            /\ {"of", "decision", "at"} \subseteq DOMAIN confirmations'[c]
            /\ confirmations'[c].of = confirmations[c].of
            /\ confirmations'[c].decision = confirmations[c].decision
            /\ confirmations'[c].at = confirmations[c].at
  <2>1. CASE Confirmed(r)
    <3>1. confirmations'[c] = [confirmations[c] EXCEPT !.status = "confirmed"]
      BY <1>1, <2>1 DEF Confirmed, c
    <3>2. {"status", "of", "decision", "at"} \subseteq DOMAIN confirmations[c]
      BY <1>1, <1>2 DEF AiConfirmationsAgree
    <3> QED
      BY <3>1, <3>2
  <2>2. CASE ConfirmationFails(r)
    <3>1. confirmations'[c] = [status |-> "absent"]
      BY <1>1, <2>2 DEF ConfirmationFails, NoEntry, c
    <3> QED
      BY <3>1
  <2> QED
    BY <2>1, <2>2
<1>11. ASSUME NEW e \in AiConfirmations
       PROVE  /\ "status" \in DOMAIN confirmations'[e]
              /\ confirmations'[e].status # "absent" =>
                   /\ {"of", "decision", "at"} \subseteq DOMAIN confirmations'[e]
                   /\ confirmations'[e].of \in AiOperations
                   /\ confirmations'[e].at \in Nat
                   /\ confirmations'[e].at < proposals'[confirmations'[e].of]
  <2>1. CASE e = c
    <3>1. /\ confirmations[c].of \in AiOperations /\ confirmations[c].at \in Nat
          /\ confirmations[c].at < proposals[confirmations[c].of]
      BY <1>1, <1>2 DEF AiConfirmationsAgree
    <3> QED
      BY <1>3, <1>10, <2>1, <3>1
  <2>2. CASE e # c
    BY <1>3, <1>8, <2>2 DEF AiConfirmationsAgree
  <2> QED
    BY <2>1, <2>2
<1>12. ASSUME NEW t \in confirmed'
       PROVE  /\ t.id \in AiConfirmations
              /\ confirmations'[t.id].status = "confirmed"
              /\ t = [id |-> t.id, of |-> confirmations'[t.id].of,
                      decision |-> confirmations'[t.id].decision,
                      at |-> confirmations'[t.id].at]
  <2>1. CASE t \in confirmed
    <3>1. t.id \in AiConfirmations /\ confirmations'[t.id] = confirmations[t.id]
      BY <1>7, <1>8, <2>1 DEF AiConfirmationsAgree
    <3> QED
      BY <2>1, <3>1 DEF AiConfirmationsAgree
  <2>2. CASE t \notin confirmed
    <3>1. /\ confirmations'[c] = [confirmations[c] EXCEPT !.status = "confirmed"]
          /\ t = [id |-> c, of |-> confirmations[c].of,
                  decision |-> confirmations[c].decision, at |-> confirmations[c].at]
      BY <1>1, <2>2 DEF Confirmed, ConfirmationFails, c
    <3>2. {"status", "of", "decision", "at"} \subseteq DOMAIN confirmations[c]
      BY <1>1, <1>2 DEF AiConfirmationsAgree
    <3>3. confirmations'[c].status = "confirmed" /\ t.id = c
      BY <3>1, <3>2
    <3>4. t = [id |-> c, of |-> confirmations'[c].of,
               decision |-> confirmations'[c].decision, at |-> confirmations'[c].at]
      BY <1>10, <3>1, <3>3
    <3> QED
      BY <1>1, <3>3, <3>4
  <2> QED
    BY <2>1, <2>2
<1>13. AiConfirmationsAgree'
  BY <1>11, <1>12 DEF AiConfirmationsAgree
<1> QED
  BY <1>3, <1>4, <1>6, <1>8, <1>9, <1>13

LEMMA NextAi == AiInv /\ [AiNext]_aiVars => AiInv'
<1> SUFFICES ASSUME AiInv, [AiNext]_aiVars PROVE AiInv'
  OBVIOUS
<1>1. CASE AiTick \/ UNCHANGED aiVars
  BY <1>1 DEF AiTick, aiVars, AiInv, AiOneOwner, AiEntriesAgree, AiConfirmationsAgree
<1>2. ASSUME NEW r \in AiRequests, NEW o \in AiOperations, NEW m, Invoke(r, o, m) PROVE AiInv'
  BY <1>2, InvokeKeeps
<1>3. ASSUME NEW r \in AiRequests,
             \/ Authorized(r) \/ Reserved(r) \/ AdapterAnswers(r)
             \/ RecordSuccess(r) \/ InvocationFails(r) \/ RecordFailure(r)
      PROVE  AiInv'
  <2> DEFINE o == aiRequests[r].id
  <2>1. /\ aiRequests[r].at \in AiOwning /\ aiRequests[r].kind = "invoke"
        /\ o \in AiOperations
    BY <1>3 DEF Authorized, Reserved, AdapterAnswers, RecordSuccess, InvocationFails,
                RecordFailure, Runs, AiOwning, AiInv, AiShaped
  <2>2. AiOwner(aiRequests[r], "invoke", o) /\ aiRequests[r].at # "idle"
    BY <2>1 DEF AiOwner, AiOwning
  <2>3. /\ charges[o] \in {0, 1} /\ operations[o].status = "running" /\ proposals[o] = 0
        /\ aiRequests[r].at \in {"authorizing", "reserving"} => charges[o] = 0
        /\ aiRequests[r].at \in {"invoking", "recording"} => charges[o] = 1
    BY <2>1, <2>2 DEF AiInv, AiOneOwner, AiEntriesAgree
  <2>4. DOMAIN charges = AiOperations /\ DOMAIN proposals = AiOperations
    BY DEF AiInv
  <2> HIDE DEF o
  <2>5. CASE Authorized(r)
    <3>1. Goes(r, "reserving") /\ aiRequests[r].at = "authorizing"
      BY <2>5 DEF Authorized, Runs
    <3>2. /\ DOMAIN aiRequests' = AiRequests
          /\ \A q \in AiRequests : q # r => aiRequests'[q] = aiRequests[q]
          /\ aiRequests'[r].at = "reserving" /\ aiRequests'[r].kind = "invoke"
          /\ aiRequests'[r].id = o
          /\ \A q \in AiRequests : AiShaped(aiRequests'[q])
      BY <2>1, <2>2, <3>1, AiGoesOn DEF AiOwning, o
    <3> QED
      BY <2>2, <2>3, <2>4, <2>5, <3>1, <3>2, GoesOnKeeps DEF Authorized, o
  <2>6. CASE Reserved(r)
    <3>1. /\ Goes(r, "invoking") /\ charges' = [charges EXCEPT ![o] = @ + 1]
          /\ charges[o] = 0
      BY <2>3, <2>6 DEF Reserved, Runs, o
    <3>2. /\ DOMAIN aiRequests' = AiRequests
          /\ \A q \in AiRequests : q # r => aiRequests'[q] = aiRequests[q]
          /\ aiRequests'[r].at = "invoking" /\ aiRequests'[r].kind = "invoke"
          /\ aiRequests'[r].id = o
          /\ \A q \in AiRequests : AiShaped(aiRequests'[q])
      BY <2>1, <2>2, <3>1, AiGoesOn DEF AiOwning, o
    <3>3. /\ charges'[o] = 1 /\ DOMAIN charges' = AiOperations
          /\ \A p \in AiOperations : p # o => charges'[p] = charges[p]
      BY <2>1, <2>4, <3>1 DEF o
    <3> QED
      BY <2>2, <2>6, <3>2, <3>3, GoesOnKeeps DEF Reserved, o
  <2>7. CASE AdapterAnswers(r)
    <3> DEFINE next == [at |-> "recording", kind |-> "invoke", id |-> o,
                        expires |-> aiTime + ProposalTtl]
    <3>1. aiRequests' = [aiRequests EXCEPT ![r] = next] /\ aiRequests[r].at = "invoking"
      BY <2>7 DEF AdapterAnswers, Runs, o
    <3>2. /\ next.at = "recording" /\ next.kind = "invoke" /\ next.id = o
          /\ next.expires = aiTime + ProposalTtl /\ {"at", "kind", "id"} \subseteq DOMAIN next
      OBVIOUS
    <3> HIDE DEF next
    <3>3. next.expires \in Nat
      BY <3>2, AiAssumption DEF AiAssumption, AiInv
    <3>4. AiShaped(next)
      BY <2>1, <3>2, <3>3 DEF AiShaped, AiOwning, o
    <3>5. /\ DOMAIN aiRequests' = AiRequests
          /\ \A q \in AiRequests : q # r => aiRequests'[q] = aiRequests[q]
          /\ aiRequests'[r] = next
          /\ \A q \in AiRequests : AiShaped(aiRequests'[q])
      BY <3>1, <3>4 DEF AiInv
    <3> QED
      BY <2>2, <2>3, <2>4, <2>7, <3>1, <3>2, <3>5, GoesOnKeeps DEF AdapterAnswers, o
  <2>8. CASE RecordSuccess(r)
    <3>1. /\ aiRequests' = Answered("invoke", o)
          /\ proposals' = [proposals EXCEPT ![o] = aiRequests[r].expires]
          /\ callRecords' = callRecords \cup {<<o, "proposal_created">>}
          /\ aiRequests[r].at = "recording"
          /\ UNCHANGED <<aiTime, confirmations, charges, confirmed>>
      BY <2>8 DEF RecordSuccess, Runs, o
    <3>2. aiRequests[r].expires \in Nat
      BY <3>1 DEF AiInv, AiShaped
    <3>3. /\ DOMAIN proposals' = AiOperations /\ proposals'[o] \in Nat
          /\ \A p \in AiOperations : p # o => proposals'[p] = proposals[p]
      BY <2>1, <2>4, <3>1, <3>2 DEF o
    <3>4. o = aiRequests[r].id
      BY DEF o
    <3>5. /\ proposals'[o] # 0 => charges[o] = 1 /\ <<o, "proposal_created">> \in callRecords'
          /\ callRecords \subseteq callRecords'
      BY <2>3, <3>1
    <3>6. /\ DOMAIN operations' = AiOperations
          /\ operations'[o].status = "proposed" /\ "status" \in DOMAIN operations'[o]
          /\ \A p \in AiOperations : p # o => operations'[p] = operations[p]
      <4>1. operations' = [operations EXCEPT ![o].status = "proposed"]
        BY <2>8 DEF RecordSuccess, o
      <4> QED
        BY <2>1, <3>4, <4>1, OutcomeIsKept
    <3>7. /\ o = aiRequests[r].id /\ AiOwner(aiRequests[r], "invoke", o)
          /\ aiRequests' = Answered("invoke", o)
          /\ DOMAIN operations' = AiOperations
          /\ operations'[o].status \in {"proposed", "failed"} /\ "status" \in DOMAIN operations'[o]
          /\ \A p \in AiOperations : p # o => operations'[p] = operations[p]
          /\ DOMAIN proposals' = AiOperations /\ proposals'[o] \in Nat
          /\ \A p \in AiOperations : p # o => proposals'[p] = proposals[p]
          /\ proposals'[o] # 0 => /\ operations'[o].status = "proposed" /\ charges[o] = 1
                                  /\ <<o, "proposal_created">> \in callRecords'
          /\ callRecords \subseteq callRecords'
          /\ UNCHANGED <<aiTime, confirmations, charges, confirmed>>
      BY <2>2, <3>1, <3>3, <3>4, <3>5, <3>6
    <3> QED
      BY <3>7, OutcomeKeeps, Zenon
  <2>9. CASE InvocationFails(r)
    <3>1. Goes(r, "failing")
      BY <2>9 DEF InvocationFails
    <3>2. /\ DOMAIN aiRequests' = AiRequests
          /\ \A q \in AiRequests : q # r => aiRequests'[q] = aiRequests[q]
          /\ aiRequests'[r].at = "failing" /\ aiRequests'[r].kind = "invoke"
          /\ aiRequests'[r].id = o
          /\ \A q \in AiRequests : AiShaped(aiRequests'[q])
      BY <2>1, <2>2, <3>1, AiGoesOn DEF AiOwning, o
    <3>3. callRecords \subseteq callRecords'
      BY <2>9 DEF InvocationFails
    <3> QED
      BY <2>2, <2>3, <2>4, <2>9, <3>2, <3>3, GoesOnKeeps DEF InvocationFails, o
  <2>10. CASE RecordFailure(r)
    <3>1. /\ aiRequests' = Answered("invoke", o)
          /\ callRecords \subseteq callRecords'
          /\ UNCHANGED <<aiTime, proposals, confirmations, charges, confirmed>>
      BY <2>10 DEF RecordFailure, o
    <3>2. o = aiRequests[r].id
      BY DEF o
    <3>3. /\ DOMAIN proposals' = AiOperations /\ proposals'[o] = 0
          /\ \A p \in AiOperations : p # o => proposals'[p] = proposals[p]
      BY <2>3, <2>4, <3>1
    <3>4. /\ DOMAIN operations' = AiOperations
          /\ operations'[o].status = "failed" /\ "status" \in DOMAIN operations'[o]
          /\ \A p \in AiOperations : p # o => operations'[p] = operations[p]
      <4>1. operations' = [operations EXCEPT ![o].status = "failed"]
        BY <2>10 DEF RecordFailure, o
      <4> QED
        BY <2>1, <3>2, <4>1, OutcomeIsKept
    <3>5. /\ o = aiRequests[r].id /\ AiOwner(aiRequests[r], "invoke", o)
          /\ aiRequests' = Answered("invoke", o)
          /\ DOMAIN operations' = AiOperations
          /\ operations'[o].status \in {"proposed", "failed"} /\ "status" \in DOMAIN operations'[o]
          /\ \A p \in AiOperations : p # o => operations'[p] = operations[p]
          /\ DOMAIN proposals' = AiOperations /\ proposals'[o] \in Nat
          /\ \A p \in AiOperations : p # o => proposals'[p] = proposals[p]
          /\ proposals'[o] # 0 => /\ operations'[o].status = "proposed" /\ charges[o] = 1
                                  /\ <<o, "proposal_created">> \in callRecords'
          /\ callRecords \subseteq callRecords'
          /\ UNCHANGED <<aiTime, confirmations, charges, confirmed>>
      BY <2>2, <3>1, <3>2, <3>3, <3>4
    <3> QED
      BY <3>5, OutcomeKeeps, Zenon
  <2> QED
    BY <1>3, <2>5, <2>6, <2>7, <2>8, <2>9, <2>10
<1>4. ASSUME NEW r \in AiRequests, NEW c \in AiConfirmations, NEW o \in AiOperations, NEW d,
             ConfirmProposal(r, c, o, d)
      PROVE  AiInv'
  BY <1>4, ConfirmKeeps
<1>5. ASSUME NEW r \in AiRequests, Confirmed(r) \/ ConfirmationFails(r) PROVE AiInv'
  BY <1>5, ConfirmationOver
<1> QED
  BY <1>1, <1>2, <1>3, <1>4, <1>5 DEF AiNext

\* An operation is charged at most once, and what was confirmed is a proposal in
\* time whose call was charged and recorded, one decision per confirmation, for
\* any number of requests that share, fail and are repeated.
THEOREM AiStaysAccountable == AiSpec => []AiIsAccountable
<1>1. AiInit => AiInv
  <2> SUFFICES ASSUME AiInit PROVE AiInv
    OBVIOUS
  <2>1. \A r \in AiRequests : aiRequests[r] = AtRest
    BY DEF AiInit
  <2>2. AtRest.at = "idle" /\ "at" \in DOMAIN AtRest
    BY DEF AtRest
  <2>3. \A r \in AiRequests : AiShaped(aiRequests[r])
    BY <2>1, <2>2 DEF AiShaped
  <2>4. AiOneOwner
    BY <2>1, <2>2 DEF AiOneOwner, AiOwner, AiOwning
  <2>5. NoEntry.status = "absent" /\ "status" \in DOMAIN NoEntry
    BY DEF NoEntry
  <2>6. AiEntriesAgree /\ AiConfirmationsAgree
    BY <2>5 DEF AiInit, AiEntriesAgree, AiConfirmationsAgree
  <2> QED
    BY <2>3, <2>4, <2>6 DEF AiInit, AiInv
<1> QED
  BY <1>1, AiImplies, NextAi, PTL DEF AiSpec

-----------------------------------------------------------------------------
(* The form registry.                                                      *)

FormContents ==
  UNION {{c.content : c \in {d \in FormCommandsOf[o] : d.kind = "save"}} : o \in FormOperations}

FormRelease == [content : FormContents, digest : FormContents, active : BOOLEAN]

\* What is stored: a release names the draft it was taken of, or is known to have
\* been sent too early; each receipt has left its mark, and a save the next draft.
FormFactsInv ==
  /\ drafts \in Seq(FormContents) /\ formReleases \in Seq(FormRelease)
  /\ \A i \in DOMAIN formReleases :
       formReleases[i].digest # formReleases[i].content => i \in hurried
  /\ \A p \in formReceipts :
       /\ p = [operation |-> p.operation, command |-> p.command]
       /\ p.command.kind = "save" => p.command.expected \in Nat /\ p.command.expected < Len(drafts)
       /\ p.command.kind = "publish" =>
            /\ p.command.expected \in DOMAIN drafts
            /\ \E i \in DOMAIN formReleases : formReleases[i].content = drafts[p.command.expected]
  /\ \A p, q \in formReceipts :
       /\ p.operation = q.operation => p = q
       /\ p.command.kind = "save" /\ q.command.kind = "save"
            /\ p.command.expected = q.command.expected => p = q
  /\ formTold \subseteq formReceipts

FormLocks == {"locked", "checked"}

FormShaped(call) ==
  /\ "at" \in DOMAIN call
  /\ call.at \in {"idle", "submitted", "stored", "failing"} \cup FormLocks
  /\ call.at # "idle" =>
       /\ {"operation", "command", "read"} \subseteq DOMAIN call
       /\ call.operation \in FormOperations /\ call.command \in FormCommandsOf[call.operation]

\* What a request holds at each place: a draft it has read, its locks, what it
\* has checked under them, and its receipt.
FormHolds(call) ==
  /\ call.at # "idle" => /\ call.read \in 0..Len(drafts)
                         /\ call.command.kind = "publish" => call.read # 0
  /\ call.at \in FormLocks => \A p \in formReceipts : p.operation # call.operation
  /\ call.at = "checked" => PassesForm(call.command)
  /\ call.at = "stored" =>
       [operation |-> call.operation, command |-> call.command] \in formReceipts

\* An operation has one transaction past its lock, the form one that has checked.
FormApart ==
  \A q, r \in FormCallers :
    /\ formCalls[q].at \in FormLocks /\ formCalls[r].at \in FormLocks
         /\ formCalls[q].operation = formCalls[r].operation => q = r
    /\ formCalls[q].at = "checked" /\ formCalls[r].at = "checked" => q = r

FormInv ==
  /\ FormFactsInv /\ FormApart
  /\ DOMAIN formCalls = FormCallers
  /\ \A r \in FormCallers : FormShaped(formCalls[r]) /\ FormHolds(formCalls[r])

LEMMA FormGoesTo ==
  ASSUME NEW call, FormShaped(call), call.at # "idle", NEW to \in {"stored", "failing"} \cup FormLocks
  PROVE  /\ [call EXCEPT !.at = to].at = to
         /\ [call EXCEPT !.at = to].operation = call.operation
         /\ [call EXCEPT !.at = to].command = call.command
         /\ [call EXCEPT !.at = to].read = call.read
         /\ FormShaped([call EXCEPT !.at = to])
BY DEF FormShaped

\* One request goes on; the others stay.
LEMMA FormMoves ==
  ASSUME FormInv, NEW r \in FormCallers, formCalls[r].at # "idle",
         NEW to \in {"stored", "failing"} \cup FormLocks, FormGoes(r, to)
  PROVE  /\ DOMAIN formCalls' = FormCallers
         /\ \A q \in FormCallers : q # r => formCalls'[q] = formCalls[q]
         /\ FormShaped(formCalls'[r])
         /\ formCalls'[r].at = to /\ formCalls'[r].operation = formCalls[r].operation
         /\ formCalls'[r].command = formCalls[r].command
         /\ formCalls'[r].read = formCalls[r].read
<1> DEFINE next == [formCalls[r] EXCEPT !.at = to]
<1>1. FormShaped(formCalls[r]) /\ DOMAIN formCalls = FormCallers
  BY DEF FormInv
<1>2. formCalls' = [formCalls EXCEPT ![r] = next]
  BY DEF FormGoes
<1>3. /\ next.at = to /\ next.operation = formCalls[r].operation
      /\ next.command = formCalls[r].command /\ next.read = formCalls[r].read
      /\ FormShaped(next)
  BY <1>1, FormGoesTo
<1> HIDE DEF next
<1>4. /\ DOMAIN formCalls' = FormCallers /\ formCalls'[r] = next
      /\ \A q \in FormCallers : q # r => formCalls'[q] = formCalls[q]
  BY <1>1, <1>2
<1> QED
  BY <1>3, <1>4

\* Where a release's content and digest stay though it is switched.
LEMMA FormSwitches ==
  ASSUME NEW rs \in Seq(FormRelease), NEW k \in DOMAIN rs, NEW b \in BOOLEAN,
         NEW now, now = [rs EXCEPT ![k].active = b]
  PROVE  /\ now \in Seq(FormRelease) /\ DOMAIN now = DOMAIN rs
         /\ \A i \in DOMAIN rs : now[i].content = rs[i].content /\ now[i].digest = rs[i].digest
<1>1. rs[k] \in FormRelease
  OBVIOUS
<1> DEFINE switched == [rs[k] EXCEPT !.active = b]
<1>2. switched \in FormRelease /\ switched.content = rs[k].content /\ switched.digest = rs[k].digest
  BY <1>1 DEF FormRelease
<1>3. now = [rs EXCEPT ![k] = switched]
  OBVIOUS
<1> HIDE DEF switched
<1>4. now \in Seq(FormRelease) /\ DOMAIN now = DOMAIN rs
  BY <1>2, <1>3
<1>5. \A i \in DOMAIN rs : now[i] = IF i = k THEN switched ELSE rs[i]
  BY <1>3
<1> QED
  BY <1>2, <1>4, <1>5

\* What a commit makes of the drafts and the releases: they only grow.
FormGrows ==
  /\ Len(drafts) <= Len(drafts') /\ DOMAIN drafts \subseteq DOMAIN drafts'
  /\ \A n \in DOMAIN drafts : drafts'[n] = drafts[n]
  /\ DOMAIN formReleases \subseteq DOMAIN formReleases'
  /\ \A i \in DOMAIN formReleases : formReleases'[i].content = formReleases[i].content

LEMMA FormStores ==
  ASSUME FormInv, NEW r \in FormCallers, FormAt(r, "checked"), StoresForm(r)
  PROVE  /\ drafts' \in Seq(FormContents) /\ formReleases' \in Seq(FormRelease)
         /\ \A i \in DOMAIN formReleases' :
              formReleases'[i].digest # formReleases'[i].content => i \in hurried'
         /\ FormGrows
         /\ FormCommand(r).kind = "save" =>
              /\ FormCommand(r).expected = Len(drafts) /\ Len(drafts') = Len(drafts) + 1
         /\ FormCommand(r).kind = "publish" =>
              /\ FormCommand(r).expected \in DOMAIN drafts
              /\ \E i \in DOMAIN formReleases' :
                   formReleases'[i].content = drafts[FormCommand(r).expected]
<1> DEFINE c == FormCommand(r)  call == formCalls[r]
<1>1. /\ call.operation \in FormOperations /\ c \in FormCommandsOf[call.operation]
      /\ call.read \in 0..Len(drafts) /\ (c.kind = "publish" => call.read # 0)
      /\ PassesForm(c)
  BY DEF FormInv, FormShaped, FormHolds, FormAt, FormCommand
<1>2. /\ c.kind \in {"save", "publish", "active"}
      /\ c.kind = "save" => c.expected \in Nat
      /\ c.kind = "publish" => c.expected \in Nat \ {0}
      /\ c.kind = "active" => c.release \in Nat \ {0} /\ c.active \in BOOLEAN
  BY <1>1, FormSchemaAssumption DEF FormSchemaAssumption
<1>3. /\ drafts \in Seq(FormContents) /\ formReleases \in Seq(FormRelease)
      /\ \A i \in DOMAIN formReleases :
           formReleases[i].digest # formReleases[i].content => i \in hurried
      /\ hurried \subseteq hurried'
  BY DEF FormInv, FormFactsInv, StoresForm
<1>4. CASE c.kind = "save"
  <2>1. c.expected = Len(drafts)
    BY <1>1, <1>4 DEF PassesForm
  <2>2. drafts' = Append(drafts, c.content) /\ formReleases' = formReleases
    BY <1>4 DEF StoresForm
  <2>3. c.content \in FormContents
    BY <1>1, <1>4 DEF FormContents
  <2> HIDE DEF c
  <2>4. /\ drafts' \in Seq(FormContents) /\ Len(drafts') = Len(drafts) + 1
        /\ DOMAIN drafts \subseteq DOMAIN drafts' /\ Len(drafts) <= Len(drafts')
        /\ \A n \in DOMAIN drafts : drafts'[n] = drafts[n]
    BY <1>3, <2>2, <2>3
  <2> QED
    BY <1>3, <1>4, <2>1, <2>2, <2>4 DEF FormGrows, c
<1>5. CASE c.kind = "publish"
  <2> DEFINE new == [content |-> drafts[Len(drafts)], digest |-> drafts[call.read], active |-> TRUE]
  <2>1. c.expected = Len(drafts) /\ c.expected \in DOMAIN drafts
    <3>1. c.expected = Len(drafts)
      BY <1>1, <1>5 DEF PassesForm
    <3> QED
      BY <1>2, <1>3, <1>5, <3>1
  <2>2. drafts' = drafts /\ formReleases' = Append(formReleases, new)
    BY <1>5 DEF StoresForm
  <2>3. hurried' = IF call.read < c.expected THEN hurried \cup {Len(formReleases) + 1} ELSE hurried
    BY <1>5 DEF StoresForm
  <2>4. call.read \in DOMAIN drafts
    BY <1>1, <1>3, <1>5
  <2>5. new \in FormRelease /\ new.content = drafts[c.expected] /\ new.digest = drafts[call.read]
    BY <1>3, <2>1, <2>4 DEF FormRelease
  <2>6. new.digest # new.content => Len(formReleases) + 1 \in hurried'
    BY <1>1, <2>1, <2>3, <2>5
  <2> HIDE DEF new, c, call
  <2>7. /\ formReleases' \in Seq(FormRelease)
        /\ DOMAIN formReleases' = 1..(Len(formReleases) + 1)
        /\ DOMAIN formReleases = 1..Len(formReleases) /\ Len(formReleases) \in Nat
        /\ formReleases'[Len(formReleases) + 1] = new
        /\ \A i \in DOMAIN formReleases : formReleases'[i] = formReleases[i]
    BY <1>3, <2>2, <2>5
  <2>8. ASSUME NEW i \in DOMAIN formReleases', formReleases'[i].digest # formReleases'[i].content
        PROVE  i \in hurried'
    <3>1. CASE i = Len(formReleases) + 1
      BY <2>6, <2>7, <2>8, <3>1
    <3>2. CASE i # Len(formReleases) + 1
      <4>1. i \in DOMAIN formReleases
        BY <2>7, <3>2
      <4> QED
        BY <1>3, <2>7, <2>8, <4>1
    <3> QED
      BY <3>1, <3>2
  <2>9. \E i \in DOMAIN formReleases' : formReleases'[i].content = drafts[c.expected]
    <3>1. Len(formReleases) + 1 \in DOMAIN formReleases'
      BY <2>7
    <3>2. formReleases'[Len(formReleases) + 1].content = drafts[c.expected]
      BY <2>5, <2>7
    <3> QED
      BY <3>1, <3>2
  <2>10. FormGrows
    BY <1>3, <2>2, <2>7 DEF FormGrows
  <2> QED
    BY <1>3, <1>5, <2>1, <2>2, <2>7, <2>8, <2>9, <2>10 DEF c
<1>6. CASE c.kind = "active"
  <2>1. c.release \in DOMAIN formReleases
    BY <1>1, <1>6 DEF PassesForm
  <2>2. drafts' = drafts /\ formReleases' = [formReleases EXCEPT ![c.release].active = c.active]
    BY <1>6 DEF StoresForm
  <2> HIDE DEF c
  <2>3. /\ formReleases' \in Seq(FormRelease) /\ DOMAIN formReleases' = DOMAIN formReleases
        /\ \A i \in DOMAIN formReleases :
             /\ formReleases'[i].content = formReleases[i].content
             /\ formReleases'[i].digest = formReleases[i].digest
    BY <1>2, <1>3, <1>6, <2>1, <2>2, FormSwitches
  <2>4. FormGrows
    <3>1. drafts' = drafts /\ Len(drafts) \in Nat
      BY <1>3, <2>2
    <3> QED
      BY <2>3, <3>1 DEF FormGrows
  <2>5. \A i \in DOMAIN formReleases' :
          formReleases'[i].digest # formReleases'[i].content => i \in hurried'
    BY <1>3, <2>3
  <2>6. drafts' \in Seq(FormContents)
    BY <1>3, <2>2
  <2> QED
    BY <1>6, <2>3, <2>4, <2>5, <2>6 DEF c
<1> QED
  BY <1>2, <1>4, <1>5, <1>6

\* The receipt of a commit is of an operation that had none, and a save's of the
\* next draft.
LEMMA FormCommits ==
  ASSUME FormInv, NEW r \in FormCallers, FormAt(r, "checked"), StoresForm(r),
         formTold' = formTold
  PROVE  FormFactsInv'
<1> DEFINE c == FormCommand(r)
           new == [operation |-> formCalls[r].operation, command |-> c]
<1>1. /\ drafts' \in Seq(FormContents) /\ formReleases' \in Seq(FormRelease)
      /\ \A i \in DOMAIN formReleases' :
           formReleases'[i].digest # formReleases'[i].content => i \in hurried'
      /\ FormGrows
      /\ c.kind = "save" => c.expected = Len(drafts) /\ Len(drafts') = Len(drafts) + 1
      /\ c.kind = "publish" =>
           /\ c.expected \in DOMAIN drafts
           /\ \E i \in DOMAIN formReleases' : formReleases'[i].content = drafts[c.expected]
  BY FormStores
<1>2. /\ formReceipts' = formReceipts \cup {new} /\ new.command = c
      /\ new = [operation |-> new.operation, command |-> new.command]
      /\ \A p \in formReceipts : p.operation # new.operation
  BY DEF FormInv, FormHolds, FormAt, FormLocks, StoresForm
<1>3. /\ \A p \in formReceipts :
           /\ p = [operation |-> p.operation, command |-> p.command]
           /\ p.command.kind = "save" => p.command.expected \in Nat /\ p.command.expected < Len(drafts)
           /\ p.command.kind = "publish" =>
                /\ p.command.expected \in DOMAIN drafts
                /\ \E i \in DOMAIN formReleases : formReleases[i].content = drafts[p.command.expected]
      /\ \A p, q \in formReceipts :
           /\ p.operation = q.operation => p = q
           /\ p.command.kind = "save" /\ q.command.kind = "save"
                /\ p.command.expected = q.command.expected => p = q
      /\ formTold \subseteq formReceipts
      /\ Len(drafts) \in Nat
  BY DEF FormInv, FormFactsInv
<1> HIDE DEF c, new
<1>4. ASSUME NEW p \in formReceipts'
      PROVE  /\ p = [operation |-> p.operation, command |-> p.command]
             /\ p.command.kind = "save" =>
                  p.command.expected \in Nat /\ p.command.expected < Len(drafts')
             /\ p.command.kind = "publish" =>
                  /\ p.command.expected \in DOMAIN drafts'
                  /\ \E i \in DOMAIN formReleases' :
                       formReleases'[i].content = drafts'[p.command.expected]
  <2>1. CASE p \in formReceipts
    <3>1. p.command.kind = "save" =>
            p.command.expected \in Nat /\ p.command.expected < Len(drafts')
      <4>1. Len(drafts) <= Len(drafts') /\ Len(drafts') \in Nat
        BY <1>1 DEF FormGrows
      <4> QED
        BY <1>3, <2>1, <4>1
    <3>2. ASSUME p.command.kind = "publish"
          PROVE  /\ p.command.expected \in DOMAIN drafts'
                 /\ \E i \in DOMAIN formReleases' :
                      formReleases'[i].content = drafts'[p.command.expected]
      <4>1. /\ p.command.expected \in DOMAIN drafts
            /\ \E i \in DOMAIN formReleases : formReleases[i].content = drafts[p.command.expected]
        BY <1>3, <2>1, <3>2
      <4>2. /\ p.command.expected \in DOMAIN drafts'
            /\ drafts'[p.command.expected] = drafts[p.command.expected]
        BY <1>1, <4>1 DEF FormGrows
      <4>3. PICK i \in DOMAIN formReleases :
              formReleases[i].content = drafts[p.command.expected]
        BY <4>1
      <4>4. i \in DOMAIN formReleases' /\ formReleases'[i].content = formReleases[i].content
        BY <1>1, <4>3 DEF FormGrows
      <4> QED
        BY <4>2, <4>3, <4>4
    <3> QED
      BY <1>3, <2>1, <3>1, <3>2
  <2>2. CASE p = new
    <3>1. c.kind = "save" => c.expected \in Nat /\ c.expected < Len(drafts')
      BY <1>1, <1>3
    <3>2. c.kind = "publish" => /\ c.expected \in DOMAIN drafts'
                                /\ drafts'[c.expected] = drafts[c.expected]
      BY <1>1 DEF FormGrows
    <3> QED
      BY <1>1, <1>2, <2>2, <3>1, <3>2
  <2> QED
    BY <1>2, <2>1, <2>2
<1>5. ASSUME NEW p \in formReceipts', NEW q \in formReceipts'
      PROVE  /\ p.operation = q.operation => p = q
             /\ p.command.kind = "save" /\ q.command.kind = "save"
                  /\ p.command.expected = q.command.expected => p = q
  <2>1. CASE p \in formReceipts /\ q \in formReceipts
    BY <1>3, <2>1
  <2>2. CASE p = new /\ q = new
    BY <2>2
  <2>3. CASE p = new /\ q \in formReceipts
    <3>1. p.operation # q.operation
      BY <1>2, <2>3
    <3>2. p.command.kind = "save" /\ q.command.kind = "save" =>
            p.command.expected # q.command.expected
      BY <1>1, <1>2, <1>3, <2>3
    <3> QED
      BY <3>1, <3>2
  <2>4. CASE p \in formReceipts /\ q = new
    <3>1. p.operation # q.operation
      BY <1>2, <2>4
    <3>2. p.command.kind = "save" /\ q.command.kind = "save" =>
            p.command.expected # q.command.expected
      BY <1>1, <1>2, <1>3, <2>4
    <3> QED
      BY <3>1, <3>2
  <2> QED
    BY <1>2, <2>1, <2>2, <2>3, <2>4
<1>6. formTold' \subseteq formReceipts'
  BY <1>2, <1>3
<1> QED
  BY <1>1, <1>4, <1>5, <1>6 DEF FormFactsInv

\* The other requests hold what they held: none else has checked, and none that
\* is past its lock has the operation of the receipt.
LEMMA FormOthersHold ==
  ASSUME FormInv, NEW r \in FormCallers, FormAt(r, "checked"), StoresForm(r),
         NEW q \in FormCallers, q # r, formCalls'[q] = formCalls[q]
  PROVE  FormHolds(formCalls[q])'
<1>1. FormGrows
  BY FormStores
<1>2. /\ formReceipts' = formReceipts \cup
           {[operation |-> formCalls[r].operation, command |-> FormCommand(r)]}
  BY DEF StoresForm
<1>3. FormHolds(formCalls[q]) /\ FormShaped(formCalls[q])
  BY DEF FormInv
<1>4. formCalls[q].at # "checked"
  BY DEF FormInv, FormApart, FormAt
<1>5. formCalls[q].at \in FormLocks => formCalls[q].operation # formCalls[r].operation
  BY DEF FormInv, FormApart, FormAt, FormLocks
<1>6. formCalls[q].at # "idle" => formCalls[q].read \in 0..Len(drafts')
  <2>1. Len(drafts) \in Nat /\ Len(drafts') \in Nat /\ Len(drafts) <= Len(drafts')
    <3>1. drafts \in Seq(FormContents) /\ drafts' \in Seq(FormContents)
      BY FormStores DEF FormInv, FormFactsInv
    <3> QED
      BY <1>1, <3>1 DEF FormGrows
  <2> QED
    BY <1>3, <2>1 DEF FormHolds
<1>7. formCalls[q].at \in FormLocks =>
        \A p \in formReceipts' : p.operation # formCalls[q].operation
  BY <1>2, <1>3, <1>5 DEF FormHolds
<1>8. formCalls[q].at = "stored" =>
        [operation |-> formCalls[q].operation, command |-> formCalls[q].command] \in formReceipts'
  BY <1>2, <1>3 DEF FormHolds
<1> QED
  BY <1>3, <1>4, <1>6, <1>7, <1>8 DEF FormHolds

\* A request that only moves, or is let go.
LEMMA FormKeeps ==
  ASSUME FormInv, UNCHANGED <<formFacts, formTold>>, NEW r \in FormCallers,
         DOMAIN formCalls' = FormCallers,
         \A q \in FormCallers : q # r => formCalls'[q] = formCalls[q],
         FormShaped(formCalls'[r]), FormHolds(formCalls[r])', FormApart'
  PROVE  FormInv'
<1>1. FormFactsInv'
  BY DEF FormInv, FormFactsInv, formFacts
<1>2. ASSUME NEW q \in FormCallers
      PROVE  FormShaped(formCalls'[q]) /\ FormHolds(formCalls[q])'
  <2>1. CASE q = r
    BY <2>1
  <2>2. CASE q # r
    BY <2>2 DEF FormInv, FormHolds, FormShaped, PassesForm, formFacts
  <2> QED
    BY <2>1, <2>2
<1> QED
  BY <1>1, <1>2 DEF FormInv, FormShaped

\* A request that leaves its locks lets nobody in with it.
LEMMA FormStaysApart ==
  ASSUME FormInv, NEW r \in FormCallers, NEW next,
         formCalls' = [formCalls EXCEPT ![r] = next], next.at \notin FormLocks
  PROVE  FormApart'
<1>1. /\ formCalls'[r] = next
      /\ \A q \in FormCallers : q # r => formCalls'[q] = formCalls[q]
  BY DEF FormInv
<1> QED
  BY <1>1 DEF FormInv, FormApart, FormLocks

LEMMA FormStep == FormInv /\ [FormNext]_formVars => FormInv'
<1> SUFFICES ASSUME FormInv, [FormNext]_formVars
             PROVE  FormInv'
  OBVIOUS
<1>1. ASSUME NEW r \in FormCallers, NEW o \in FormOperations, NEW c \in FormCommandsOf[o],
             SubmitForm(r, o, c)
      PROVE  FormInv'
  <2> DEFINE call == [at |-> "submitted", operation |-> o, command |-> c, read |-> Len(drafts)]
  <2>1. formCalls' = [formCalls EXCEPT ![r] = call] /\ UNCHANGED <<formFacts, formTold>>
    BY <1>1 DEF SubmitForm
  <2>2. /\ DOMAIN formCalls' = FormCallers /\ formCalls'[r] = call
        /\ \A q \in FormCallers : q # r => formCalls'[q] = formCalls[q]
    BY <2>1 DEF FormInv
  <2>3. FormShaped(call)
    BY <1>1 DEF FormShaped
  <2>4. Len(drafts) \in 0..Len(drafts') /\ (c.kind = "publish" => Len(drafts) # 0)
    <3>1. drafts \in Seq(FormContents) /\ drafts' = drafts
      BY <2>1 DEF FormInv, FormFactsInv, formFacts
    <3>2. c.kind = "publish" => drafts # <<>>
      BY <1>1 DEF SubmitForm, FormReadBefore
    <3> QED
      BY <3>1, <3>2
  <2>5. FormHolds(formCalls[r])'
    BY <2>2, <2>4 DEF FormHolds, FormLocks
  <2>6. FormApart'
    BY <2>1, FormStaysApart DEF FormLocks
  <2> QED
    BY <2>1, <2>2, <2>3, <2>5, <2>6, FormKeeps
<1>2. ASSUME NEW r \in FormCallers, BeginForm(r)
      PROVE  FormInv'
  <2> DEFINE o == formCalls[r].operation
  <2>1. /\ UNCHANGED <<formFacts, formTold>> /\ formCalls[r].at = "submitted"
        /\ \A q \in FormCallers : formCalls[q].at \in FormLocks => formCalls[q].operation # o
    BY <1>2 DEF BeginForm, FormAt, FormLocks
  <2>2. PICK to \in {"locked", "stored", "failing"} :
          /\ FormGoes(r, to)
          /\ to = "locked" => \A p \in formReceipts : p.operation # o
          /\ to = "stored" => \E p \in formReceipts : p.operation = o /\ p.command = FormCommand(r)
    <3>1. CASE FormReceiptsOf(o) = {}
      BY <1>2, <3>1 DEF BeginForm, FormReceiptsOf
    <3>2. CASE FormReceiptsOf(o) # {} /\ \E p \in FormReceiptsOf(o) : p.command = FormCommand(r)
      BY <1>2, <3>2 DEF BeginForm, FormReceiptsOf
    <3>3. CASE FormReceiptsOf(o) # {} /\ ~\E p \in FormReceiptsOf(o) : p.command = FormCommand(r)
      BY <1>2, <3>3 DEF BeginForm
    <3> QED
      BY <3>1, <3>2, <3>3
  <2>3. /\ DOMAIN formCalls' = FormCallers
        /\ \A q \in FormCallers : q # r => formCalls'[q] = formCalls[q]
        /\ FormShaped(formCalls'[r])
        /\ formCalls'[r].at = to /\ formCalls'[r].operation = o
        /\ formCalls'[r].command = formCalls[r].command
        /\ formCalls'[r].read = formCalls[r].read
    BY <2>1, <2>2, FormMoves DEF FormLocks
  <2>4. FormHolds(formCalls[r])
    BY DEF FormInv
  <2>5. to = "stored" => [operation |-> o, command |-> formCalls[r].command] \in formReceipts
    BY <2>2 DEF FormInv, FormFactsInv, FormCommand
  <2>6. FormHolds(formCalls[r])'
    BY <2>1, <2>2, <2>3, <2>4, <2>5 DEF FormHolds, FormLocks, formFacts
  <2>7. FormApart'
    BY <2>1, <2>2, <2>3 DEF FormInv, FormApart, FormLocks
  <2> QED
    BY <2>1, <2>3, <2>6, <2>7, FormKeeps
<1>3. ASSUME NEW r \in FormCallers, CheckForm(r)
      PROVE  FormInv'
  <2>1. /\ UNCHANGED <<formFacts, formTold>> /\ formCalls[r].at = "locked"
        /\ \A q \in FormCallers : formCalls[q].at # "checked"
    BY <1>3 DEF CheckForm, FormAt
  <2>2. PICK to \in {"checked", "failing"} :
          FormGoes(r, to) /\ (to = "checked" => PassesForm(formCalls[r].command))
    BY <1>3 DEF CheckForm, FormCommand
  <2>3. /\ DOMAIN formCalls' = FormCallers
        /\ \A q \in FormCallers : q # r => formCalls'[q] = formCalls[q]
        /\ FormShaped(formCalls'[r])
        /\ formCalls'[r].at = to /\ formCalls'[r].operation = formCalls[r].operation
        /\ formCalls'[r].command = formCalls[r].command
        /\ formCalls'[r].read = formCalls[r].read
    BY <2>1, <2>2, FormMoves DEF FormLocks
  <2>4. FormHolds(formCalls[r])
    BY DEF FormInv
  <2>5. PassesForm(formCalls[r].command) => PassesForm(formCalls[r].command)'
    BY <2>1, <2>3 DEF PassesForm, formFacts
  <2>6. FormHolds(formCalls[r])'
    BY <2>1, <2>2, <2>3, <2>4, <2>5 DEF FormHolds, FormLocks, formFacts
  <2>7. FormApart'
    BY <2>1, <2>2, <2>3 DEF FormInv, FormApart, FormLocks
  <2> QED
    BY <2>1, <2>3, <2>6, <2>7, FormKeeps
<1>4. ASSUME NEW r \in FormCallers, FormAt(r, "checked"), StoresForm(r),
             formTold' = formTold, NEW to \in {"stored", "failing"}, FormGoes(r, to)
      PROVE  FormInv'
  <2>1. FormFactsInv'
    BY <1>4, FormCommits
  <2>2. /\ DOMAIN formCalls' = FormCallers
        /\ \A q \in FormCallers : q # r => formCalls'[q] = formCalls[q]
        /\ FormShaped(formCalls'[r])
        /\ formCalls'[r].at = to /\ formCalls'[r].operation = formCalls[r].operation
        /\ formCalls'[r].command = formCalls[r].command
        /\ formCalls'[r].read = formCalls[r].read
    BY <1>4, FormMoves DEF FormAt
  <2>3. FormHolds(formCalls[r])'
    <3>1. /\ formCalls[r].read \in 0..Len(drafts)
          /\ formCalls[r].command.kind = "publish" => formCalls[r].read # 0
      BY <1>4 DEF FormInv, FormHolds, FormAt
    <3>2. Len(drafts) \in Nat /\ Len(drafts') \in Nat /\ Len(drafts) <= Len(drafts')
      <4>1. drafts \in Seq(FormContents) /\ drafts' \in Seq(FormContents) /\ FormGrows
        BY <1>4, FormStores DEF FormInv, FormFactsInv
      <4> QED
        BY <4>1 DEF FormGrows
    <3>3. [operation |-> formCalls[r].operation, command |-> formCalls[r].command] \in formReceipts'
      BY <1>4 DEF StoresForm, FormCommand
    <3> QED
      BY <2>2, <3>1, <3>2, <3>3 DEF FormHolds, FormLocks
  <2>4. ASSUME NEW q \in FormCallers
        PROVE  FormShaped(formCalls'[q]) /\ FormHolds(formCalls[q])'
    <3>1. CASE q = r
      BY <2>2, <2>3, <3>1
    <3>2. CASE q # r
      <4>1. FormHolds(formCalls[q])'
        BY <1>4, <2>2, <3>2, FormOthersHold
      <4> QED
        BY <2>2, <3>2, <4>1 DEF FormInv
    <3> QED
      BY <3>1, <3>2
  <2>5. FormApart'
    BY <2>2 DEF FormInv, FormApart, FormLocks
  <2> QED
    BY <2>1, <2>2, <2>4, <2>5 DEF FormInv, FormShaped
<1>5. ASSUME NEW r \in FormCallers, CommitForm(r)
      PROVE  FormInv'
  BY <1>4, <1>5 DEF CommitForm
<1>6. ASSUME NEW r \in FormCallers, CommitFormFails(r)
      PROVE  FormInv'
  <2>1. CASE FormAt(r, "checked") /\ StoresForm(r)
    BY <1>4, <1>6, <2>1 DEF CommitFormFails
  <2>2. CASE UNCHANGED formFacts
    <3>1. /\ UNCHANGED <<formFacts, formTold>> /\ formCalls[r].at # "idle"
          /\ FormGoes(r, "failing")
      BY <1>6, <2>2 DEF CommitFormFails
    <3>2. /\ DOMAIN formCalls' = FormCallers
          /\ \A q \in FormCallers : q # r => formCalls'[q] = formCalls[q]
          /\ FormShaped(formCalls'[r])
          /\ formCalls'[r].at = "failing"
          /\ formCalls'[r].command = formCalls[r].command
          /\ formCalls'[r].read = formCalls[r].read
      BY <3>1, FormMoves
    <3>3. FormHolds(formCalls[r])
      BY DEF FormInv
    <3>4. FormHolds(formCalls[r])'
      BY <3>1, <3>2, <3>3 DEF FormHolds, FormLocks, formFacts
    <3>5. FormApart'
      BY <3>2 DEF FormInv, FormApart, FormLocks
    <3> QED
      BY <3>1, <3>2, <3>4, <3>5, FormKeeps
  <2> QED
    BY <1>6, <2>1, <2>2 DEF CommitFormFails
<1>7. ASSUME NEW r \in FormCallers, formCalls' = [formCalls EXCEPT ![r] = NoFormCall]
      PROVE  /\ DOMAIN formCalls' = FormCallers
             /\ \A q \in FormCallers : q # r => formCalls'[q] = formCalls[q]
             /\ FormShaped(formCalls'[r]) /\ FormHolds(formCalls[r])' /\ FormApart'
  <2>1. /\ DOMAIN formCalls' = FormCallers /\ formCalls'[r] = NoFormCall
        /\ \A q \in FormCallers : q # r => formCalls'[q] = formCalls[q]
    BY <1>7 DEF FormInv
  <2>2. FormShaped(NoFormCall) /\ NoFormCall.at = "idle"
    BY DEF FormShaped, NoFormCall
  <2>3. FormHolds(formCalls[r])'
    BY <2>1, <2>2 DEF FormHolds, FormLocks
  <2>4. FormApart'
    BY <1>7, <2>2, FormStaysApart DEF FormLocks
  <2> QED
    BY <2>1, <2>2, <2>3, <2>4
<1>8. ASSUME NEW r \in FormCallers, FailForm(r)
      PROVE  FormInv'
  <2>1. formCalls' = [formCalls EXCEPT ![r] = NoFormCall] /\ UNCHANGED <<formFacts, formTold>>
    BY <1>8 DEF FailForm
  <2>2. /\ DOMAIN formCalls' = FormCallers
        /\ \A q \in FormCallers : q # r => formCalls'[q] = formCalls[q]
        /\ FormShaped(formCalls'[r]) /\ FormHolds(formCalls[r])' /\ FormApart'
    BY <1>7, <2>1
  <2> QED
    BY <2>1, <2>2, FormKeeps
<1>9. ASSUME NEW r \in FormCallers, FinishForm(r)
      PROVE  FormInv'
  <2>1. formCalls' = [formCalls EXCEPT ![r] = NoFormCall] /\ UNCHANGED formFacts
    BY <1>9 DEF FinishForm
  <2>2. /\ DOMAIN formCalls' = FormCallers
        /\ \A q \in FormCallers : q # r => formCalls'[q] = formCalls[q]
        /\ FormShaped(formCalls'[r]) /\ FormHolds(formCalls[r])' /\ FormApart'
    BY <1>7, <2>1
  <2>3. formTold' \subseteq formReceipts
    BY <1>9 DEF FinishForm, FormAt, FormCommand, FormInv, FormHolds, FormFactsInv
  <2>4. FormFactsInv'
    BY <2>1, <2>3 DEF FormInv, FormFactsInv, formFacts
  <2>5. ASSUME NEW q \in FormCallers
        PROVE  FormShaped(formCalls'[q]) /\ FormHolds(formCalls[q])'
    <3>1. CASE q = r
      BY <2>2, <3>1
    <3>2. CASE q # r
      BY <2>1, <2>2, <3>2 DEF FormInv, FormHolds, FormShaped, PassesForm, formFacts
    <3> QED
      BY <3>1, <3>2
  <2> QED
    BY <2>2, <2>4, <2>5 DEF FormInv, FormShaped
<1>10. CASE UNCHANGED formVars
  BY <1>10 DEF FormInv, FormFactsInv, FormApart, FormHolds, FormShaped, PassesForm, formVars
<1> QED
  BY <1>1, <1>2, <1>3, <1>5, <1>6, <1>8, <1>9, <1>10 DEF FormNext

\* FormsAreExact of FormSchema, for any number of requests, commands and drafts:
\* with the two locks a command is checked and applied to the same draft, so the
\* receipts tell which drafts and releases there are.
THEOREM FormsStayExact == FormSpec => []FormsAreExact
<1>1. FormInit => FormInv
  <2> SUFFICES ASSUME FormInit PROVE FormInv
    OBVIOUS
  <2>1. FormFactsInv
    BY DEF FormInit, FormFactsInv
  <2>2. \A r \in FormCallers : formCalls[r].at = "idle" /\ FormShaped(formCalls[r])
    BY DEF FormInit, NoFormCall, FormShaped
  <2>3. FormApart /\ \A r \in FormCallers : FormHolds(formCalls[r])
    BY <2>2 DEF FormApart, FormHolds, FormLocks
  <2> QED
    BY <2>1, <2>2, <2>3 DEF FormInit, FormInv
<1>2. FormInv => FormsAreExact
  BY DEF FormInv, FormFactsInv, FormsAreExact
<1> QED
  BY <1>1, <1>2, FormStep, PTL DEF FormSpec

-----------------------------------------------------------------------------
(* The workflow facade.                                                    *)

WorkflowOwning == {"checking", "writing", "confirming", "recording"}
WorkflowRunning == WorkflowOwning \cup {"sharing"}
WorkflowToldOf == {"publishing", "finishing"}

\* What an entry says of the engine: absent, nothing was executed; completed, the
\* command was.
WorkflowLedgerInv ==
  \A c \in WorkflowCommands :
    /\ "status" \in DOMAIN ledger[c]
    /\ effects[c] \in {0, 1}
    /\ ledger[c].status = "absent" => effects[c] = 0
    /\ ledger[c].status = "completed" => effects[c] = 1

WorkflowKeysInv ==
  /\ \A s \in succeeded : s[1] \in WorkflowCommands
  /\ \A f \in facts : f.key \in WorkflowCommands

\* What a request holds at each place: who shares an entry shares it running, the
\* owner knows whether the engine has executed, and what is published is complete.
WorkflowHolds(call) ==
  /\ "at" \in DOMAIN call
  /\ call.at \in {"idle", "ledger"} \cup WorkflowRunning \cup WorkflowToldOf
  /\ call.at # "idle" =>
       {"command", "actor"} \subseteq DOMAIN call /\ call.command \in WorkflowCommands
  /\ call.at \in WorkflowRunning =>
       ledger[call.command].status = "running" /\ ledger[call.command].by = call.actor
  /\ call.at \in {"checking", "writing"} => effects[call.command] = 0
  /\ call.at \in {"confirming", "recording"} => effects[call.command] = 1
  /\ call.at \in WorkflowToldOf =>
       ledger[call.command].status = "completed" /\ ledger[call.command].by = call.actor
  /\ call.at = "finishing" /\ OperationOf[call.command] # "definition_deploy" =>
       FactOf(call.command) \in facts

WorkflowOneOwner ==
  \A q, r \in WorkflowCallers :
    calls[q].at \in WorkflowOwning /\ calls[r].at \in WorkflowOwning
      /\ calls[q].command = calls[r].command => q = r

WorkflowInv ==
  /\ DOMAIN ledger = WorkflowCommands /\ DOMAIN effects = WorkflowCommands
  /\ DOMAIN calls = WorkflowCallers
  /\ WorkflowLedgerInv /\ WorkflowKeysInv /\ SuccessIsWhole /\ WorkflowOneOwner
  /\ \A r \in WorkflowCallers : WorkflowHolds(calls[r])

LEMMA WorkflowGoesTo ==
  ASSUME NEW call, WorkflowHolds(call), call.at # "idle",
         NEW to \in {"ledger"} \cup WorkflowRunning \cup WorkflowToldOf
  PROVE  /\ "at" \in DOMAIN [call EXCEPT !.at = to] /\ [call EXCEPT !.at = to].at = to
         /\ {"command", "actor"} \subseteq DOMAIN [call EXCEPT !.at = to]
         /\ [call EXCEPT !.at = to].command = call.command
         /\ [call EXCEPT !.at = to].actor = call.actor
BY DEF WorkflowHolds

\* One request goes on with the entry and the engine as they are.
LEMMA WorkflowMoves ==
  ASSUME WorkflowInv, NEW r \in WorkflowCallers, NEW next,
         calls' = [calls EXCEPT ![r] = next], UNCHANGED <<ledger, effects>>,
         facts \subseteq facts', WorkflowKeysInv', SuccessIsWhole',
         calls'[r] = next => WorkflowHolds(calls[r])',
         next.at \in WorkflowOwning =>
           calls[r].at \in WorkflowOwning /\ next.command = calls[r].command
  PROVE  WorkflowInv'
<1>1. /\ DOMAIN calls' = WorkflowCallers /\ calls'[r] = next
      /\ \A q \in WorkflowCallers : q # r => calls'[q] = calls[q]
  BY DEF WorkflowInv
<1>2. WorkflowOneOwner'
  BY <1>1 DEF WorkflowInv, WorkflowOneOwner
<1>3. ASSUME NEW q \in WorkflowCallers
      PROVE  WorkflowHolds(calls[q])'
  <2>1. CASE q = r
    BY <1>1, <2>1 DEF WorkflowHolds, FactOf
  <2>2. CASE q # r
    BY <1>1, <2>2 DEF WorkflowInv, WorkflowHolds, FactOf
  <2> QED
    BY <2>1, <2>2
<1> QED
  BY <1>1, <1>2, <1>3 DEF WorkflowInv, WorkflowLedgerInv

\* What is known of one entry, and of the requests of its command, is all that may
\* change as long as the entry is not a completed one.
LEMMA WorkflowSettles ==
  ASSUME WorkflowInv, NEW c \in WorkflowCommands, ledger[c].status # "completed",
         DOMAIN ledger' = WorkflowCommands, DOMAIN effects' = WorkflowCommands,
         DOMAIN calls' = WorkflowCallers,
         \A d \in WorkflowCommands : d # c => ledger'[d] = ledger[d] /\ effects'[d] = effects[d],
         UNCHANGED <<facts, succeeded>>,
         "status" \in DOMAIN ledger'[c], effects'[c] \in {0, 1},
         ledger'[c].status = "absent" => effects'[c] = 0,
         ledger'[c].status = "completed" => effects'[c] = 1,
         WorkflowOneOwner',
         \A q \in WorkflowCallers :
           \/ WorkflowHolds(calls[q])'
           \/ /\ calls'[q] = calls[q]
              /\ calls[q].at \notin {"idle", "ledger"} => calls[q].command # c
  PROVE  WorkflowInv'
<1>1. WorkflowLedgerInv' /\ WorkflowKeysInv'
  BY DEF WorkflowInv, WorkflowLedgerInv, WorkflowKeysInv
<1>2. SuccessIsWhole'
  <2>1. \A s \in succeeded : s[1] \in WorkflowCommands /\ s[1] # c
    BY DEF WorkflowInv, WorkflowKeysInv, SuccessIsWhole
  <2>2. \A f \in facts : f.key \in WorkflowCommands /\ f.key # c
    BY DEF WorkflowInv, WorkflowKeysInv, SuccessIsWhole
  <2>3. \A d \in WorkflowCommands : d # c => FactOf(d)' = FactOf(d)
    BY DEF FactOf
  <2> QED
    BY <2>1, <2>2, <2>3 DEF WorkflowInv, SuccessIsWhole
<1>3. ASSUME NEW q \in WorkflowCallers
      PROVE  WorkflowHolds(calls[q])'
  <2>1. CASE calls'[q] = calls[q] /\ calls[q].at \in {"idle", "ledger"}
    BY <2>1 DEF WorkflowInv, WorkflowHolds, WorkflowRunning, WorkflowOwning, WorkflowToldOf
  <2>2. CASE calls'[q] = calls[q] /\ calls[q].at # "idle" /\ calls[q].command # c
    <3> DEFINE d == calls[q].command
    <3>1. WorkflowHolds(calls[q])
      BY DEF WorkflowInv
    <3>2. d \in WorkflowCommands
      BY <2>2, <3>1 DEF WorkflowHolds
    <3>3. ledger'[d] = ledger[d] /\ effects'[d] = effects[d]
      BY <2>2, <3>2
    <3>4. FactOf(d)' = FactOf(d)
      BY <2>2, <3>3 DEF FactOf
    <3> QED
      BY <2>2, <3>1, <3>3, <3>4 DEF WorkflowHolds
  <2> QED
    BY <2>1, <2>2
<1> QED
  BY <1>1, <1>2, <1>3 DEF WorkflowInv

\* The owner's action fails: its entry is forgotten or kept as unknown, and all
\* who shared it are let go.
LEMMA WorkflowFails ==
  ASSUME WorkflowInv, NEW r \in WorkflowCallers, calls[r].at \in WorkflowOwning,
         NEW outcome \in {"absent", "reconciliation_required"}, Fails(r, outcome),
         DOMAIN effects' = WorkflowCommands,
         \A d \in WorkflowCommands : d # calls[r].command => effects'[d] = effects[d],
         effects'[calls[r].command] \in {0, 1},
         outcome = "absent" => effects'[calls[r].command] = 0
  PROVE  WorkflowInv'
<1> DEFINE c == calls[r].command
<1>1. /\ c \in WorkflowCommands /\ "status" \in DOMAIN ledger[c] /\ ledger[c].status = "running"
      /\ DOMAIN ledger = WorkflowCommands /\ DOMAIN effects = WorkflowCommands
  BY DEF WorkflowInv, WorkflowHolds, WorkflowLedgerInv, WorkflowRunning, WorkflowOwning
<1>2. /\ ledger' = [ledger EXCEPT ![c] =
           IF outcome = "absent" THEN Absent ELSE [@ EXCEPT !.status = outcome]]
      /\ UNCHANGED <<facts, succeeded>>
      /\ calls' = SettledFor(c, [u \in WorkflowCallers |-> Idle])
  BY DEF Fails
<1>3. /\ DOMAIN calls' = WorkflowCallers
      /\ \A q \in WorkflowCallers :
           calls'[q] = IF calls[q].at \in WorkflowRunning /\ calls[q].command = c
                       THEN Idle ELSE calls[q]
  BY <1>2 DEF SettledFor, WorkflowRunning, WorkflowOwning
<1> DEFINE entry == IF outcome = "absent" THEN Absent ELSE [ledger[c] EXCEPT !.status = outcome]
<1>4. "status" \in DOMAIN entry /\ entry.status = outcome
  BY <1>1 DEF Absent
<1>5. ledger' = [ledger EXCEPT ![c] = entry]
  BY <1>2
<1> HIDE DEF entry, c
<1>6. /\ DOMAIN ledger' = WorkflowCommands /\ ledger'[c] = entry
      /\ \A d \in WorkflowCommands : d # c => ledger'[d] = ledger[d]
  BY <1>1, <1>5
<1>7. WorkflowOneOwner'
  BY <1>3 DEF WorkflowInv, WorkflowOneOwner, WorkflowOwning, Idle
<1>8. ASSUME NEW q \in WorkflowCallers
      PROVE  \/ WorkflowHolds(calls[q])'
             \/ /\ calls'[q] = calls[q]
                /\ calls[q].at \notin {"idle", "ledger"} => calls[q].command # c
  <2>1. CASE calls[q].at \in WorkflowRunning /\ calls[q].command = c
    BY <1>3, <2>1 DEF WorkflowHolds, Idle, WorkflowRunning, WorkflowOwning, WorkflowToldOf
  <2>2. CASE ~(calls[q].at \in WorkflowRunning /\ calls[q].command = c)
    BY <1>1, <1>3, <2>2 DEF WorkflowInv, WorkflowHolds
  <2> QED
    BY <2>1, <2>2
<1>9. /\ \A d \in WorkflowCommands : d # c => effects'[d] = effects[d]
      /\ effects'[c] \in {0, 1} /\ (outcome = "absent" => effects'[c] = 0)
  BY DEF c
<1> QED
  BY <1>1, <1>2, <1>3, <1>4, <1>6, <1>7, <1>8, <1>9, WorkflowSettles

LEMMA WorkflowStep == WorkflowInv /\ [WorkflowNext]_workflowVars => WorkflowInv'
<1> SUFFICES ASSUME WorkflowInv, [WorkflowNext]_workflowVars
             PROVE  WorkflowInv'
  OBVIOUS
<1> USE DEF WorkflowRunning, WorkflowOwning, WorkflowToldOf
<1>1. ASSUME UNCHANGED <<ledger, effects, facts, succeeded>>
      PROVE  facts \subseteq facts' /\ WorkflowKeysInv' /\ SuccessIsWhole'
  BY <1>1 DEF WorkflowInv, WorkflowKeysInv, SuccessIsWhole, FactOf
<1>2. ASSUME NEW r \in WorkflowCallers, UNCHANGED <<ledger, effects>>, Refused(r),
             facts \subseteq facts', WorkflowKeysInv', SuccessIsWhole'
      PROVE  WorkflowInv'
  <2>1. calls' = [calls EXCEPT ![r] = Idle]
    BY <1>2 DEF Refused
  <2>2. (calls'[r] = Idle => WorkflowHolds(calls[r])') /\ Idle.at \notin WorkflowOwning
    BY DEF WorkflowHolds, Idle
  <2> QED
    BY <1>2, <2>1, <2>2, WorkflowMoves
<1>3. ASSUME NEW r \in WorkflowCallers, NEW c \in WorkflowCommands, NEW a \in Principals,
             Request(r, c, a)
      PROVE  WorkflowInv'
  <2> DEFINE call == [at |-> "ledger", command |-> c, actor |-> a]
  <2>1. calls' = [calls EXCEPT ![r] = call] /\ UNCHANGED <<ledger, effects, facts, succeeded>>
    BY <1>3 DEF Request
  <2>2. (calls'[r] = call => WorkflowHolds(calls[r])') /\ call.at \notin WorkflowOwning
    BY DEF WorkflowHolds
  <2> HIDE DEF call
  <2> QED
    BY <1>1, <2>1, <2>2, WorkflowMoves
<1>4. ASSUME NEW r \in WorkflowCallers, LedgerConflict(r)
      PROVE  WorkflowInv'
  BY <1>1, <1>2, <1>4 DEF LedgerConflict
<1>5. ASSUME NEW r \in WorkflowCallers, LedgerKnows(r)
      PROVE  WorkflowInv'
  <2> DEFINE c == calls[r].command
             to == IF ledger[c].status = "completed" THEN "publishing" ELSE "sharing"
             next == [calls[r] EXCEPT !.at = to]
  <2>1. /\ calls' = [calls EXCEPT ![r] = next] /\ UNCHANGED <<ledger, effects, facts, succeeded>>
        /\ calls[r].at = "ledger" /\ ledger[c].by = calls[r].actor
        /\ ledger[c].status \in {"completed", "running"}
    BY <1>5 DEF LedgerKnows, Asks
  <2>2. /\ "at" \in DOMAIN next /\ next.at = to /\ {"command", "actor"} \subseteq DOMAIN next
        /\ next.command = c /\ next.actor = calls[r].actor /\ c \in WorkflowCommands
    BY <2>1, WorkflowGoesTo DEF WorkflowInv, WorkflowHolds
  <2> HIDE DEF next
  <2>3. calls'[r] = next => WorkflowHolds(calls[r])'
    BY <2>1, <2>2 DEF WorkflowHolds
  <2> QED
    BY <1>1, <2>1, <2>2, <2>3, WorkflowMoves
<1>6. ASSUME NEW r \in WorkflowCallers, LedgerRuns(r)
      PROVE  WorkflowInv'
  <2> DEFINE c == calls[r].command
             entry == [status |-> "running", by |-> calls[r].actor]
             next == [calls[r] EXCEPT !.at = "checking"]
  <2>1. /\ calls' = [calls EXCEPT ![r] = next] /\ UNCHANGED <<effects, facts, succeeded>>
        /\ calls[r].at = "ledger" /\ ledger[c].status = "absent"
        /\ ledger' = [ledger EXCEPT ![c] = entry]
    BY <1>6 DEF LedgerRuns, Asks
  <2>2. /\ "at" \in DOMAIN next /\ next.at = "checking"
        /\ {"command", "actor"} \subseteq DOMAIN next
        /\ next.command = c /\ next.actor = calls[r].actor /\ c \in WorkflowCommands
    BY <2>1, WorkflowGoesTo DEF WorkflowInv, WorkflowHolds
  <2> HIDE DEF next, c
  <2>3. /\ DOMAIN ledger' = WorkflowCommands /\ ledger'[c] = entry
        /\ \A d \in WorkflowCommands : d # c => ledger'[d] = ledger[d]
        /\ DOMAIN calls' = WorkflowCallers /\ calls'[r] = next
        /\ \A q \in WorkflowCallers : q # r => calls'[q] = calls[q]
    BY <2>1, <2>2 DEF WorkflowInv
  <2>4. effects[c] = 0 /\ DOMAIN effects' = WorkflowCommands
    BY <2>1, <2>2 DEF WorkflowInv, WorkflowLedgerInv
  <2>5. \A q \in WorkflowCallers : calls[q].at \notin {"idle", "ledger"} => calls[q].command # c
    BY <2>1 DEF WorkflowInv, WorkflowHolds
  <2>6. WorkflowHolds(calls[r])'
    BY <2>1, <2>2, <2>3, <2>4 DEF WorkflowHolds
  <2>7. WorkflowOneOwner'
    BY <2>2, <2>3, <2>5 DEF WorkflowInv, WorkflowOneOwner
  <2>8. "status" \in DOMAIN ledger'[c] /\ ledger'[c].status = "running"
    BY <2>3
  <2>9. \A q \in WorkflowCallers :
          \/ WorkflowHolds(calls[q])'
          \/ /\ calls'[q] = calls[q]
             /\ calls[q].at \notin {"idle", "ledger"} => calls[q].command # c
    BY <2>3, <2>5, <2>6
  <2>10. /\ ledger[c].status # "completed" /\ effects'[c] \in {0, 1}
         /\ ledger'[c].status = "absent" => effects'[c] = 0
         /\ ledger'[c].status = "completed" => effects'[c] = 1
    BY <2>1, <2>4, <2>8
  <2> QED
    BY <2>1, <2>2, <2>3, <2>4, <2>7, <2>8, <2>9, <2>10, WorkflowSettles
<1>7. ASSUME NEW r \in WorkflowCallers, Check(r)
      PROVE  WorkflowInv'
  <2> DEFINE next == [calls[r] EXCEPT !.at = "writing"]
  <2>1. /\ calls' = [calls EXCEPT ![r] = next] /\ UNCHANGED <<ledger, effects, facts, succeeded>>
        /\ calls[r].at = "checking"
    BY <1>7 DEF Check, Asks
  <2>2. /\ "at" \in DOMAIN next /\ next.at = "writing"
        /\ {"command", "actor"} \subseteq DOMAIN next
        /\ next.command = calls[r].command /\ next.actor = calls[r].actor
    BY <2>1, WorkflowGoesTo DEF WorkflowInv
  <2> HIDE DEF next
  <2>3. calls'[r] = next => WorkflowHolds(calls[r])'
    BY <2>1, <2>2 DEF WorkflowInv, WorkflowHolds
  <2> QED
    BY <1>1, <2>1, <2>2, <2>3, WorkflowMoves
<1>8. ASSUME NEW r \in WorkflowCallers, CheckFails(r) \/ WriteRejected(r)
      PROVE  WorkflowInv'
  <2>1. /\ calls[r].at \in {"checking", "writing"} /\ Fails(r, "absent") /\ effects' = effects
    BY <1>8 DEF CheckFails, WriteRejected, Asks
  <2>2. effects[calls[r].command] = 0 /\ DOMAIN effects = WorkflowCommands
    BY <2>1 DEF WorkflowInv, WorkflowHolds
  <2> QED
    BY <2>1, <2>2, WorkflowFails
<1>9. ASSUME NEW r \in WorkflowCallers, calls[r].at = "writing", EngineExecutes(r)
      PROVE  /\ DOMAIN effects' = WorkflowCommands /\ effects'[calls[r].command] = 1
             /\ \A d \in WorkflowCommands : d # calls[r].command => effects'[d] = effects[d]
  <2>1. /\ effects' = [effects EXCEPT ![calls[r].command] = effects[calls[r].command] + 1]
        /\ effects[calls[r].command] = 0 /\ DOMAIN effects = WorkflowCommands
        /\ calls[r].command \in WorkflowCommands
    BY <1>9 DEF EngineExecutes, WorkflowInv, WorkflowHolds
  <2> QED
    BY <2>1
<1>10. ASSUME NEW r \in WorkflowCallers, Write(r)
       PROVE  WorkflowInv'
  <2> DEFINE c == calls[r].command
             next == [calls[r] EXCEPT !.at = "confirming"]
  <2>1. /\ calls' = [calls EXCEPT ![r] = next] /\ UNCHANGED <<ledger, facts, succeeded>>
        /\ calls[r].at = "writing"
    BY <1>10 DEF Write, Asks
  <2>2. /\ "at" \in DOMAIN next /\ next.at = "confirming"
        /\ {"command", "actor"} \subseteq DOMAIN next
        /\ next.command = c /\ next.actor = calls[r].actor
    BY <2>1, WorkflowGoesTo DEF WorkflowInv
  <2>3. /\ c \in WorkflowCommands /\ ledger[c].status = "running"
        /\ ledger[c].by = calls[r].actor /\ "status" \in DOMAIN ledger[c]
    BY <2>1 DEF WorkflowInv, WorkflowHolds, WorkflowLedgerInv
  <2>4. /\ DOMAIN effects' = WorkflowCommands /\ effects'[c] = 1
        /\ \A d \in WorkflowCommands : d # c => effects'[d] = effects[d]
    BY <1>9, <1>10, <2>1 DEF Write
  <2> HIDE DEF next, c
  <2>5. /\ DOMAIN ledger' = WorkflowCommands /\ ledger' = ledger
        /\ DOMAIN calls' = WorkflowCallers /\ calls'[r] = next
        /\ \A q \in WorkflowCallers : q # r => calls'[q] = calls[q]
    BY <2>1 DEF WorkflowInv
  <2>6. WorkflowHolds(calls[r])'
    BY <2>2, <2>3, <2>4, <2>5 DEF WorkflowHolds
  <2>7. WorkflowOneOwner'
    BY <2>1, <2>2, <2>5 DEF WorkflowInv, WorkflowOneOwner, c
  <2>8. ASSUME NEW q \in WorkflowCallers
        PROVE  \/ WorkflowHolds(calls[q])'
               \/ /\ calls'[q] = calls[q]
                  /\ calls[q].at \notin {"idle", "ledger"} => calls[q].command # c
    <3>1. CASE q # r /\ calls[q].at = "sharing"
      BY <2>5, <3>1 DEF WorkflowInv, WorkflowHolds
    <3>2. CASE q # r /\ calls[q].at \in WorkflowOwning
      BY <2>1, <2>5, <3>2 DEF WorkflowInv, WorkflowOneOwner, c
    <3>3. CASE q # r /\ calls[q].at \in WorkflowToldOf
      BY <2>3, <2>5, <3>3 DEF WorkflowInv, WorkflowHolds
    <3> QED
      BY <2>5, <2>6, <3>1, <3>2, <3>3 DEF WorkflowInv, WorkflowHolds
  <2>9. /\ ledger[c].status # "completed" /\ effects'[c] \in {0, 1}
        /\ ledger'[c].status = "absent" => effects'[c] = 0
        /\ ledger'[c].status = "completed" => effects'[c] = 1
        /\ "status" \in DOMAIN ledger'[c]
        /\ \A d \in WorkflowCommands : d # c => ledger'[d] = ledger[d] /\ effects'[d] = effects[d]
    BY <2>3, <2>4, <2>5
  <2> QED
    BY <2>1, <2>3, <2>4, <2>5, <2>7, <2>8, <2>9, WorkflowSettles
<1>11. ASSUME NEW r \in WorkflowCallers, WriteUnanswered(r)
       PROVE  WorkflowInv'
  <2>1. calls[r].at = "writing" /\ Fails(r, "reconciliation_required")
    BY <1>11 DEF WriteUnanswered, Asks, Ambiguous
  <2>2. CASE EngineExecutes(r)
    BY <1>9, <2>1, <2>2, WorkflowFails
  <2>3. CASE UNCHANGED <<engine, effects>>
    <3>1. effects[calls[r].command] = 0 /\ DOMAIN effects = WorkflowCommands
      BY <2>1 DEF WorkflowInv, WorkflowHolds
    <3> QED
      BY <2>1, <2>3, <3>1, WorkflowFails
  <2> QED
    BY <1>11, <2>2, <2>3 DEF WriteUnanswered
<1>12. ASSUME NEW r \in WorkflowCallers, Confirm(r)
       PROVE  WorkflowInv'
  <2> DEFINE next == [at |-> "recording", command |-> calls[r].command, actor |-> calls[r].actor,
                      read |-> [status |-> engine.status, assigned |-> engine.assigned]]
  <2>1. /\ calls' = [calls EXCEPT ![r] = next] /\ UNCHANGED <<ledger, effects, facts, succeeded>>
        /\ calls[r].at = "confirming"
    BY <1>12 DEF Confirm, Asks
  <2>2. /\ "at" \in DOMAIN next /\ next.at = "recording"
        /\ {"command", "actor"} \subseteq DOMAIN next
        /\ next.command = calls[r].command /\ next.actor = calls[r].actor
    OBVIOUS
  <2> HIDE DEF next
  <2>3. calls'[r] = next => WorkflowHolds(calls[r])'
    BY <2>1, <2>2 DEF WorkflowInv, WorkflowHolds
  <2> QED
    BY <1>1, <2>1, <2>2, <2>3, WorkflowMoves
<1>13. ASSUME NEW r \in WorkflowCallers, ConfirmFails(r)
       PROVE  WorkflowInv'
  <2>1. /\ calls[r].at = "confirming" /\ Fails(r, "reconciliation_required") /\ effects' = effects
    BY <1>13 DEF ConfirmFails, Asks, Ambiguous
  <2>2. effects[calls[r].command] = 1 /\ DOMAIN effects = WorkflowCommands
    BY <2>1 DEF WorkflowInv, WorkflowHolds
  <2> QED
    BY <2>1, <2>2, WorkflowFails
<1>14. ASSUME NEW r \in WorkflowCallers, Record(r)
       PROVE  WorkflowInv'
  <2> DEFINE c == calls[r].command
             rev == IF Op(r) \in TaskOperations THEN revision + 1 ELSE 0
             entry == [status |-> "completed", by |-> calls[r].actor,
                       revision |-> rev, value |-> calls[r].read]
  <2>1. /\ calls[r].at = "recording" /\ UNCHANGED <<effects, facts, succeeded>>
        /\ ledger' = [ledger EXCEPT ![c] = entry]
        /\ calls' = SettledFor(c, [u \in {v \in WorkflowCallers : ~Asks(v, "idle")} |->
             [at |-> "publishing", command |-> c, actor |-> calls[u].actor]])
    BY <1>14 DEF Record, Asks
  <2>2. /\ c \in WorkflowCommands /\ ledger[c].status = "running" /\ effects[c] = 1
        /\ ledger[c].by = calls[r].actor /\ DOMAIN ledger = WorkflowCommands
        /\ DOMAIN effects' = WorkflowCommands
    BY <2>1 DEF WorkflowInv, WorkflowHolds
  <2>3. /\ DOMAIN calls' = WorkflowCallers
        /\ \A q \in WorkflowCallers :
             calls'[q] = IF calls[q].at \in WorkflowRunning /\ calls[q].command = c
                         THEN [at |-> "publishing", command |-> c, actor |-> calls[q].actor]
                         ELSE calls[q]
    BY <2>1 DEF SettledFor, Asks
  <2>4. entry.status = "completed" /\ entry.by = calls[r].actor /\ "status" \in DOMAIN entry
    OBVIOUS
  <2> HIDE DEF entry, c
  <2>5. /\ DOMAIN ledger' = WorkflowCommands /\ ledger'[c] = entry
        /\ \A d \in WorkflowCommands : d # c => ledger'[d] = ledger[d]
    BY <2>1, <2>2
  <2>6. WorkflowOneOwner'
    BY <2>3 DEF WorkflowInv, WorkflowOneOwner
  <2>7. ASSUME NEW q \in WorkflowCallers
        PROVE  \/ WorkflowHolds(calls[q])'
               \/ /\ calls'[q] = calls[q]
                  /\ calls[q].at \notin {"idle", "ledger"} => calls[q].command # c
    <3>1. CASE calls[q].at \in WorkflowRunning /\ calls[q].command = c
      <4>1. calls[q].actor = calls[r].actor
        BY <2>2, <3>1 DEF WorkflowInv, WorkflowHolds
      <4> QED
        BY <2>2, <2>3, <2>4, <2>5, <3>1, <4>1 DEF WorkflowHolds
    <3>2. CASE ~(calls[q].at \in WorkflowRunning /\ calls[q].command = c)
      BY <2>2, <2>3, <3>2 DEF WorkflowInv, WorkflowHolds
    <3> QED
      BY <3>1, <3>2
  <2>8. /\ ledger[c].status # "completed" /\ effects'[c] \in {0, 1}
        /\ ledger'[c].status = "absent" => effects'[c] = 0
        /\ ledger'[c].status = "completed" => effects'[c] = 1
        /\ "status" \in DOMAIN ledger'[c]
        /\ \A d \in WorkflowCommands : d # c => ledger'[d] = ledger[d] /\ effects'[d] = effects[d]
    BY <2>1, <2>2, <2>4, <2>5
  <2> QED
    BY <2>1, <2>2, <2>3, <2>5, <2>6, <2>7, <2>8, WorkflowSettles
<1>15. ASSUME NEW r \in WorkflowCallers, calls[r].at = "publishing",
              Publishes(calls[r].command), UNCHANGED <<ledger, effects, succeeded>>
       PROVE  /\ facts \subseteq facts' /\ WorkflowKeysInv' /\ SuccessIsWhole'
              /\ OperationOf[calls[r].command] # "definition_deploy" =>
                   FactOf(calls[r].command) \in facts'
  <2> DEFINE c == calls[r].command
  <2>1. /\ c \in WorkflowCommands /\ ledger[c].status = "completed" /\ effects[c] = 1
    BY <1>15 DEF WorkflowInv, WorkflowHolds, WorkflowLedgerInv
  <2>2. \A d \in WorkflowCommands : FactOf(d)' = FactOf(d) /\ FactOf(d).key = d
    BY <1>15 DEF FactOf
  <2>3. /\ facts' = IF OperationOf[c] = "definition_deploy" THEN facts ELSE facts \cup {FactOf(c)}
    BY <1>15 DEF Publishes
  <2> HIDE DEF c
  <2>4. WorkflowKeysInv'
    BY <1>15, <2>1, <2>2, <2>3 DEF WorkflowInv, WorkflowKeysInv
  <2>5. SuccessIsWhole'
    <3>1. \A f \in facts' : ledger[f.key].status = "completed" /\ effects[f.key] = 1 /\ f = FactOf(f.key)
      BY <2>1, <2>2, <2>3 DEF WorkflowInv, SuccessIsWhole
    <3>2. \A f \in facts' : FactOf(f.key)' = FactOf(f.key)
      BY <2>2, <2>4 DEF WorkflowKeysInv
    <3>3. \A s \in succeeded : FactOf(s[1])' = FactOf(s[1])
      BY <2>2 DEF WorkflowInv, WorkflowKeysInv
    <3>4. facts \subseteq facts'
      BY <2>3
    <3>5. \A f \in facts' : ledger'[f.key].status = "completed" /\ effects'[f.key] = 1
                            /\ f = FactOf(f.key)'
      BY <1>15, <3>1, <3>2
    <3>6. ASSUME NEW s \in succeeded
          PROVE  /\ ledger[s[1]].status = "completed" /\ ledger[s[1]].by = s[2]
                 /\ effects[s[1]] = 1
                 /\ OperationOf[s[1]] # "definition_deploy" => FactOf(s[1])' \in facts'
      BY <3>3, <3>4 DEF WorkflowInv, SuccessIsWhole
    <3>7. ASSUME NEW s \in succeeded'
          PROVE  /\ ledger'[s[1]].status = "completed" /\ ledger'[s[1]].by = s[2]
                 /\ effects'[s[1]] = 1
                 /\ OperationOf[s[1]] # "definition_deploy" => FactOf(s[1])' \in facts'
      BY <1>15, <3>6
    <3> QED
      BY <3>5, <3>7 DEF SuccessIsWhole
  <2> QED
    BY <2>1, <2>2, <2>3, <2>4, <2>5 DEF c
<1>16. ASSUME NEW r \in WorkflowCallers, Publish(r)
       PROVE  WorkflowInv'
  <2> DEFINE next == [calls[r] EXCEPT !.at = "finishing"]
  <2>1. /\ calls' = [calls EXCEPT ![r] = next] /\ UNCHANGED <<ledger, effects, succeeded>>
        /\ calls[r].at = "publishing" /\ Publishes(calls[r].command)
    BY <1>16 DEF Publish, Asks
  <2>2. /\ "at" \in DOMAIN next /\ next.at = "finishing"
        /\ {"command", "actor"} \subseteq DOMAIN next
        /\ next.command = calls[r].command /\ next.actor = calls[r].actor
    BY <2>1, WorkflowGoesTo DEF WorkflowInv
  <2> HIDE DEF next
  <2>3. /\ facts \subseteq facts' /\ WorkflowKeysInv' /\ SuccessIsWhole'
        /\ OperationOf[calls[r].command] # "definition_deploy" =>
             FactOf(calls[r].command) \in facts'
    BY <1>15, <2>1
  <2>4. calls'[r] = next => WorkflowHolds(calls[r])'
    BY <2>1, <2>2, <2>3 DEF WorkflowInv, WorkflowHolds, FactOf
  <2> QED
    BY <2>1, <2>2, <2>3, <2>4, WorkflowMoves
<1>17. ASSUME NEW r \in WorkflowCallers, PublishFails(r)
       PROVE  WorkflowInv'
  <2>1. CASE Publishes(calls[r].command)
    BY <1>2, <1>15, <1>17, <2>1 DEF PublishFails, Asks
  <2>2. CASE UNCHANGED facts
    BY <1>1, <1>2, <1>17, <2>2 DEF PublishFails
  <2> QED
    BY <1>17, <2>1, <2>2 DEF PublishFails
<1>18. ASSUME NEW r \in WorkflowCallers, Finish(r)
       PROVE  WorkflowInv'
  <2> DEFINE c == calls[r].command  s == <<c, calls[r].actor>>
  <2>1. /\ calls[r].at = "finishing" /\ UNCHANGED <<ledger, effects, facts>> /\ Refused(r)
        /\ succeeded' = succeeded \cup {s} \/ succeeded' = succeeded
    BY <1>18 DEF Finish, Asks
  <2>2. /\ c \in WorkflowCommands /\ ledger[c].status = "completed" /\ effects[c] = 1
        /\ ledger[c].by = calls[r].actor
        /\ OperationOf[c] # "definition_deploy" => FactOf(c) \in facts
    BY <2>1 DEF WorkflowInv, WorkflowHolds, WorkflowLedgerInv
  <2>3. s[1] = c /\ s[2] = calls[r].actor
    OBVIOUS
  <2> HIDE DEF c, s
  <2>4. \A d \in WorkflowCommands : FactOf(d)' = FactOf(d)
    BY <2>1 DEF FactOf
  <2>5. WorkflowKeysInv' /\ SuccessIsWhole'
    BY <2>1, <2>2, <2>3, <2>4 DEF WorkflowInv, WorkflowKeysInv, SuccessIsWhole
  <2> QED
    BY <1>2, <2>1, <2>5
<1>19. CASE UNCHANGED workflowVars
  BY <1>19 DEF WorkflowInv, WorkflowLedgerInv, WorkflowKeysInv, SuccessIsWhole, FactOf,
               WorkflowOneOwner, WorkflowHolds, workflowVars
<1> QED
  BY <1>3, <1>4, <1>5, <1>6, <1>7, <1>8, <1>10, <1>11, <1>12, <1>13, <1>14, <1>16, <1>17,
     <1>18, <1>19 DEF WorkflowNext

\* WorkflowIsExact of Workflow, for any commands, callers and engine: an entry that
\* runs has one owner, who alone knows and decides what becomes of it.
THEOREM WorkflowStaysExact == WorkflowSpec => []WorkflowIsExact
<1>1. WorkflowInit => WorkflowInv
  BY DEF WorkflowInit, WorkflowInv, WorkflowLedgerInv, WorkflowKeysInv, SuccessIsWhole,
         WorkflowOneOwner, WorkflowHolds, WorkflowRunning, WorkflowOwning, WorkflowToldOf,
         Idle, Absent
<1>2. WorkflowInv => WorkflowIsExact
  BY DEF WorkflowInv, WorkflowLedgerInv, WorkflowIsExact, MutatedOnce
<1> QED
  BY <1>1, <1>2, WorkflowStep, PTL DEF WorkflowSpec

-----------------------------------------------------------------------------
(* Webhooks.                                                               *)

\* What was accepted was fresh when its time was read; its keys are reserved until
\* its expiry or this has passed, and so has that of the earlier of two acceptances
\* when the later one reserved them.
WebhookAccepted(a) ==
  /\ a.now \in Nat /\ a.reserved \in Nat
  /\ a.now <= a.reserved /\ a.reserved <= webhookTime
  /\ a.envelope \in Envelopes /\ Fresh(a.envelope, a.now)

WebhookReserved(a) ==
  \A k \in KeysOf(a.envelope) :
    /\ reservations[k] \in Nat /\ reservations[k] # 0
    /\ a.now + ReplayRetention <= reservations[k] \/ a.now + ReplayRetention < webhookTime

WebhookDelivered(call) ==
  /\ "at" \in DOMAIN call
  /\ call.at \in {"none", "verifying", "reserving"}
  /\ call.at # "none" =>
       /\ {"envelope", "now"} \subseteq DOMAIN call
       /\ call.envelope \in Envelopes /\ call.now \in Nat /\ call.now <= webhookTime
       /\ Fresh(call.envelope, call.now)

WebhookInv ==
  /\ webhookTime \in Nat
  /\ DOMAIN deliveries = Deliveries
  /\ \A d \in Deliveries : WebhookDelivered(deliveries[d])
  /\ reservations \in [UNION {KeysOf(e) : e \in Envelopes} -> Nat]
  /\ \A a \in acceptances : WebhookAccepted(a) /\ WebhookReserved(a)
  /\ \A a, b \in acceptances : a # b /\ a.envelope = b.envelope =>
       \/ a.now + ReplayRetention < b.reserved
       \/ b.now + ReplayRetention < a.reserved

\* A delivery goes to another place.
LEMMA WebhookGoes ==
  ASSUME WebhookInv, NEW d \in Deliveries, NEW next, WebhookDelivered(next),
         deliveries' = [deliveries EXCEPT ![d] = next],
         UNCHANGED <<webhookTime, reservations, acceptances>>
  PROVE  WebhookInv'
<1>1. /\ DOMAIN deliveries' = Deliveries
      /\ \A c \in Deliveries : deliveries'[c] = IF c = d THEN next ELSE deliveries[c]
  BY DEF WebhookInv
<1>2. \A c \in Deliveries : WebhookDelivered(deliveries[c])'
  BY <1>1 DEF WebhookInv, WebhookDelivered
<1> QED
  BY <1>1, <1>2 DEF WebhookInv, WebhookAccepted, WebhookReserved

LEMMA WebhookReserves ==
  ASSUME WebhookInv, NEW d \in Deliveries, Reserve(d)
  PROVE  WebhookInv'
<1> DEFINE call == deliveries[d]  e == call.envelope
           expiry == call.now + ReplayRetention
           new == [envelope |-> e, now |-> call.now, reserved |-> webhookTime]
<1>1. /\ webhookTime' = webhookTime /\ webhookTime \in Nat
      /\ e \in Envelopes /\ call.now \in Nat /\ call.now <= webhookTime /\ Fresh(e, call.now)
      /\ expiry \in Nat /\ expiry # 0
  BY WebhookAssumption DEF WebhookInv, WebhookDelivered, Reserve, WebhookAssumption
<1>2. \A k \in KeysOf(e) : reservations[k] = 0 \/ reservations[k] < webhookTime
  BY DEF Reserve, Free
<1>3. /\ reservations' \in [UNION {KeysOf(u) : u \in Envelopes} -> Nat]
      /\ \A k \in UNION {KeysOf(u) : u \in Envelopes} :
           reservations'[k] = IF k \in KeysOf(e) THEN expiry ELSE reservations[k]
  <2>1. reservations' = [k \in UNION {KeysOf(u) : u \in Envelopes} |->
           IF k \in KeysOf(e) THEN expiry ELSE reservations[k]]
    BY DEF Reserve, ReserveKeys, ExpiryOf, WebhookInv
  <2> HIDE DEF expiry, e
  <2> QED
    BY <1>1, <2>1 DEF WebhookInv
<1>4. acceptances' = acceptances \cup {new} \/ acceptances' = acceptances
  BY DEF Reserve
<1>5. /\ DOMAIN deliveries' = Deliveries
      /\ \A c \in Deliveries : WebhookDelivered(deliveries[c])'
  <2>1. deliveries' = [deliveries EXCEPT ![d] = NotDelivered]
    BY DEF Reserve
  <2>2. WebhookDelivered(NotDelivered)
    BY DEF WebhookDelivered, NotDelivered
  <2>3. /\ DOMAIN deliveries' = Deliveries
        /\ \A c \in Deliveries : deliveries'[c] = IF c = d THEN NotDelivered ELSE deliveries[c]
    BY <2>1 DEF WebhookInv
  <2> QED
    BY <1>1, <2>2, <2>3 DEF WebhookInv, WebhookDelivered
<1>6. \A a : a = new => WebhookAccepted(a)
  BY <1>1 DEF WebhookAccepted
<1>7. new.envelope = e /\ new.now + ReplayRetention = expiry /\ new.reserved = webhookTime
  OBVIOUS
<1> HIDE DEF new, call, e, expiry
<1>8. \A k \in KeysOf(e) : reservations'[k] = expiry
  BY <1>1, <1>3
<1>9. ASSUME NEW a, a = new
      PROVE  WebhookAccepted(a)' /\ WebhookReserved(a)'
  BY <1>1, <1>6, <1>7, <1>8, <1>9 DEF WebhookAccepted, WebhookReserved
<1>10. ASSUME NEW a \in acceptances
       PROVE  WebhookAccepted(a)' /\ WebhookReserved(a)'
  <2>1. WebhookAccepted(a) /\ WebhookReserved(a)
    BY DEF WebhookInv
  <2>2. ASSUME NEW k \in KeysOf(a.envelope)
        PROVE  /\ reservations'[k] \in Nat /\ reservations'[k] # 0
               /\ \/ a.now + ReplayRetention <= reservations'[k]
                  \/ a.now + ReplayRetention < webhookTime'
    <3>1. k \in UNION {KeysOf(u) : u \in Envelopes}
      BY <2>1 DEF WebhookAccepted
    <3>2. /\ reservations[k] \in Nat /\ reservations[k] # 0
          /\ a.now + ReplayRetention <= reservations[k] \/ a.now + ReplayRetention < webhookTime
          /\ a.now \in Nat /\ ReplayRetention \in Nat
      BY <2>1, WebhookAssumption DEF WebhookAccepted, WebhookReserved, WebhookAssumption
    <3>3. CASE k \in KeysOf(e)
      BY <1>1, <1>2, <1>8, <3>2, <3>3
    <3>4. CASE k \notin KeysOf(e)
      BY <1>1, <1>3, <3>1, <3>2, <3>4
    <3> QED
      BY <3>3, <3>4
  <2> QED
    BY <1>1, <2>1, <2>2 DEF WebhookAccepted, WebhookReserved
<1>11. ASSUME NEW a \in acceptances, a.envelope = e
       PROVE  a.now + ReplayRetention < webhookTime
  <2>1. WebhookReserved(a) /\ WebhookAccepted(a)
    BY DEF WebhookInv
  <2>2. <<"event", e.event>> \in KeysOf(e)
    BY DEF KeysOf
  <2>3. /\ reservations[<<"event", e.event>>] \in Nat
        /\ reservations[<<"event", e.event>>] # 0
        /\ \/ a.now + ReplayRetention <= reservations[<<"event", e.event>>]
           \/ a.now + ReplayRetention < webhookTime
    BY <1>11, <2>1, <2>2 DEF WebhookReserved
  <2>4. reservations[<<"event", e.event>>] = 0 \/ reservations[<<"event", e.event>>] < webhookTime
    BY <1>2, <2>2
  <2>5. a.now + ReplayRetention \in Nat
    BY <2>1, WebhookAssumption DEF WebhookAccepted, WebhookAssumption
  <2> QED
    BY <1>1, <2>3, <2>4, <2>5
<1>12. ASSUME NEW a \in acceptances', NEW b \in acceptances', a # b, a.envelope = b.envelope
       PROVE  \/ a.now + ReplayRetention < b.reserved
              \/ b.now + ReplayRetention < a.reserved
  <2>1. CASE a \in acceptances /\ b \in acceptances
    BY <1>12, <2>1 DEF WebhookInv
  <2>2. CASE a \in acceptances /\ b = new
    BY <1>7, <1>11, <1>12, <2>2
  <2>3. CASE a = new /\ b \in acceptances
    BY <1>7, <1>11, <1>12, <2>3
  <2> QED
    BY <1>4, <1>12, <2>1, <2>2, <2>3
<1>13. \A a \in acceptances' : WebhookAccepted(a)' /\ WebhookReserved(a)'
  <2>1. ASSUME NEW a \in acceptances'
        PROVE  WebhookAccepted(a)' /\ WebhookReserved(a)'
    <3>1. CASE a \in acceptances
      BY <1>10, <3>1
    <3>2. CASE a = new
      BY <1>9, <3>2
    <3> QED
      BY <1>4, <3>1, <3>2
  <2> QED
    BY <2>1
<1> QED
  BY <1>1, <1>3, <1>5, <1>12, <1>13 DEF WebhookInv

LEMMA WebhookStep == WebhookInv /\ [WebhookNext]_webhookVars => WebhookInv'
<1> SUFFICES ASSUME WebhookInv, [WebhookNext]_webhookVars
             PROVE  WebhookInv'
  OBVIOUS
<1>1. CASE WebhookTick
  <2>1. /\ webhookTime' = webhookTime + 1 /\ webhookTime \in Nat
        /\ UNCHANGED <<deliveries, reservations, acceptances>>
    BY <1>1 DEF WebhookTick, WebhookInv
  <2>2. \A d \in Deliveries : WebhookDelivered(deliveries[d])'
    BY <2>1 DEF WebhookInv, WebhookDelivered
  <2>3. ASSUME NEW a \in acceptances
        PROVE  WebhookAccepted(a)' /\ WebhookReserved(a)'
    <3>1. WebhookAccepted(a) /\ WebhookReserved(a) /\ a.now + ReplayRetention \in Nat
      BY WebhookAssumption DEF WebhookInv, WebhookAccepted, WebhookAssumption
    <3> QED
      BY <2>1, <3>1 DEF WebhookAccepted, WebhookReserved
  <2> QED
    BY <2>1, <2>2, <2>3 DEF WebhookInv
<1>2. ASSUME NEW d \in Deliveries, NEW e \in Envelopes, Deliver(d, e)
      PROVE  WebhookInv'
  <2> DEFINE next == [at |-> "verifying", envelope |-> e, now |-> webhookTime]
  <2>1. WebhookDelivered(next)
    BY <1>2 DEF WebhookDelivered, WebhookInv, Deliver
  <2> QED
    BY <1>2, <2>1, WebhookGoes DEF Deliver
<1>3. ASSUME NEW d \in Deliveries, Verified(d)
      PROVE  WebhookInv'
  <2> DEFINE next == [deliveries[d] EXCEPT !.at = "reserving"]
  <2>1. WebhookDelivered(deliveries[d]) /\ deliveries[d].at = "verifying"
    BY <1>3 DEF WebhookInv, Verified
  <2>2. WebhookDelivered(next)
    BY <2>1 DEF WebhookDelivered
  <2> QED
    BY <1>3, <2>2, WebhookGoes DEF Verified
<1>4. ASSUME NEW d \in Deliveries, Refuse(d) \/ NotReserved(d)
      PROVE  WebhookInv'
  <2>1. WebhookDelivered(NotDelivered)
    BY DEF WebhookDelivered, NotDelivered
  <2> QED
    BY <1>4, <2>1, WebhookGoes DEF Refuse, NotReserved
<1>5. CASE UNCHANGED webhookVars
  BY <1>5 DEF WebhookInv, WebhookDelivered, WebhookAccepted, WebhookReserved, webhookVars
<1> QED
  BY <1>1, <1>2, <1>3, <1>4, <1>5, WebhookReserves DEF WebhookNext

\* ReplayNeedsASlowVerifier of Webhook, for any envelopes, skew and retention: of two
\* acceptances of one envelope the later waited for the expiry of the earlier, and
\* both read their times within the skew of its signature.
THEOREM WebhooksAreOnce == WebhookSpec => []ReplayNeedsASlowVerifier
<1>1. WebhookInit => WebhookInv
  BY DEF WebhookInit, WebhookInv, WebhookDelivered, NotDelivered
<1>2. WebhookInv => ReplayNeedsASlowVerifier
  <2> SUFFICES ASSUME WebhookInv, NEW a \in acceptances, NEW b \in acceptances,
                      a # b, a.envelope = b.envelope, a.reserved <= b.reserved
               PROVE  b.reserved - b.now > ReplayRetention - 2 * AllowedClockSkew
    BY DEF ReplayNeedsASlowVerifier
  <2> DEFINE e == a.envelope
  <2>1. /\ a.now \in Nat /\ a.reserved \in Nat /\ b.now \in Nat /\ b.reserved \in Nat
        /\ e \in Envelopes /\ Fresh(e, a.now) /\ Fresh(e, b.now)
    BY DEF WebhookInv, WebhookAccepted
  <2>2. /\ e.signedAt \in Nat /\ ReplayRetention \in Nat /\ AllowedClockSkew \in Nat
    BY <2>1, WebhookAssumption DEF WebhookAssumption
  <2>3. b.now <= e.signedAt + AllowedClockSkew /\ e.signedAt <= a.now + AllowedClockSkew
    BY <2>1 DEF Fresh
  <2>4. \/ a.now + ReplayRetention < b.reserved
        \/ b.now + ReplayRetention < a.reserved
    BY DEF WebhookInv
  <2> HIDE DEF e
  <2> QED
    BY <2>1, <2>2, <2>3, <2>4
<1> QED
  BY <1>1, <1>2, WebhookStep, PTL DEF WebhookSpec

-----------------------------------------------------------------------------
(* The shells of the portal and of the mobile client.                      *)

ShellScreens == {"loading", "ready", "other", "unavailable"}

PortalStates ==
  [generation : Nat, pending : Nat, loads : Nat, shown : ShellScreens, of : Nat]

PortalCalls == [number : Nat, generation : Nat]

\* The pending call of the coordinator is of its generation and without an seen, and
\* entries are shown of that generation only.
PortalInv ==
  /\ portal \in PortalStates
  /\ portalCalls \subseteq PortalCalls
  /\ portal.pending # NoCall =>
       [number |-> portal.pending, generation |-> portal.generation] \in portalCalls
  /\ NothingStaleIsShown

\* The last change that a shell has not been told of is the network as it is; told of all of
\* them, it knows.  Before a shell is open there is nothing to know.
LineInv ==
  /\ line \in [online : Lines \cup {"unknown"}, told : BOOLEAN,
               asked : Lines \cup {"asking", "answered"}]
  /\ network \in Lines /\ lineNotices \in Seq(Lines)
  /\ lineNotices # <<>> => lineNotices[Len(lineNotices)] = network
  /\ LineSettles
  /\ opened = "none" => line.online = "unknown" /\ ~line.told /\ lineNotices = <<>>
                        /\ line.asked = "asking"

MobileInv ==
  /\ mobile \in [call : PortAnswers \cup {"none", "asked"}, loads : Nat, shown : ShellScreens]
  /\ (opened = "mobile" /\ mobile.shown = "loading") => mobile.call # "none"

\* The portal waits for a call of its generation.
PortalOwed ==
  (opened = "portal" /\ line.online = "up" /\ portal.shown = "loading") =>
    \E c \in portalCalls : c.generation = portal.generation

ShellInv == PortalInv /\ LineInv /\ MobileInv /\ PortalOwed

\* The fields of a coordinator that is invalidated, and of one whose load is shared.
LEMMA PortalChanges ==
  ASSUME NEW p \in PortalStates, NEW q
  PROVE  /\ q = Invalidated(p) =>
              /\ q \in PortalStates /\ q.pending = NoCall
              /\ q.loads = p.loads /\ q.generation = p.generation + 1
         /\ q = [p EXCEPT !.shown = "loading"] =>
              /\ q \in PortalStates /\ q.shown = "loading"
              /\ q.pending = p.pending /\ q.generation = p.generation
<1> USE DEF PortalStates, ShellScreens
<1>1. ASSUME q = Invalidated(p)
      PROVE  /\ q \in PortalStates /\ q.pending = NoCall
             /\ q.loads = p.loads /\ q.generation = p.generation + 1
  <2> DEFINE g == p.generation + 1
  <2>1. g \in Nat /\ q = [p EXCEPT !.generation = g, !.pending = 0]
    BY <1>1 DEF Invalidated, NoCall
  <2> HIDE DEF g
  <2>2. q \in PortalStates /\ q.pending = 0 /\ q.loads = p.loads /\ q.generation = g
    BY <2>1
  <2> QED BY <2>2 DEF g, NoCall
<1>2. ASSUME q = [p EXCEPT !.shown = "loading"]
      PROVE  /\ q \in PortalStates /\ q.shown = "loading"
             /\ q.pending = p.pending /\ q.generation = p.generation
  BY <1>2
<1> QED BY <1>1, <1>2

\* A load of a coordinator, as it is or invalidated before.
LEMMA LoadsOwe ==
  ASSUME PortalInv, NEW p, p = portal \/ p = Invalidated(portal), Loads(p)
  PROVE  PortalInv' /\ \E c \in portalCalls' : c.generation = portal'.generation
<1>1. /\ p \in PortalStates
      /\ p.pending # NoCall => [number |-> p.pending, generation |-> p.generation] \in portalCalls
  BY PortalChanges DEF PortalInv
<1>2. CASE p.pending # NoCall
  <2>1. /\ portal' = [p EXCEPT !.shown = "loading"] /\ portalCalls' = portalCalls
    BY <1>2 DEF Loads
  <2>2. /\ portal' \in PortalStates
        /\ portal'.shown = "loading" /\ portal'.pending = p.pending
        /\ portal'.generation = p.generation
    BY <1>1, <2>1, PortalChanges
  <2>3. [number |-> p.pending, generation |-> p.generation] \in portalCalls'
    BY <1>1, <1>2, <2>1
  <2>4. PortalInv'
    BY <2>1, <2>2, <2>3 DEF PortalInv, NothingStaleIsShown
  <2> QED BY <2>2, <2>3, <2>4
<1>3. CASE p.pending = NoCall
  <2> DEFINE c == [number |-> p.loads + 1, generation |-> p.generation]
  <2>1. /\ portal' = [p EXCEPT !.shown = "loading", !.loads = p.loads + 1, !.pending = p.loads + 1]
        /\ portalCalls' = portalCalls \cup {c}
    BY <1>3 DEF Loads
  <2>2. /\ portal' \in PortalStates
        /\ portal'.shown = "loading" /\ portal'.pending = p.loads + 1
        /\ portal'.generation = p.generation
    <3>1. p.loads + 1 \in Nat
      BY <1>1 DEF PortalStates
    <3> DEFINE n == p.loads + 1
    <3>2. n \in Nat /\ portal' = [p EXCEPT !.shown = "loading", !.loads = n, !.pending = n]
      BY <2>1, <3>1
    <3> HIDE DEF n
    <3>3. /\ portal' \in PortalStates /\ portal'.shown = "loading" /\ portal'.pending = n
          /\ portal'.generation = p.generation
      BY <1>1, <3>2 DEF PortalStates, ShellScreens
    <3> QED BY <3>3 DEF n
  <2>3. c \in PortalCalls /\ c \in portalCalls' /\ c.generation = portal'.generation
    BY <1>1, <2>1, <2>2 DEF PortalCalls, PortalStates
  <2>4. portalCalls' \subseteq PortalCalls
    BY <2>1, <2>3 DEF PortalInv
  <2>5. [number |-> portal'.pending, generation |-> portal'.generation] \in portalCalls'
    BY <2>2, <2>3
  <2> HIDE DEF c
  <2>6. PortalInv'
    BY <2>2, <2>4, <2>5 DEF PortalInv, NothingStaleIsShown
  <2> QED BY <2>3, <2>6
<1> QED BY <1>2, <1>3

\* What the portal does about what it learns.
LEMMA PortalLearns ==
  ASSUME PortalInv, NEW now, PortalLine(now)
  PROVE  /\ PortalInv'
         /\ now = line.online => UNCHANGED portalVars
         /\ now # line.online /\ now = "up" =>
              \E c \in portalCalls' : c.generation = portal'.generation
<1>1. CASE now = line.online
  BY <1>1 DEF PortalLine, portalVars, PortalInv, NothingStaleIsShown
<1>2. CASE now # line.online /\ now = "up"
  BY <1>2, LoadsOwe DEF PortalLine
<1>3. CASE now # line.online /\ now # "up"
  <2>1. portal' = [Invalidated(portal) EXCEPT !.shown = "loading"] /\ portalCalls' = portalCalls
    BY <1>3 DEF PortalLine
  <2>2. /\ portal' \in PortalStates
        /\ portal'.pending = NoCall /\ portal'.shown = "loading"
    <3>1. Invalidated(portal) \in PortalStates /\ Invalidated(portal).pending = NoCall
      BY PortalChanges DEF PortalInv
    <3> QED BY <2>1, <3>1, PortalChanges
  <2> QED BY <1>3, <2>1, <2>2 DEF PortalInv, NothingStaleIsShown
<1> QED BY <1>1, <1>2, <1>3

\* What an open shell does about what it learns.
LEMMA ShellLearns ==
  ASSUME ShellInv, NEW now, Learns(now), UNCHANGED opened, line'.online = now
  PROVE  PortalInv' /\ MobileInv' /\ PortalOwed'
<1>1. MobileInv'
  BY DEF ShellInv, MobileInv, Learns, mobileVars
<1>2. CASE opened = "portal"
  <2>1. PortalLine(now)
    BY <1>2 DEF Learns
  <2>2. PortalInv'
    BY <2>1, PortalLearns DEF ShellInv
  <2>3. PortalOwed'
    <3>1. CASE now = line.online
      <4>1. UNCHANGED portalVars
        BY <2>1, <3>1, PortalLearns DEF ShellInv
      <4> QED BY <3>1, <4>1 DEF ShellInv, PortalOwed, portalVars
    <3>2. CASE now # line.online /\ now = "up"
      BY <2>1, <3>2, PortalLearns DEF ShellInv, PortalOwed
    <3>3. CASE now # "up"
      BY <3>3 DEF PortalOwed
    <3> QED BY <3>1, <3>2, <3>3
  <2> QED BY <1>1, <2>2, <2>3
<1>3. CASE opened # "portal"
  <2>1. UNCHANGED portalVars
    BY <1>3 DEF Learns
  <2>2. PortalInv'
    BY <2>1 DEF ShellInv, PortalInv, NothingStaleIsShown, portalVars
  <2> QED BY <1>1, <1>3, <2>2 DEF PortalOwed
<1> QED BY <1>2, <1>3

\* An seen, whenever it comes.
LEMMA AnswerIsOfItsTime ==
  ASSUME ShellInv, NEW c, NEW seen \in PortAnswers \cup {"unavailable"}, PortalAnswer(c, seen)
  PROVE  ShellInv'
<1>1. /\ portalCalls' = portalCalls \ {c} /\ c \in PortalCalls
      /\ portal' = [portal EXCEPT !.shown = ShownOf(c, seen), !.of = c.generation,
                      !.pending = IF c.generation = portal.generation THEN NoCall ELSE portal.pending]
  BY DEF PortalAnswer, ShellInv, PortalInv
<1>2. ShownOf(c, seen) \in ShellScreens \ {"loading"} /\ c.generation \in Nat
  BY <1>1 DEF ShownOf, ShellScreens, PortAnswers, PortalCalls
<1>3. /\ portal' \in PortalStates
      /\ portal'.generation = portal.generation /\ portal'.shown = ShownOf(c, seen)
      /\ portal'.of = c.generation
      /\ portal'.pending = IF c.generation = portal.generation THEN NoCall ELSE portal.pending
  BY <1>1, <1>2 DEF ShellInv, PortalInv, PortalStates, NoCall
<1>4. portal'.pending # NoCall =>
        [number |-> portal'.pending, generation |-> portal'.generation] \in portalCalls'
  <2> SUFFICES ASSUME portal'.pending # NoCall
               PROVE  [number |-> portal'.pending, generation |-> portal'.generation] \in portalCalls'
    OBVIOUS
  <2>1. c.generation # portal.generation /\ portal'.pending = portal.pending
    BY <1>3
  <2>2. [number |-> portal.pending, generation |-> portal.generation] \in portalCalls
    BY <2>1 DEF ShellInv, PortalInv
  <2>3. [number |-> portal.pending, generation |-> portal.generation].generation # c.generation
    BY <2>1
  <2> QED BY <1>1, <1>3, <2>1, <2>2, <2>3
<1>5. portal'.shown = "ready" => portal'.of = portal'.generation
  BY <1>3 DEF ShownOf
<1>6. PortalInv'
  BY <1>1, <1>3, <1>4, <1>5 DEF ShellInv, PortalInv, NothingStaleIsShown
<1>7. UNCHANGED <<lineVars, mobileVars>>
  BY DEF PortalAnswer
<1> QED BY <1>2, <1>3, <1>6, <1>7
        DEF ShellInv, LineInv, LineSettles, MobileInv, PortalOwed, lineVars, mobileVars

\* Nothing known of the network changes.
LEMMA LineStays == LineInv /\ UNCHANGED lineVars => LineInv'
BY DEF LineInv, LineSettles, lineVars

\* The portal goes on as it is.
LEMMA PortalRests ==
  ASSUME ShellInv, UNCHANGED <<portalVars, opened, line>>
  PROVE  PortalInv' /\ PortalOwed'
BY DEF ShellInv, PortalInv, PortalOwed, NothingStaleIsShown, portalVars

LEMMA NextShell == ShellInv /\ [ShellNext]_shellVars => ShellInv'
<1> SUFFICES ASSUME ShellInv, [ShellNext]_shellVars PROVE ShellInv'
  OBVIOUS
<1> USE DEF ShellInv
<1>1. CASE UNCHANGED shellVars
  BY <1>1, LineStays, PortalRests DEF shellVars, lineVars, mobileVars, MobileInv
<1>2. ASSUME NEW s \in ShellNames, OpenShell(s) PROVE ShellInv'
  <2>1. /\ line.online = "unknown" /\ ~line.told /\ lineNotices = <<>>
        /\ opened' # "none" /\ network' \in Lines /\ UNCHANGED <<line, lineNotices, portalVars>>
    BY <1>2 DEF OpenShell, LineInv, ShellNames
  <2>2. LineInv'
    BY <2>1 DEF LineInv, LineSettles
  <2>3. PortalInv' /\ PortalOwed'
    BY <2>1 DEF PortalInv, PortalOwed, NothingStaleIsShown, portalVars
  <2>4. MobileInv'
    <3>1. CASE s = "mobile"
      BY <1>2, <3>1 DEF OpenShell, MobileInv
    <3>2. CASE s # "mobile"
      BY <1>2, <3>2 DEF OpenShell, MobileInv
    <3> QED BY <3>1, <3>2
  <2> QED BY <2>2, <2>3, <2>4
<1>3. CASE NetworkChanges
  <2>1. /\ network' \in Lines /\ lineNotices' = Append(lineNotices, network')
        /\ opened # "none" /\ UNCHANGED <<opened, line, portalVars, mobileVars>>
    BY <1>3 DEF NetworkChanges, Lines
  <2>2. /\ lineNotices' \in Seq(Lines) /\ lineNotices' # <<>>
        /\ lineNotices'[Len(lineNotices')] = network'
    BY <2>1 DEF LineInv
  <2>3. LineInv'
    BY <2>1, <2>2 DEF LineInv, LineSettles
  <2> QED BY <2>1, <2>3, PortalRests DEF MobileInv, mobileVars
<1>4. CASE LineIsRead
  <2>1. /\ line' = [line EXCEPT !.asked = network] /\ opened # "none"
        /\ UNCHANGED <<opened, network, lineNotices, portalVars, mobileVars>>
    BY <1>4 DEF LineIsRead
  <2>2. /\ line'.online = line.online /\ line'.told = line.told
        /\ line' \in [online : Lines \cup {"unknown"}, told : BOOLEAN,
                      asked : Lines \cup {"asking", "answered"}]
    BY <2>1 DEF LineInv
  <2>3. LineInv'
    BY <2>1, <2>2 DEF LineInv, LineSettles
  <2>4. PortalInv' /\ PortalOwed'
    BY <2>1, <2>2 DEF PortalInv, PortalOwed, NothingStaleIsShown, portalVars
  <2> QED BY <2>1, <2>3, <2>4 DEF MobileInv, mobileVars
<1>5. ASSUME NEW now \in Lines, opened # "none",
             line' = [line EXCEPT !.asked = "answered", !.online = Taken(now)],
             Learns(Taken(now)), UNCHANGED <<opened, network, lineNotices>>
      PROVE  ShellInv'
  <2>1. Taken(now) \in Lines \cup {"unknown"}
    BY DEF Taken, LineInv
  <2>2. /\ line'.online = Taken(now) /\ line'.told = line.told
        /\ line' \in [online : Lines \cup {"unknown"}, told : BOOLEAN,
                      asked : Lines \cup {"asking", "answered"}]
    BY <1>5, <2>1 DEF LineInv
  <2>3. line.told => line'.online = line.online
    BY <2>2 DEF Taken
  <2>4. LineInv'
    BY <1>5, <2>2, <2>3 DEF LineInv, LineSettles
  <2>5. PortalInv' /\ MobileInv' /\ PortalOwed'
    BY <1>5, <2>2, ShellLearns
  <2> QED BY <2>4, <2>5
<1>6. CASE LineAnswers
  <2>1. line.asked \in Lines /\ opened # "none"
    BY <1>6 DEF LineAnswers, LineInv, Lines
  <2> QED BY <1>5, <1>6, <2>1 DEF LineAnswers
<1>7. CASE LineFails
  <2>1. "down" \in Lines
    BY DEF Lines
  <2> QED BY <1>5, <1>7, <2>1 DEF LineFails
<1>8. CASE LineIsTold
  <2> DEFINE now == Head(lineNotices)
  <2>1. /\ lineNotices # <<>> /\ opened # "none"
        /\ line' = [line EXCEPT !.told = TRUE, !.online = now]
        /\ lineNotices' = Tail(lineNotices) /\ Learns(now) /\ UNCHANGED <<opened, network>>
    BY <1>8 DEF LineIsTold, LineInv
  <2>2. now \in Lines /\ lineNotices' \in Seq(Lines)
    BY <2>1 DEF LineInv
  <2>3. IF Len(lineNotices) = 1 THEN lineNotices' = <<>> /\ now = network
        ELSE lineNotices' # <<>> /\ lineNotices'[Len(lineNotices')] = network
    <3>1. /\ Len(lineNotices) \in Nat \ {0} /\ lineNotices[Len(lineNotices)] = network
          /\ now = lineNotices[1] /\ Len(lineNotices') = Len(lineNotices) - 1
          /\ \A i \in 1 .. Len(lineNotices') : lineNotices'[i] = lineNotices[i + 1]
      BY <2>1 DEF LineInv
    <3> HIDE DEF now
    <3>2. CASE Len(lineNotices) = 1
      BY <2>2, <3>1, <3>2
    <3>3. CASE Len(lineNotices) # 1
      <4>1. Len(lineNotices') \in 1 .. Len(lineNotices') /\ lineNotices' # <<>>
        BY <2>2, <3>1, <3>3
      <4> QED BY <3>1, <3>3, <4>1
    <3> QED BY <3>2, <3>3
  <2> HIDE DEF now
  <2>4. /\ line'.online = now
        /\ line' \in [online : Lines \cup {"unknown"}, told : BOOLEAN,
                      asked : Lines \cup {"asking", "answered"}]
    BY <2>1, <2>2 DEF LineInv
  <2>5. LineInv'
    BY <2>1, <2>2, <2>3, <2>4 DEF LineInv, LineSettles
  <2>6. PortalInv' /\ MobileInv' /\ PortalOwed'
    BY <2>1, <2>4, ShellLearns
  <2> QED BY <2>5, <2>6
<1>9. CASE PortalRetry
  <2>1. Loads(portal) /\ UNCHANGED <<lineVars, mobileVars>>
    BY <1>9 DEF PortalRetry
  <2>2. PortalInv' /\ \E c \in portalCalls' : c.generation = portal'.generation
    BY <2>1, LoadsOwe
  <2> QED BY <2>1, <2>2, LineStays DEF PortalOwed, MobileInv, lineVars, mobileVars
<1>10. ASSUME NEW c \in portalCalls, NEW seen \in PortAnswers \cup {"unavailable"},
              PortalAnswer(c, seen)
       PROVE  ShellInv'
  BY <1>10, AnswerIsOfItsTime
<1>11. CASE \/ MobileServed \/ MobileAnswer \/ MobileFails \/ MobileRetry
            \/ \E n \in LogoutSlots : PressLogout(n) \/ LogoutServed(n) \/ LogoutAnswer(n)
  <2>1. UNCHANGED <<lineVars, portalVars>>
    BY <1>11 DEF MobileServed, MobileAnswer, MobileFails, MobileRetry, PressLogout, LogoutServed,
                 LogoutAnswer, MobileStep
  <2>2. MobileInv'
    <3> USE DEF MobileInv, MobileStep, ShellScreens, PortAnswers, lineVars
    <3>1. CASE MobileServed
      BY <3>1 DEF MobileServed
    <3>2. CASE MobileAnswer
      BY <3>2 DEF MobileAnswer
    <3>3. CASE MobileFails
      BY <3>3 DEF MobileFails
    <3>4. CASE MobileRetry
      <4> DEFINE n == mobile.loads + 1
      <4>1. n \in Nat /\ mobile' = [mobile EXCEPT !.call = "asked", !.loads = n, !.shown = "loading"]
        BY <3>4 DEF MobileRetry
      <4> HIDE DEF n
      <4> QED BY <2>1, <4>1
    <3>5. CASE \E n \in LogoutSlots : PressLogout(n) \/ LogoutServed(n)
      BY <3>5, <2>1 DEF PressLogout, LogoutServed
    <3>6. CASE \E n \in LogoutSlots : LogoutAnswer(n)
      BY <3>6, <2>1 DEF LogoutAnswer
    <3> QED BY <1>11, <3>1, <3>2, <3>3, <3>4, <3>5, <3>6
  <2> QED BY <2>1, <2>2, LineStays, PortalRests DEF lineVars
<1> QED BY <1>1, <1>2, <1>3, <1>4, <1>6, <1>7, <1>8, <1>9, <1>10, <1>11 DEF ShellNext

\* A shell told of every change shows the network as it is, the portal never shows what was
\* asked before the connection was last lost, and nobody waits for nothing
\* (portal-shell.tsx, load-coordinator.ts, mobile-shell.tsx), for any number of changes,
\* calls and log-outs.
THEOREM ShellsStayHonest == ShellSpec => []ShellsAreHonest
<1>1. ShellInit => ShellInv
  <2> SUFFICES ASSUME ShellInit PROVE ShellInv
    OBVIOUS
  <2> USE DEF ShellInit, ShellInv
  <2>1. LineInv
    BY DEF LineInv, LineSettles, Lines
  <2>2. PortalInv
    BY DEF PortalInv, PortalStates, ShellScreens, NothingStaleIsShown, NoCall
  <2>3. MobileInv /\ PortalOwed
    BY DEF MobileInv, PortalOwed, ShellScreens
  <2> QED BY <2>1, <2>2, <2>3
<1>2. ShellInv => ShellsAreHonest
  <2> SUFFICES ASSUME ShellInv PROVE ShellsAreHonest
    OBVIOUS
  <2>1. ShellsTyped
    BY DEF ShellInv, LineInv, PortalInv, ShellsTyped
  <2>2. LoadingIsOwed
    BY DEF ShellInv, MobileInv, PortalOwed, LoadingIsOwed
  <2> QED BY <2>1, <2>2 DEF ShellsAreHonest, ShellInv, LineInv, PortalInv
<1> QED BY <1>1, <1>2, NextShell, PTL DEF ShellSpec

-----------------------------------------------------------------------------
(* Transactions.                                                           *)

UnitPlaces == {"idle", "beginning", "working", "committing", "unwinding", "rolling",
               "single", "ending", "done"}

TransactionType ==
  /\ unit \in [Units -> UnitPlaces]
  /\ flags \in [Units -> SUBSET {"destroyed", "failure"}]
  /\ cancelling \subseteq Units
  /\ holds \in [Units -> SUBSET Connections]
  /\ pool \subseteq Connections
  /\ server \in [Connections -> {"idle", "open", "failed", "broken"}]
  /\ committed \subseteq Units
  /\ answer \in [Units -> {"none", "success", "error"}]
  /\ early \subseteq Units

\* What a unit's caller is told, of what the unit stored: a failed backend leaves its
\* mark on the unit, and marked units commit nothing.
Outcomes ==
  \A u \in Units :
    /\ answer[u] = "success" => /\ u \in committed /\ "failure" \notin flags[u]
                                /\ unit[u] \in {"ending", "done"}
    /\ u \in committed => unit[u] \in {"unwinding", "rolling", "ending", "done"}
    /\ u \in early => /\ Destroyed(u) /\ u \notin committed
                      /\ unit[u] \notin {"idle", "committing", "single"}
    /\ "failure" \in flags[u] => unit[u] \notin {"idle", "beginning", "committing", "single"}
    /\ \A c \in holds[u] : server[c] = "failed" => "failure" \in flags[u]

\* Where the slots are: free and idle, or with one unit, until it has ended or its
\* cancellation has given them back.
Slots ==
  /\ \A c \in pool : server[c] = "idle"
  /\ \A c \in Connections : c \in pool \/ \E u \in Units : c \in holds[u]
  /\ \A u, v \in Units : u # v => holds[u] \cap holds[v] = {}
  /\ \A u \in Units :
       /\ holds[u] \cap pool = {}
       /\ u \in cancelling => Destroyed(u) /\ holds[u] # {}
       /\ unit[u] \in {"idle", "done"} => holds[u] = {}
       /\ Destroyed(u) /\ u \notin cancelling => holds[u] = {}
       /\ Destroyed(u) => unit[u] # "idle"
       /\ unit[u] \notin {"idle", "done"} /\ ~Destroyed(u) => holds[u] # {}
       /\ unit[u] \in {"beginning", "single"} \/ (unit[u] = "ending" /\ ~Destroyed(u))
            => \A c \in holds[u] : server[c] \in {"idle", "broken"}

TransactionInv == TransactionType /\ Outcomes /\ Slots

USE DEF UnitAt, Destroyed, Go, Answers, UnitPlaces

\* Every step of a unit, and every connection that breaks, keeps the pool's books.
LEMMA NextTransaction ==
  TransactionInv /\ [TransactionNext]_transactionVars => TransactionInv'
<1> SUFFICES ASSUME TransactionInv, [TransactionNext]_transactionVars
             PROVE  TransactionInv'
  OBVIOUS
<1> USE DEF TransactionInv, TransactionType
<1>1. ASSUME NEW c \in Connections, ConnectionBreaks(c) PROVE TransactionInv'
  <2>1. TransactionType'
    BY <1>1 DEF ConnectionBreaks
  <2>2. Outcomes'
    BY <1>1, <2>1 DEF ConnectionBreaks, Outcomes, Slots
  <2>3. Slots'
    BY <1>1, <2>1 DEF ConnectionBreaks, Slots
  <2> QED
    BY <2>1, <2>2, <2>3
<1>2. ASSUME NEW u \in Units, Declined(u) PROVE TransactionInv'
  <2>1. TransactionType'
    BY <1>2 DEF Declined
  <2>2. Outcomes'
    BY <1>2, <2>1 DEF Declined, Outcomes, Slots
  <2>3. Slots'
    BY <1>2, <2>1 DEF Declined, Slots
  <2> QED
    BY <2>1, <2>2, <2>3
<1>3. ASSUME NEW u \in Units, NEW kind \in {"beginning", "single"},
            AcquireConnection(u, kind)
     PROVE  TransactionInv'
  <2>1. TransactionType'
    BY <1>3 DEF AcquireConnection
  <2>2. Outcomes'
    BY <1>3, <2>1 DEF AcquireConnection, Outcomes, Slots
  <2>3. Slots'
    BY <1>3, <2>1 DEF AcquireConnection, Slots
  <2> QED
    BY <2>1, <2>2, <2>3
<1>4. ASSUME NEW u \in Units, Begin(u) PROVE TransactionInv'
  <2>1. TransactionType'
    BY <1>4 DEF Begin, BackendIs, Backend
  <2>2. Outcomes'
    BY <1>4, <2>1 DEF Begin, BackendIs, Backend, Outcomes, Slots
  <2>3. Slots'
    BY <1>4, <2>1 DEF Begin, BackendIs, Backend, Slots
  <2> QED
    BY <2>1, <2>2, <2>3
<1>5. ASSUME NEW u \in Units, StatementFails(u) PROVE TransactionInv'
  <2>1. TransactionType'
    BY <1>5 DEF StatementFails
  <2>2. Outcomes'
    BY <1>5, <2>1 DEF StatementFails, Outcomes, Slots
  <2>3. Slots'
    BY <1>5, <2>1 DEF StatementFails, Slots
  <2> QED
    BY <2>1, <2>2, <2>3
<1>6. ASSUME NEW u \in Units, Abort(u) PROVE TransactionInv'
  <2>1. TransactionType'
    BY <1>6 DEF Abort
  <2>2. Outcomes'
    BY <1>6, <2>1 DEF Abort, Outcomes, Slots
  <2>3. Slots'
    BY <1>6, <2>1 DEF Abort, Slots
  <2> QED
    BY <2>1, <2>2, <2>3
<1>7. ASSUME NEW u \in Units, Cancelled(u) PROVE TransactionInv'
  <2>1. TransactionType'
    BY <1>7 DEF Cancelled, Terminated, Backend
  <2>2. Outcomes'
    BY <1>7, <2>1 DEF Cancelled, Terminated, Backend, Outcomes, Slots
  <2>3. Slots'
    BY <1>7, <2>1 DEF Cancelled, Terminated, Backend, Slots
  <2> QED
    BY <2>1, <2>2, <2>3
<1>8. ASSUME NEW u \in Units, WorkThrows(u) PROVE TransactionInv'
  <2>1. TransactionType'
    BY <1>8 DEF WorkThrows
  <2>2. Outcomes'
    BY <1>8, <2>1 DEF WorkThrows, Outcomes, Slots
  <2>3. Slots'
    BY <1>8, <2>1 DEF WorkThrows, Slots
  <2> QED
    BY <2>1, <2>2, <2>3
<1>9. ASSUME NEW u \in Units, WorkReturns(u) PROVE TransactionInv'
  <2>1. TransactionType'
    BY <1>9 DEF WorkReturns
  <2>2. Outcomes'
    BY <1>9, <2>1 DEF WorkReturns, Outcomes, Slots
  <2>3. Slots'
    BY <1>9, <2>1 DEF WorkReturns, Slots
  <2> QED
    BY <2>1, <2>2, <2>3
<1>10. ASSUME NEW u \in Units, Commit(u) PROVE TransactionInv'
  <2>1. TransactionType'
    BY <1>10 DEF Commit, BackendIs, Backend, Stored
  <2>2. Outcomes'
    BY <1>10, <2>1 DEF Commit, BackendIs, Backend, Stored, Outcomes, Slots
  <2>3. Slots'
    BY <1>10, <2>1 DEF Commit, BackendIs, Backend, Stored, Slots
  <2> QED
    BY <2>1, <2>2, <2>3
<1>11. ASSUME NEW u \in Units, CommitFails(u) PROVE TransactionInv'
  <2>1. TransactionType'
    BY <1>11 DEF CommitFails, BackendIs, Backend, Stored
  <2>2. Outcomes'
    BY <1>11, <2>1 DEF CommitFails, BackendIs, Backend, Stored, Outcomes, Slots
  <2>3. Slots'
    BY <1>11, <2>1 DEF CommitFails, BackendIs, Backend, Stored, Slots
  <2> QED
    BY <2>1, <2>2, <2>3
<1>12. ASSUME NEW u \in Units, Unwind(u) PROVE TransactionInv'
  <2>1. TransactionType'
    BY <1>12 DEF Unwind
  <2>2. Outcomes'
    BY <1>12, <2>1 DEF Unwind, Outcomes, Slots
  <2>3. Slots'
    BY <1>12, <2>1 DEF Unwind, Slots
  <2> QED
    BY <2>1, <2>2, <2>3
<1>13. ASSUME NEW u \in Units, RollBackUnit(u) PROVE TransactionInv'
  <2>1. TransactionType'
    BY <1>13 DEF RollBackUnit, BackendIs, Backend
  <2>2. Outcomes'
    BY <1>13, <2>1 DEF RollBackUnit, BackendIs, Backend, Outcomes, Slots
  <2>3. Slots'
    BY <1>13, <2>1 DEF RollBackUnit, BackendIs, Backend, Slots
  <2> QED
    BY <2>1, <2>2, <2>3
<1>14. ASSUME NEW u \in Units, SingleStatement(u) PROVE TransactionInv'
  <2>1. TransactionType'
    BY <1>14 DEF SingleStatement, BackendIs, Stored
  <2>2. Outcomes'
    BY <1>14, <2>1 DEF SingleStatement, BackendIs, Stored, Outcomes, Slots
  <2>3. Slots'
    BY <1>14, <2>1 DEF SingleStatement, BackendIs, Stored, Slots
  <2> QED
    BY <2>1, <2>2, <2>3
<1>15. ASSUME NEW u \in Units, EndUnit(u) PROVE TransactionInv'
  <2>1. TransactionType'
    BY <1>15 DEF EndUnit
  <2>2. Outcomes'
    BY <1>15, <2>1 DEF EndUnit, Outcomes, Slots
  <2>3. Slots'
    BY <1>15, <2>1 DEF EndUnit, Slots
  <2> QED
    BY <2>1, <2>2, <2>3
<1>16. CASE UNCHANGED transactionVars
  BY <1>16 DEF transactionVars, Outcomes, Slots
<1> QED
  BY <1>1, <1>2, <1>3, <1>4, <1>5, <1>6, <1>7, <1>8, <1>9, <1>10, <1>11, <1>12, <1>13, <1>14, <1>15, <1>16 DEF TransactionNext

LEMMA TransactionInvHolds == TransactionSpec => []TransactionInv
<1>1. TransactionInit => TransactionInv
  BY DEF TransactionInit, TransactionInv, TransactionType, Outcomes, Slots
<1> QED
  BY <1>1, NextTransaction, PTL DEF TransactionSpec

\* Who is told success has its writes, all of them, and what was aborted in time is
\* never durable; the pool is clean, and whole once all is over: for any number of
\* units and connections (runtime.ts:80-221).
THEOREM TransactionsStayHonest == TransactionSpec => []TransactionsAreHonest
<1>1. TransactionInv => ToldMeansStored
  BY DEF TransactionInv, Outcomes, ToldMeansStored, TransactionType
<1>2. TransactionInv => PoolIsClean
  <2> SUFFICES ASSUME TransactionInv PROVE PoolIsClean
    OBVIOUS
  <2>1. ASSUME \A u \in Units : unit[u] \in {"idle", "done"} PROVE pool = Connections
    <3>1. \A c \in Connections : c \in pool
      BY <2>1 DEF TransactionInv, Slots
    <3>2. \A c \in pool : c \in Connections
      BY DEF TransactionInv, TransactionType
    <3> QED
      BY <3>1, <3>2, Zenon
  <2>2. \A u \in cancelling : holds[u] # {}
    BY DEF TransactionInv, TransactionType, Slots
  <2>3. \A u, v \in Units : u # v => holds[u] \cap holds[v] = {}
    BY DEF TransactionInv, Slots
  <2> QED
    BY <2>1, <2>2, <2>3 DEF TransactionInv, Slots, PoolIsClean
<1> QED
  BY <1>1, <1>2, TransactionInvHolds, PTL DEF TransactionsAreHonest

-----------------------------------------------------------------------------
(* Migrations.                                                             *)

\* The contents on record, as a runner reads them.
RecordHeld == [v \in DOMAIN applied |-> applied[v].content]

\* A row of applied_migrations.
IsRow(row) == row = [content |-> row.content, evidence |-> row.evidence]

\* What a runner's record holds at each place.
RunnerShape(k) ==
  LET run == migrators[k] IN
    /\ run.at \in {"idle", "locking", "reading", "migrating", "recording", "committing",
                  "current", "compatible", "incompatible"}
    /\ run.at # "idle" => run.release \in DOMAIN Catalogs
    /\ run.at \in {"locking", "reading"} => run = [at |-> run.at, release |-> run.release]
    /\ run.at = "migrating" =>
         run = [at |-> run.at, release |-> run.release, known |-> run.known]
    /\ run.at \in {"recording", "committing"} =>
         run = [at |-> run.at, release |-> run.release, known |-> run.known,
                version |-> run.version, registry |-> run.registry]

\* Only the holder of the lock is between its reading and its commit; what it knows is
\* on record, its version is the next one and is not, and the registry it commits is
\* the present one with that version.
RunnerHolds(k) ==
  LET run == migrators[k] IN
    /\ run.at \in {"reading", "migrating", "recording", "committing"} => migrationLock = k
    /\ run.at \in {"migrating", "recording", "committing"} => run.known = RecordHeld
    /\ run.at \in {"recording", "committing"} =>
         /\ IsNext(k, run.version) /\ run.version \notin DOMAIN applied
         /\ run.version \in MigrationVersions
         /\ run.at = "recording" => run.registry = Backfilled(run.version)
    /\ run.at = "committing" =>
         /\ DOMAIN run.registry = DOMAIN applied \cup {run.version}
         /\ run.registry[run.version].content = CatalogOf(k)[run.version]
         /\ \A v \in DOMAIN run.registry : IsRow(run.registry[v])
         /\ \A v \in DOMAIN applied :
              /\ run.registry[v].content = applied[v].content
              /\ run.version # EvidenceVersion => run.registry[v] = applied[v]
    /\ run.at = "compatible" => EvidenceVersion \in DOMAIN applied

MigrationType ==
  /\ DOMAIN migrators = Runners
  /\ DOMAIN executed = MigrationVersions
  /\ DOMAIN applied \subseteq MigrationVersions
  /\ \A v \in DOMAIN applied : IsRow(applied[v])

RunnersAreSound == \A k \in Runners : RunnerShape(k) /\ RunnerHolds(k)

MigrationInv == MigrationType /\ RunnersAreSound /\ MigrationsAreExact

USE DEF MigratorAt, MigratorGoes, CatalogOf

\* A step of one runner that leaves the registry alone and ends with that runner sound
\* takes the lock from no other.
LEMMA RunnerStep ==
  ASSUME MigrationInv, NEW k \in Runners, NEW after,
         migrators' = [migrators EXCEPT ![k] = after],
         UNCHANGED <<executed, applied>>,
         migrationLock' \in {migrationLock, k} \/ migrationLock = k,
         migrationLock' = k => migrationLock \in {Nobody, k},
         RunnerShape(k)', RunnerHolds(k)',
         after.at \in {"current", "compatible"} =>
           \A v \in DOMAIN Catalogs[after.release] :
             /\ v \in DOMAIN applied /\ applied[v].content = Catalogs[after.release][v]
             /\ after.at = "compatible" =>
                  after.application \in SupportedBy[Catalogs[after.release][v]] \cap applied[v].evidence
  PROVE  MigrationInv'
<1> USE DEF MigrationInv, MigrationType
<1>1. MigrationType' /\ migrators'[k] = after
  OBVIOUS
<1>2. ASSUME NEW j \in Runners, j # k PROVE migrators'[j] = migrators[j]
  BY <1>2
<1>3. RunnersAreSound'
  <2> SUFFICES ASSUME NEW j \in Runners, j # k PROVE (RunnerShape(j) /\ RunnerHolds(j))'
    BY DEF RunnersAreSound
  <2>1. RunnerShape(j)'
    BY <1>2 DEF RunnerShape, RunnersAreSound
  <2>2. migrationLock = j => migrationLock' = j
    BY MigrationsAssumption
  <2>3. RecordHeld' = RecordHeld /\ \A v : Backfilled(v)' = Backfilled(v)
    BY DEF RecordHeld, Backfilled
  <2>4. \A v : IsNext(j, v)' <=> IsNext(j, v)
    BY <1>2 DEF IsNext, Pending
  <2>5. RunnerHolds(j)
    BY DEF RunnersAreSound
  <2>6. RunnerHolds(j)'
    BY <1>2, <2>2, <2>3, <2>4, <2>5 DEF RunnerHolds
  <2> QED
    BY <2>1, <2>6
<1>4. ExecutedAsRecorded' /\ InCatalogOrder'
  BY DEF MigrationsAreExact, ExecutedAsRecorded, InCatalogOrder
<1>5. VerdictsAreTrue'
  <2> SUFFICES ASSUME NEW j \in Runners, migrators'[j].at \in {"current", "compatible"},
                      NEW v \in DOMAIN CatalogOf(j)'
               PROVE  /\ executed[v] = <<CatalogOf(j)'[v]>>
                      /\ migrators'[j].at = "compatible" =>
                           migrators'[j].application \in SupportedBy[CatalogOf(j)'[v]]
                                                         \cap applied[v].evidence
    BY DEF VerdictsAreTrue
  <2>1. CASE j # k
    BY <1>2, <2>1 DEF VerdictsAreTrue, MigrationsAreExact
  <2>2. CASE j = k
    <3>1. v \in MigrationVersions
      BY <1>3, MigrationsAssumption DEF RunnersAreSound, RunnerShape
    <3> QED
      BY <1>1, <2>2, <3>1 DEF MigrationsAreExact, ExecutedAsRecorded
  <2> QED
    BY <2>1, <2>2
<1> QED
  BY <1>1, <1>3, <1>4, <1>5 DEF MigrationsAreExact

\* One content after none.
LEMMA FirstContents == ASSUME NEW c PROVE <<>> \o <<c>> = <<c>>
<1>1. <<c>> \in Seq({c})
  OBVIOUS
<1> QED
  BY <1>1

\* A commit: what it executes is what it records, in the order of its catalog.
LEMMA CommitKeeps ==
  ASSUME MigrationInv, NEW k \in Runners, CommitVersion(k)
  PROVE  MigrationInv'
<1> DEFINE run == migrators[k]  v == run.version  body == CatalogOf(k)[v]
<1> USE DEF MigrationInv, MigrationType
<1>1. /\ RunnerShape(k) /\ RunnerHolds(k) /\ run.at = "committing"
      /\ v \in MigrationVersions /\ v \notin DOMAIN applied /\ migrationLock = k
  BY DEF CommitVersion, RunnersAreSound, RunnerHolds
<1>2. /\ DOMAIN applied' = DOMAIN applied \cup {v}
      /\ applied'[v].content = body
      /\ \A w \in DOMAIN applied' : IsRow(applied'[w])
  BY <1>1 DEF CommitVersion, RunnerHolds
<1>3. \A w \in DOMAIN applied : applied'[w].content = applied[w].content
  BY <1>1 DEF CommitVersion, RunnerHolds
<1>4. v # EvidenceVersion => \A w \in DOMAIN applied : applied'[w] = applied[w]
  BY <1>1 DEF CommitVersion, RunnerHolds
<1>5. /\ DOMAIN executed' = MigrationVersions
      /\ executed'[v] = executed[v] \o <<body>>
      /\ \A w \in MigrationVersions : w # v => executed'[w] = executed[w]
  BY <1>1 DEF CommitVersion, Executes
<1>6. MigrationType'
  BY <1>1, <1>2, <1>5 DEF CommitVersion
<1>7. ExecutedAsRecorded'
  <2>1. executed'[v] = <<body>>
    <3>1. executed[v] = <<>>
      BY <1>1 DEF MigrationsAreExact, ExecutedAsRecorded
    <3> QED
      BY <1>5, <3>1, FirstContents, Zenon
  <2>2. ASSUME NEW w \in MigrationVersions, w # v
        PROVE  executed'[w] = IF w \in DOMAIN applied' THEN <<applied'[w].content>> ELSE <<>>
    <3>1. /\ executed'[w] = executed[w]
          /\ w \in DOMAIN applied' <=> w \in DOMAIN applied
          /\ executed[w] = IF w \in DOMAIN applied THEN <<applied[w].content>> ELSE <<>>
      BY <1>2, <1>5, <2>2 DEF MigrationsAreExact, ExecutedAsRecorded
    <3>2. w \in DOMAIN applied => applied'[w].content = applied[w].content
      BY <1>3
    <3> QED
      BY <3>1, <3>2
  <2> QED
    BY <1>2, <2>1, <2>2 DEF ExecutedAsRecorded
<1>8. InCatalogOrder'
  <2>1. ASSUME NEW w \in DOMAIN applied, NEW r \in DOMAIN Catalogs,
               \A u \in DOMAIN Catalogs[r] \cup {w} :
                 u <= w => /\ u \in DOMAIN applied \cap DOMAIN Catalogs[r]
                           /\ applied[u].content = Catalogs[r][u]
        PROVE  \A u \in DOMAIN Catalogs[r] \cup {w} :
                 u <= w => /\ u \in DOMAIN applied' \cap DOMAIN Catalogs[r]
                           /\ applied'[u].content = Catalogs[r][u]
    <3> SUFFICES ASSUME NEW u \in DOMAIN Catalogs[r] \cup {w}, u <= w
                 PROVE  /\ u \in DOMAIN applied' \cap DOMAIN Catalogs[r]
                        /\ applied'[u].content = Catalogs[r][u]
      OBVIOUS
    <3>1. /\ u \in DOMAIN applied \cap DOMAIN Catalogs[r]
          /\ applied[u].content = Catalogs[r][u]
      BY <2>1
    <3>2. applied'[u].content = applied[u].content
      BY <3>1, <1>3
    <3>3. u \in DOMAIN applied'
      BY <3>1, <1>2
    <3> QED
      BY <3>1, <3>2, <3>3
  <2>2. \A u \in DOMAIN CatalogOf(k) \cup {v} :
          u <= v => /\ u \in DOMAIN applied' \cap DOMAIN CatalogOf(k)
                    /\ applied'[u].content = CatalogOf(k)[u]
    <3>1. run.known = RecordHeld /\ IsNext(k, v) /\ run.release \in DOMAIN Catalogs
      BY <1>1 DEF RunnerHolds, RunnerShape
    <3>2. DOMAIN CatalogOf(k) \subseteq Nat /\ v \in DOMAIN CatalogOf(k)
      BY <3>1, MigrationsAssumption DEF IsNext, Pending
    <3>3. ASSUME NEW u \in DOMAIN CatalogOf(k), u <= v, u # v
          PROVE  u \in DOMAIN applied /\ applied[u].content = CatalogOf(k)[u]
      <4>1. u \notin Pending(k)
        BY <3>1, <3>2, <3>3 DEF IsNext, Pending
      <4>2. u \in DOMAIN RecordHeld /\ RecordHeld[u] = CatalogOf(k)[u]
        BY <3>1, <4>1 DEF Pending
      <4> QED
        BY <4>2 DEF RecordHeld
    <3> SUFFICES ASSUME NEW u \in DOMAIN CatalogOf(k), u <= v
                 PROVE  /\ u \in DOMAIN applied'
                        /\ applied'[u].content = CatalogOf(k)[u]
      BY <3>2
    <3>4. CASE u = v
      BY <1>2, <3>4
    <3>5. CASE u # v
      <4>1. u \in DOMAIN applied /\ applied[u].content = CatalogOf(k)[u]
        BY <3>3, <3>5
      <4> QED
        BY <1>2, <1>3, <4>1
    <3> QED
      BY <3>4, <3>5
  <2>3. run.release \in DOMAIN Catalogs
    BY <1>1 DEF RunnerShape
  <2> QED
    BY <1>2, <2>1, <2>2, <2>3 DEF MigrationsAreExact, InCatalogOrder
<1>9. ASSUME NEW j \in Runners, j # k
      PROVE  migrators'[j] = migrators[j]
  BY <1>9 DEF CommitVersion
<1>10. RunnersAreSound'
  <2>1. ASSUME NEW j \in Runners, j # k PROVE (RunnerShape(j) /\ RunnerHolds(j))'
    <3>1. migrators'[j].at \notin {"reading", "migrating", "recording", "committing"}
      BY <1>1, <1>9, <2>1 DEF RunnersAreSound, RunnerHolds
    <3> QED
      BY <1>2, <1>9, <2>1, <3>1 DEF RunnersAreSound, RunnerShape, RunnerHolds
  <2>2. CASE migrators'[k] = NoMigrator
    <3>1. (migrators[k].at)' = "idle"
      BY <2>2 DEF NoMigrator
    <3> QED
      BY <2>1, <3>1 DEF RunnersAreSound, RunnerShape, RunnerHolds
  <2>3. CASE /\ migrators'[k] = [at |-> "migrating", release |-> run.release,
                 known |-> [w \in DOMAIN run.known \cup {v} |->
                              IF w = v THEN body ELSE run.known[w]]]
             /\ migrationLock' = migrationLock
    <3>1. (migrators[k].known)' = RecordHeld'
      <4>1. run.known = RecordHeld
        BY <1>1 DEF RunnerHolds
      <4>2. (migrators[k].known)' = [w \in DOMAIN applied' |->
                                       IF w = v THEN body ELSE run.known[w]]
        BY <1>2, <2>3, <4>1 DEF RecordHeld
      <4>3. \A w \in DOMAIN applied' :
              (IF w = v THEN body ELSE run.known[w]) = applied'[w].content
        <5> SUFFICES ASSUME NEW w \in DOMAIN applied', w # v
                     PROVE  run.known[w] = applied'[w].content
          BY <1>2
        <5>1. w \in DOMAIN applied
          BY <1>2
        <5>2. run.known[w] = applied[w].content
          BY <4>1, <5>1 DEF RecordHeld
        <5> QED
          BY <1>3, <5>1, <5>2
      <4> QED
        BY <4>2, <4>3 DEF RecordHeld
    <3>2. RunnerShape(k)'
      BY <1>1, <2>3 DEF RunnerShape
    <3>3. RunnerHolds(k)'
      BY <1>1, <2>3, <3>1 DEF RunnerHolds
    <3> QED
      BY <2>1, <3>2, <3>3 DEF RunnersAreSound
  <2> QED
    BY <1>1, <2>2, <2>3 DEF CommitVersion
<1>11. VerdictsAreTrue'
  <2> SUFFICES ASSUME NEW j \in Runners, migrators'[j].at \in {"current", "compatible"},
                      NEW w \in DOMAIN CatalogOf(j)'
               PROVE  /\ executed'[w] = <<CatalogOf(j)'[w]>>
                      /\ migrators'[j].at = "compatible" =>
                           migrators'[j].application \in SupportedBy[CatalogOf(j)'[w]]
                                                         \cap applied'[w].evidence
    BY DEF VerdictsAreTrue
  <2>1. j # k
    BY <1>1 DEF CommitVersion, NoMigrator
  <2>2. /\ executed[w] = <<CatalogOf(j)[w]>>
        /\ migrators[j].at = "compatible" =>
             migrators[j].application \in SupportedBy[CatalogOf(j)[w]] \cap applied[w].evidence
    BY <1>9, <2>1 DEF MigrationsAreExact, VerdictsAreTrue
  <2>3. w \in MigrationVersions
    BY <1>9, <2>1, MigrationsAssumption DEF RunnersAreSound, RunnerShape
  <2>4. w \in DOMAIN applied
    BY <2>2, <2>3 DEF MigrationsAreExact, ExecutedAsRecorded
  <2>5. migrators[j].at = "compatible" => v # EvidenceVersion
    BY <1>1, <2>1 DEF RunnersAreSound, RunnerHolds
  <2>6. w # v /\ executed'[w] = executed[w]
    BY <1>1, <1>5, <2>3, <2>4
  <2>7. migrators[j].at = "compatible" => applied'[w] = applied[w]
    BY <1>4, <2>4, <2>5
  <2> QED
    BY <1>9, <2>1, <2>2, <2>6, <2>7
<1> QED
  BY <1>6, <1>7, <1>8, <1>10, <1>11 DEF MigrationsAreExact

LEMMA NextMigration == MigrationInv /\ [MigrationNext]_migrationVars => MigrationInv'
<1> SUFFICES ASSUME MigrationInv, [MigrationNext]_migrationVars
             PROVE  MigrationInv'
  OBVIOUS
<1>0. /\ DOMAIN migrators = Runners
      /\ \A k \in Runners : RunnerShape(k) /\ RunnerHolds(k)
  BY DEF MigrationInv, MigrationType, RunnersAreSound
<1>1. ASSUME NEW k \in Runners, NEW release \in DOMAIN Catalogs, StartRunner(k, release)
      PROVE  MigrationInv'
  <2> DEFINE after == [at |-> "locking", release |-> release]
  <2>1. migrators'[k] = after
    BY <1>0, <1>1 DEF StartRunner
  <2>2. RunnerShape(k)' /\ RunnerHolds(k)'
    BY <2>1 DEF RunnerShape, RunnerHolds
  <2> QED
    BY <1>1, <2>2, RunnerStep DEF StartRunner
<1>2. ASSUME NEW k \in Runners, NEW release \in DOMAIN Catalogs,
             NEW version \in ApplicationVersions, CheckMigrations(k, release, version)
      PROVE  MigrationInv'
  <2> DEFINE after == [at |-> IF IsCompatible(release, version) THEN "compatible"
                              ELSE "incompatible",
                       release |-> release, application |-> version]
  <2>1. migrators'[k] = after
    BY <1>0, <1>2 DEF CheckMigrations
  <2>2. RunnerShape(k)' /\ RunnerHolds(k)'
    BY <1>2, <2>1 DEF RunnerShape, RunnerHolds, CheckMigrations
  <2>3. after.at \in {"current", "compatible"} =>
          \A v \in DOMAIN Catalogs[after.release] :
            /\ v \in DOMAIN applied /\ applied[v].content = Catalogs[after.release][v]
            /\ after.at = "compatible" =>
                 after.application \in SupportedBy[Catalogs[after.release][v]] \cap applied[v].evidence
    BY DEF IsCompatible
  <2> QED
    BY <1>2, <2>2, <2>3, RunnerStep DEF CheckMigrations
<1>3. ASSUME NEW k \in Runners, TakeLock(k) PROVE MigrationInv'
  <2> DEFINE after == [migrators[k] EXCEPT !.at = "reading"]
  <2>1. migrators'[k] = after /\ after = [at |-> "reading", release |-> migrators[k].release]
    BY <1>0, <1>3 DEF TakeLock, RunnerShape
  <2>2. RunnerShape(k)' /\ RunnerHolds(k)'
    BY <1>0, <1>3, <2>1 DEF RunnerShape, RunnerHolds, TakeLock
  <2> QED
    BY <1>3, <2>1, <2>2, RunnerStep DEF TakeLock
<1>4. ASSUME NEW k \in Runners, ReadApplied(k) PROVE MigrationInv'
  <2> DEFINE after == [at |-> "migrating", release |-> migrators[k].release,
                       known |-> RecordHeld]
  <2>1. migrators' = [migrators EXCEPT ![k] = after] /\ migrators'[k] = after
    BY <1>0, <1>4 DEF ReadApplied, RecordHeld
  <2>2. RecordHeld' = RecordHeld
    BY <1>4 DEF ReadApplied, RecordHeld
  <2>3. RunnerShape(k)' /\ RunnerHolds(k)'
    BY <1>0, <1>4, <2>1, <2>2 DEF RunnerShape, RunnerHolds, ReadApplied
  <2> QED
    BY <1>0, <1>4, <2>1, <2>3, RunnerStep DEF ReadApplied
<1>5. ASSUME NEW k \in Runners, NEW v \in MigrationVersions, RunSql(k, v)
      PROVE  MigrationInv'
  <2> DEFINE after == [at |-> "recording", release |-> migrators[k].release,
                       known |-> migrators[k].known, version |-> v,
                       registry |-> Backfilled(v)]
  <2>1. migrators' = [migrators EXCEPT ![k] = after] /\ migrators'[k] = after
    BY <1>0, <1>5 DEF RunSql
  <2>2. RecordHeld' = RecordHeld /\ Backfilled(v)' = Backfilled(v)
    BY <1>5 DEF RunSql, RecordHeld, Backfilled
  <2>3. v \notin DOMAIN applied
    BY <1>0, <1>5 DEF RunSql, RunnerHolds, RecordHeld
  <2>4. IsNext(k, v)'
    BY <1>5, <2>1 DEF RunSql, IsNext, Pending
  <2>5. RunnerShape(k)' /\ RunnerHolds(k)'
    BY <1>0, <1>5, <2>1, <2>2, <2>3, <2>4 DEF RunnerShape, RunnerHolds, RunSql
  <2> QED
    BY <1>0, <1>5, <2>1, <2>5, RunnerStep DEF RunSql
<1>6. ASSUME NEW k \in Runners, RecordVersion(k) PROVE MigrationInv'
  <2> DEFINE run == migrators[k]
             v == run.version
             row == [content |-> CatalogOf(k)[v],
                     evidence |-> IF v >= EvidenceVersion THEN SupportedBy[CatalogOf(k)[v]]
                                  ELSE NoEvidence]
             registry == [w \in DOMAIN run.registry \cup {v} |->
                            IF w # v THEN run.registry[w] ELSE row]
             after == [at |-> "committing", release |-> run.release, known |-> run.known,
                       version |-> v, registry |-> registry]
  <2>1. /\ run.at = "recording" /\ run.registry = Backfilled(v)
        /\ RunnerShape(k) /\ RunnerHolds(k)
    BY <1>0, <1>6 DEF RecordVersion, RunnerHolds
  <2>2. /\ migrators' = [migrators EXCEPT ![k] = after] /\ migrators'[k] = after
        /\ UNCHANGED <<executed, applied, migrationLock>>
    BY <1>0, <1>6 DEF RecordVersion
  <2>3. RecordHeld' = RecordHeld
    BY <2>2 DEF RecordHeld
  <2>4. IsNext(k, v)' /\ v \notin DOMAIN applied /\ v \in MigrationVersions
    <3>1. /\ IsNext(k, v) /\ v \notin DOMAIN applied /\ v \in MigrationVersions
      BY <2>1 DEF RunnerHolds
    <3>2. (migrators[k].version)' = v /\ Pending(k)' = Pending(k)
      BY <2>2 DEF Pending
    <3> QED
      BY <3>1, <3>2 DEF IsNext
  <2>5. /\ DOMAIN Backfilled(v) = DOMAIN applied
        /\ \A w \in DOMAIN applied :
             /\ IsRow(Backfilled(v)[w])
             /\ Backfilled(v)[w].content = applied[w].content
             /\ v # EvidenceVersion => Backfilled(v)[w] = applied[w]
    BY DEF Backfilled, MigrationInv, MigrationType, IsRow
  <2>6. /\ DOMAIN registry = DOMAIN applied \cup {v}
        /\ registry[v].content = CatalogOf(k)[v]
        /\ \A w \in DOMAIN registry : IsRow(registry[w])
        /\ \A w \in DOMAIN applied :
              /\ registry[w].content = applied[w].content
              /\ v # EvidenceVersion => registry[w] = applied[w]
    BY <2>1, <2>4, <2>5 DEF IsRow
  <2> HIDE DEF registry
  <2>7. RunnerShape(k)' /\ RunnerHolds(k)'
    BY <2>1, <2>2, <2>3, <2>4, <2>6 DEF RunnerShape, RunnerHolds
  <2> QED
    BY <2>1, <2>2, <2>7, RunnerStep
<1>7. ASSUME NEW k \in Runners, CommitVersion(k) PROVE MigrationInv'
  BY <1>7, CommitKeeps
<1>8. ASSUME NEW k \in Runners, MigrationsCurrent(k) PROVE MigrationInv'
  <2> DEFINE after == [at |-> "current", release |-> migrators[k].release]
  <2>1. migrators' = [migrators EXCEPT ![k] = after] /\ migrators'[k] = after
    BY <1>0, <1>8 DEF MigrationsCurrent
  <2>2. RunnerShape(k)' /\ RunnerHolds(k)'
    BY <1>0, <1>8, <2>1 DEF RunnerShape, RunnerHolds, MigrationsCurrent
  <2>3. migrationLock = k /\ migrators[k].known = RecordHeld
    BY <1>0, <1>8 DEF MigrationsCurrent, RunnerHolds
  <2>4. \A v \in DOMAIN Catalogs[after.release] :
          v \in DOMAIN applied /\ applied[v].content = Catalogs[after.release][v]
    BY <1>8, <2>3 DEF MigrationsCurrent, Pending, RecordHeld
  <2> QED
    BY <1>8, <2>1, <2>2, <2>3, <2>4, MigrationsAssumption, RunnerStep DEF MigrationsCurrent
<1>9. ASSUME NEW k \in Runners, RunnerFails(k) \/ MigratorEnds(k) PROVE MigrationInv'
  <2>1. migrators' = [migrators EXCEPT ![k] = NoMigrator] /\ migrators'[k] = NoMigrator
    BY <1>0, <1>9 DEF RunnerFails, MigratorEnds
  <2>2. RunnerShape(k)' /\ RunnerHolds(k)'
    BY <2>1 DEF RunnerShape, RunnerHolds, NoMigrator
  <2> QED
    BY <1>9, <2>1, <2>2, MigrationsAssumption, RunnerStep
    DEF RunnerFails, MigratorEnds, NoMigrator
<1>10. CASE UNCHANGED migrationVars
  BY <1>10
  DEF migrationVars, MigrationInv, MigrationType, RunnersAreSound, RunnerShape, RunnerHolds,
      IsNext, Pending, RecordHeld, Backfilled, MigrationsAreExact, ExecutedAsRecorded,
      InCatalogOrder, VerdictsAreTrue
<1> QED
  BY <1>1, <1>2, <1>3, <1>4, <1>5, <1>6, <1>7, <1>8, <1>9, <1>10 DEF MigrationNext

\* What took effect is on record, once and in the order of a catalog, and whoever is told
\* that the database is current or compatible is told the truth: for any catalogs, any
\* number of runners and checks, and whatever fails (migrations.ts:157-197,
\* migration-compatibility.ts:82-110).
THEOREM MigrationsStayExact == MigrationSpec => []MigrationsAreExact
<1>1. MigrationInit => MigrationInv
  BY DEF MigrationInit, NoMigrator, MigrationInv, MigrationType, RunnersAreSound, RunnerShape,
         RunnerHolds, MigrationsAreExact, ExecutedAsRecorded, InCatalogOrder, VerdictsAreTrue
<1>2. MigrationInv => MigrationsAreExact
  BY DEF MigrationInv
<1> QED
  BY <1>1, <1>2, NextMigration, PTL DEF MigrationSpec

\* The database as a whole, its transactions and its migrations, which share no state.
THEOREM DatabaseStaysSound == TransactionSpec /\ MigrationSpec => []DatabaseIsSound
BY TransactionsStayHonest, MigrationsStayExact, PTL DEF DatabaseIsSound

-----------------------------------------------------------------------------
(* The file center, for every set of versions, operations and requests: any *)
(* number of retries, scans and clean-ups of one version.  Its Spec is the  *)
(* one named Spec here.                                                     *)

Mine(o) == Command[o].version

\* Only completions have seen contents, and keep them until they commit.
SawBytes == \A r \in Requests : pc[r] \in {"inspected", "completing"} => saw[r] \subseteq Bytes

FileTyped == TypeOK /\ SawBytes

\* The helpers every action is built from.
USE DEF BeginRequest, At, Goto, EndRequest, Becomes, SessionBecomes, Receives, Emits, Mine

-----------------------------------------------------------------------------
(* Type correctness *)

\* An operation is a command on a version.
LEMMA FileCommandType == ASSUME NEW o \in Operations
  PROVE  Mine(o) \in Versions /\ Command[o].kind \in FileCommandKinds /\ Command[o].version \in Versions
BY FileCenterAssumption

\* Counting one more event of a type keeps the counters.
LEMMA FileEmitType ==
  ASSUME events \in [Versions \X EventTypes -> Nat],
         NEW v \in Versions, NEW t \in EventTypes, Emits(v, t)
  PROVE  events' \in [Versions \X EventTypes -> Nat]
OBVIOUS

\* Every step keeps the tables, the store and the requests well typed.
LEMMA FileNextTyped == FileTyped /\ [Next]_vars => FileTyped'
<1> SUFFICES ASSUME FileTyped, [Next]_vars PROVE FileTyped'
  OBVIOUS
<1> USE DEF FileTyped, TypeOK, SawBytes, tables, store, Points
<1>1. ASSUME NEW r \in Requests, NEW o \in Operations, Step(r, o) PROVE FileTyped'
  <2> Mine(o) \in Versions
    BY FileCommandType
  <2>1. CASE CreateUpload(r, o)
    BY <2>1 DEF CreateUpload, Statuses, SessionStatuses
  <2>2. CASE GrantUpload(r, o)
    BY <2>2 DEF GrantUpload
  <2>3. CASE InspectUpload(r, o)
    BY <2>3, FileCenterAssumption DEF InspectUpload
  <2>4. CASE StampCompletion(r, o)
    BY <2>4 DEF StampCompletion
  <2>5. CASE CommitCompletion(r, o)
    <3>1. events' \in [Versions \X EventTypes -> Nat]
      BY <2>5, FileEmitType DEF CommitCompletion, EventTypes
    <3> QED BY <2>5, <3>1 DEF CommitCompletion, Statuses, SessionStatuses
  <2>6. CASE \E outcome \in ScanOutcomes : ScanObject(r, o, outcome)
    BY <2>6 DEF ScanObject
  <2>7. CASE RecordScan(r, o)
    <3>1. events' \in [Versions \X EventTypes -> Nat]
      BY <2>7, FileEmitType DEF RecordScan, EventTypes
    <3>2. CASE "clean" \in saw[r]
      BY <2>7, <3>1, <3>2 DEF RecordScan, Statuses
    <3>3. CASE "clean" \notin saw[r]
      BY <2>7, <3>1, <3>3 DEF RecordScan, Statuses
    <3> QED BY <3>2, <3>3
  <2>8. CASE RecordScanReplayed(r, o) \/ ResumeQuarantine(r, o)
    <3>1. RecordScanReplayed(r, o) => FileTyped'
      BY DEF RecordScanReplayed
    <3>2. ResumeQuarantine(r, o) => FileTyped'
      BY DEF ResumeQuarantine
    <3> QED BY <2>8, <3>1, <3>2
  <2>9. CASE InspectSource(r, o) \/ CopySource(r, o) \/ RemoveSource(r, o)
    BY <2>9 DEF InspectSource, CopySource, RemoveSource
  <2>10. CASE CompleteQuarantine(r, o)
    <3>1. events' \in [Versions \X EventTypes -> Nat]
      BY <2>10, FileEmitType DEF CompleteQuarantine, EventTypes
    <3> QED BY <2>10, <3>1 DEF CompleteQuarantine, Statuses
  <2>11. CASE BeginCleanup(r, o)
    BY <2>11 DEF BeginCleanup
  <2>12. CASE AbandonSession(r, o)
    BY <2>12 DEF AbandonSession, Statuses, SessionStatuses
  <2>13. CASE EraseObject(r, o)
    BY <2>13 DEF EraseObject
  <2>14. CASE CompleteCleanup(r, o)
    BY <2>14 DEF CompleteCleanup, Statuses, SessionStatuses
  <2>15. CASE InspectContent(r, o)
    BY <2>15 DEF InspectContent
  <2>16. CASE MarkReconciled(r, o)
    BY <2>16 DEF MarkReconciled, Statuses
  <2> QED BY <1>1, <2>1, <2>2, <2>3, <2>4, <2>5, <2>6, <2>7, <2>8, <2>9, <2>10,
             <2>11, <2>12, <2>13, <2>14, <2>15, <2>16 DEF Step
<1>2. ASSUME NEW r \in Requests, Leave(r) PROVE FileTyped'
  BY <1>2 DEF Leave
<1>3. ASSUME NEW o \in Operations, LinkResource(o) \/ UnlinkResource(o) PROVE FileTyped'
  <2> Mine(o) \in Versions
    BY FileCommandType
  <2>1. events' \in [Versions \X EventTypes -> Nat]
    BY <1>3, FileEmitType DEF LinkResource, UnlinkResource, EventTypes
  <2>2. CASE LinkResource(o)
    BY <2>1, <2>2 DEF LinkResource
  <2>3. CASE UnlinkResource(o)
    BY <2>1, <2>3 DEF UnlinkResource
  <2> QED BY <1>3, <2>2, <2>3
<1>4. ASSUME NEW v \in Versions, Environment(v) PROVE FileTyped'
  <2>1. Lose(v) => FileTyped'
    BY DEF Lose
  <2>2. Tick(v) => FileTyped'
    BY DEF Tick
  <2>3. ASSUME NEW b \in Bytes, Put(v, b) PROVE FileTyped'
    BY <2>3 DEF Put
  <2> QED BY <1>4, <2>1, <2>2, <2>3 DEF Environment
<1>5. CASE UNCHANGED vars
  BY <1>5 DEF vars
<1> QED BY <1>1, <1>2, <1>3, <1>4, <1>5 DEF Next

\* The file center's rows, objects and requests keep their types.
THEOREM FileTypesStay == Spec => []TypeOK
<1>1. Init => FileTyped
  BY DEF Init, FileTyped, TypeOK, SawBytes, Statuses, SessionStatuses, Points
<1>2. FileTyped => TypeOK
  BY DEF FileTyped
<1> QED BY <1>1, <1>2, FileNextTyped, PTL DEF Spec

-----------------------------------------------------------------------------
(* Agreement of the rows, clean-up and quarantine *)

\* A request carries one operation.
OneInHand == \A r \in Requests : \A o, p \in hand[r] : o = p

\* The control points of cleanupUploadSession are those of clean-up operations.
HandsMatch == \A r \in Requests : \A o \in hand[r] :
  pc[r] \in {"cleaning", "erasing", "erased"} <=> Command[o].kind = "cleanup"

\* A clean-up with a receipt has abandoned its version for good.
CleanupReceipts == \A o \in Operations :
  Command[o].kind = "cleanup" /\ receipt[o] # "none" =>
    status[Mine(o)] \in {"cleanup_pending", "deleted"}

\* Past the copy, the quarantine key holds it.
CopiesMade == \A r \in Requests : \A o \in hand[r] :
  pc[r] \in {"removing", "isolated"} => isolated[Mine(o)]

FileSafetyInv ==
  /\ OneInHand /\ HandsMatch /\ CleanupReceipts /\ CopiesMade
  /\ SessionAndContentAgree /\ OnlyAbandonedIsErased /\ QuarantinedIsIsolated

\* A reconciliation changes the status of a version whose object must exist.
LEMMA ReconcileStatus ==
  ASSUME TypeOK, NEW r \in Requests, NEW o \in Operations, MarkReconciled(r, o),
         NEW v \in Versions
  PROVE  \/ status'[v] = status[v]
         \/ status[v] \in {"pending_scan", "available"} /\ status'[v] = "object_missing"
<1>1. CASE saw[r] = {} /\ status[Mine(o)] \in {"pending_scan", "available"}
  <2>1. status' = [status EXCEPT ![Mine(o)] = "object_missing"]
    BY <1>1 DEF MarkReconciled
  <2> QED BY <1>1, <2>1 DEF TypeOK
<1>2. CASE ~(saw[r] = {} /\ status[Mine(o)] \in {"pending_scan", "available"})
  <2>1. status' = status
    BY <1>2 DEF MarkReconciled
  <2> QED BY <2>1
<1> QED BY <1>1, <1>2

\* Every step keeps the agreement: an abandoned version stays abandoned, and the
\* requests that act on it late find it so.
LEMMA FileNextSafety == FileTyped /\ FileSafetyInv /\ [Next]_vars => FileSafetyInv'
<1> SUFFICES ASSUME FileTyped, FileSafetyInv, [Next]_vars PROVE FileSafetyInv'
  OBVIOUS
<1> USE DEF FileTyped, TypeOK, FileSafetyInv, OneInHand, HandsMatch, CleanupReceipts,
            CopiesMade, SessionAndContentAgree, OnlyAbandonedIsErased, QuarantinedIsIsolated,
            tables, store
<1>1. ASSUME NEW r \in Requests, NEW o \in Operations, Step(r, o) PROVE FileSafetyInv'
  <2> Mine(o) \in Versions /\ \A p \in Operations : Mine(p) \in Versions
    BY FileCommandType
  <2>1. CASE CreateUpload(r, o)
    BY <2>1 DEF CreateUpload
  <2>2. CASE GrantUpload(r, o)
    BY <2>2 DEF GrantUpload
  <2>3. CASE InspectUpload(r, o)
    BY <2>3 DEF InspectUpload
  <2>4. CASE StampCompletion(r, o)
    BY <2>4 DEF StampCompletion
  <2>5. CASE CommitCompletion(r, o)
    <3>1. OneInHand' /\ HandsMatch' /\ CopiesMade' /\ OnlyAbandonedIsErased'
      BY <2>5 DEF CommitCompletion, Completable
    <3>2. CleanupReceipts'
      <4>1. status[Mine(o)] = "awaiting_upload" /\ Command[o].kind # "cleanup"
        BY <2>5 DEF CommitCompletion, Completable
      <4> QED BY <2>5, <4>1 DEF CommitCompletion
    <3>3. SessionAndContentAgree' /\ QuarantinedIsIsolated'
      BY <2>5 DEF CommitCompletion, Completable
    <3> QED BY <3>1, <3>2, <3>3
  <2>6. CASE \E outcome \in ScanOutcomes : ScanObject(r, o, outcome)
    BY <2>6 DEF ScanObject
  <2>7. CASE RecordScan(r, o)
    <3>1. status[Mine(o)] = "pending_scan" /\ \E s \in {"available", "quarantine_pending"} :
            status' = [status EXCEPT ![Mine(o)] = s]
      BY <2>7 DEF RecordScan, Scannable
    <3>2. Command[o].kind # "cleanup" /\ OneInHand' /\ HandsMatch' /\ CopiesMade'
      <4>1. pc[r] = "judged" /\ o \in hand[r] /\ Command[o].kind # "cleanup"
        BY <2>7 DEF RecordScan
      <4>2. UNCHANGED isolated /\ \E p \in {"idle", "isolating"} :
              pc' = [pc EXCEPT ![r] = p] /\ hand' \in {hand, [hand EXCEPT ![r] = {}]}
        BY <2>7 DEF RecordScan
      <4> QED BY <4>1, <4>2
    <3>3. CleanupReceipts'
      BY <2>7, <3>1, <3>2 DEF RecordScan
    <3>4. SessionAndContentAgree' /\ QuarantinedIsIsolated'
      BY <2>7, <3>1 DEF RecordScan
    <3>5. OnlyAbandonedIsErased'
      BY <2>7, <3>1 DEF RecordScan
    <3> QED BY <3>2, <3>3, <3>4, <3>5
  <2>8. CASE RecordScanReplayed(r, o)
    BY <2>8 DEF RecordScanReplayed
  <2>9. CASE ResumeQuarantine(r, o)
    BY <2>9 DEF ResumeQuarantine
  <2>10. CASE InspectSource(r, o)
    <3>1. OneInHand' /\ HandsMatch' /\ CleanupReceipts'
      BY <2>10 DEF InspectSource
    <3>2. CopiesMade'
      BY <2>10 DEF InspectSource, AlreadyIsolated
    <3>3. SessionAndContentAgree' /\ OnlyAbandonedIsErased' /\ QuarantinedIsIsolated'
      BY <2>10 DEF InspectSource
    <3> QED BY <3>1, <3>2, <3>3
  <2>11. CASE CopySource(r, o)
    <3>1. OneInHand' /\ HandsMatch' /\ CleanupReceipts'
      BY <2>11 DEF CopySource
    <3>2. CopiesMade'
      BY <2>11 DEF CopySource
    <3>3. SessionAndContentAgree' /\ OnlyAbandonedIsErased' /\ QuarantinedIsIsolated'
      BY <2>11 DEF CopySource
    <3> QED BY <3>1, <3>2, <3>3
  <2>12. CASE RemoveSource(r, o)
    BY <2>12 DEF RemoveSource
  <2>13. CASE CompleteQuarantine(r, o)
    BY <2>13 DEF CompleteQuarantine, Quarantinable
  <2>14. CASE BeginCleanup(r, o)
    BY <2>14 DEF BeginCleanup
  <2>15. CASE AbandonSession(r, o)
    <3>1. CASE receipt[o] = "none"
      <4>1. OneInHand' /\ HandsMatch' /\ CopiesMade'
        BY <2>15, <3>1 DEF AbandonSession
      <4>2. SessionAndContentAgree' /\ QuarantinedIsIsolated'
        BY <2>15, <3>1 DEF AbandonSession, Abandonable
      <4>3. status'[Mine(o)] = "cleanup_pending"
        BY <2>15, <3>1 DEF AbandonSession, Abandonable
      <4>4. \A v \in Versions : status[v] \in {"cleanup_pending", "deleted"} =>
              status'[v] \in {"cleanup_pending", "deleted"}
        BY <2>15, <3>1 DEF AbandonSession, Abandonable
      <4>5. CleanupReceipts'
        BY <2>15, <3>1, <4>3, <4>4 DEF AbandonSession
      <4>6. OnlyAbandonedIsErased'
        BY <2>15, <3>1, <4>3, <4>4 DEF AbandonSession
      <4> QED BY <4>1, <4>2, <4>5, <4>6
    <3>2. CASE receipt[o] # "none"
      BY <2>15, <3>2 DEF AbandonSession
    <3> QED BY <3>1, <3>2
  <2>16. CASE EraseObject(r, o)
    BY <2>16 DEF EraseObject
  <2>17. CASE CompleteCleanup(r, o)
    BY <2>17 DEF CompleteCleanup
  <2>18. CASE InspectContent(r, o)
    BY <2>18 DEF InspectContent
  <2>19. CASE MarkReconciled(r, o)
    <3>1. OneInHand' /\ HandsMatch' /\ CopiesMade' /\ Command[o].kind # "cleanup"
      BY <2>19 DEF MarkReconciled
    <3>2. \A v \in Versions :
            \/ status'[v] = status[v]
            \/ status[v] \in {"pending_scan", "available"} /\ status'[v] = "object_missing"
      BY <2>19, ReconcileStatus
    <3>3. CleanupReceipts'
      BY <2>19, <3>1, <3>2 DEF MarkReconciled
    <3>4. SessionAndContentAgree' /\ QuarantinedIsIsolated'
      BY <2>19, <3>2 DEF MarkReconciled
    <3>5. OnlyAbandonedIsErased'
      BY <2>19, <3>2 DEF MarkReconciled
    <3> QED BY <3>1, <3>3, <3>4, <3>5
  <2> QED BY <1>1, <2>1, <2>2, <2>3, <2>4, <2>5, <2>6, <2>7, <2>8, <2>9, <2>10, <2>11,
             <2>12, <2>13, <2>14, <2>15, <2>16, <2>17, <2>18, <2>19 DEF Step
<1>2. ASSUME NEW r \in Requests, Leave(r) PROVE FileSafetyInv'
  BY <1>2 DEF Leave
<1>3. ASSUME NEW o \in Operations, LinkResource(o) \/ UnlinkResource(o) PROVE FileSafetyInv'
  BY <1>3 DEF LinkResource, UnlinkResource
<1>4. ASSUME NEW v \in Versions, Environment(v) PROVE FileSafetyInv'
  BY <1>4 DEF Environment, Lose, Tick, Put
<1>5. CASE UNCHANGED vars
  BY <1>5 DEF vars
<1> QED BY <1>1, <1>2, <1>3, <1>4, <1>5 DEF Next

\* Types and agreement hold in every reachable state.
LEMMA FileSafety == Spec => [](FileTyped /\ FileSafetyInv)
<1>1. Init => FileTyped /\ FileSafetyInv
  BY FileCommandType DEF Init, FileTyped, TypeOK, SawBytes, Statuses, SessionStatuses, Points, FileSafetyInv,
     OneInHand, HandsMatch, CleanupReceipts, CopiesMade, SessionAndContentAgree,
     OnlyAbandonedIsErased, QuarantinedIsIsolated
<1> QED BY <1>1, FileNextTyped, FileNextSafety, PTL DEF Spec

\* The row of the session and the row of its version agree in every state.
THEOREM RowsAgree == Spec => []SessionAndContentAgree
<1>1. FileSafetyInv => SessionAndContentAgree
  BY DEF FileSafetyInv
<1> QED BY <1>1, FileSafety, PTL

\* No clean-up ever deletes the object of a completed upload.
THEOREM CleanupSparesCompleted == Spec => []OnlyAbandonedIsErased
<1>1. FileSafetyInv => OnlyAbandonedIsErased
  BY DEF FileSafetyInv
<1> QED BY <1>1, FileSafety, PTL

\* A quarantined version has its copy in quarantine.
THEOREM QuarantineHolds == Spec => []QuarantinedIsIsolated
<1>1. FileSafetyInv => QuarantinedIsIsolated
  BY DEF FileSafetyInv
<1> QED BY <1>1, FileSafety, PTL

-----------------------------------------------------------------------------
(* Settled statuses *)

\* Every step moves a version's status along the lifecycle.
LEMMA FileNextSettles ==
  ASSUME FileTyped, FileSafetyInv, [Next]_vars, NEW v \in Versions
  PROVE  status'[v] \in {status[v]} \cup Successors(status[v])
<1> USE DEF FileTyped, TypeOK, tables, store, Statuses, Successors
<1>1. ASSUME NEW r \in Requests, NEW o \in Operations, Step(r, o)
      PROVE status'[v] \in {status[v]} \cup Successors(status[v])
  <2>1. CASE CreateUpload(r, o)
    BY <2>1, FileCommandType DEF CreateUpload
  <2>2. CASE CommitCompletion(r, o)
    BY <2>2, FileCommandType DEF CommitCompletion, Completable
  <2>3. CASE RecordScan(r, o)
    BY <2>3, FileCommandType DEF RecordScan, Scannable
  <2>4. CASE CompleteQuarantine(r, o)
    BY <2>4, FileCommandType DEF CompleteQuarantine, Quarantinable
  <2>5. CASE AbandonSession(r, o)
    BY <2>5, FileCommandType DEF AbandonSession
  <2>6. CASE CompleteCleanup(r, o)
    BY <2>6, FileCommandType DEF CompleteCleanup
  <2>7. CASE MarkReconciled(r, o)
    BY <2>7, FileCommandType DEF MarkReconciled
  <2>8. Step(r, o) => status' = status
          \/ CreateUpload(r, o) \/ CommitCompletion(r, o) \/ RecordScan(r, o)
          \/ CompleteQuarantine(r, o) \/ AbandonSession(r, o) \/ CompleteCleanup(r, o)
          \/ MarkReconciled(r, o)
    BY DEF Step, GrantUpload, InspectUpload, StampCompletion, ScanObject, RecordScanReplayed,
       ResumeQuarantine, InspectSource, CopySource, RemoveSource, BeginCleanup, EraseObject,
       InspectContent
  <2> QED BY <1>1, <2>1, <2>2, <2>3, <2>4, <2>5, <2>6, <2>7, <2>8
<1>2. CASE \E r \in Requests : Leave(r)
  BY <1>2 DEF Leave
<1>3. CASE \E o \in Operations : LinkResource(o) \/ UnlinkResource(o)
  BY <1>3 DEF LinkResource, UnlinkResource
<1>4. CASE \E w \in Versions : Environment(w)
  BY <1>4 DEF Environment, Lose, Tick, Put
<1>5. CASE UNCHANGED vars
  BY <1>5 DEF vars
<1> QED BY <1>1, <1>2, <1>3, <1>4, <1>5 DEF Next

\* No request, however late, takes a version out of a settled status.
THEOREM SettledStatusesStay == Spec => SettledStays
<1>1. FileTyped /\ FileSafetyInv /\ [Next]_vars =>
        [\A v \in Versions : status'[v] \in {status[v]} \cup Successors(status[v])]_status
  BY FileNextSettles
<1> QED BY <1>1, FileSafety, PTL DEF Spec, SettledStays

-----------------------------------------------------------------------------
(* Events *)

\* A version is announced as available at most once.
AnnouncedOnce == \A v \in Versions : events[<<v, "available">>] \in {0, 1}

FileEventInv == EventsTellHistory /\ AnnouncedOnce

\* An emitted event raises one counter.
LEMMA EmitCounts ==
  ASSUME events \in [Versions \X EventTypes -> Nat],
         NEW v \in Versions, NEW t \in EventTypes, Emits(v, t),
         NEW w \in Versions, NEW u \in EventTypes
  PROVE  events'[<<w, u>>] = IF w = v /\ u = t THEN events[<<w, u>>] + 1 ELSE events[<<w, u>>]
<1>1. <<w, u>> \in Versions \X EventTypes
  OBVIOUS
<1>2. <<w, u>> = <<v, t>> <=> w = v /\ u = t
  OBVIOUS
<1> QED BY <1>1, <1>2

\* A status that moves without an event tells the same history.
LEMMA SilentMove ==
  ASSUME FileTyped, FileEventInv, UNCHANGED <<link, events>>,
         \A v \in Versions :
           \/ status'[v] = status[v]
           \/ status[v] \in {"absent", "awaiting_upload", "cleanup_pending"}
              /\ status'[v] \in {"awaiting_upload", "cleanup_pending", "deleted"}
           \/ status[v] = "pending_scan" /\ status'[v] = "quarantine_pending"
           \/ status[v] \in {"pending_scan", "available"} /\ status'[v] = "object_missing"
  PROVE  FileEventInv'
BY DEF FileEventInv, EventsTellHistory, AnnouncedOnce, Uploaded

\* An event with its own transition adds one line to the history.
LEMMA LoudMove ==
  ASSUME FileTyped, FileEventInv, NEW v \in Versions, NEW t \in EventTypes, Emits(v, t),
         \/ /\ t = "completed" /\ status[v] = "awaiting_upload"
            /\ status' = [status EXCEPT ![v] = "pending_scan"] /\ link' = link
         \/ /\ t = "available" /\ status[v] = "pending_scan"
            /\ status' = [status EXCEPT ![v] = "available"] /\ link' = link
         \/ /\ t = "quarantined" /\ status[v] = "quarantine_pending"
            /\ status' = [status EXCEPT ![v] = "quarantined"] /\ link' = link
         \/ /\ t = "linked" /\ status[v] = "available" /\ link[v] = "none"
            /\ link' = [link EXCEPT ![v] = "active"] /\ status' = status
         \/ /\ t = "unlinked" /\ link[v] = "active"
            /\ link' = [link EXCEPT ![v] = "removed"] /\ status' = status
  PROVE  FileEventInv'
<1>1. \A w \in Versions : \A u \in {"completed", "available", "quarantined", "linked", "unlinked"} :
        /\ events'[<<w, u>>] = IF w = v /\ u = t THEN events[<<w, u>>] + 1 ELSE events[<<w, u>>]
        /\ events[<<w, u>>] \in Nat
  BY EmitCounts DEF FileTyped, TypeOK, EventTypes
<1>2. \A w \in Versions : w # v =>
        /\ status'[w] = status[w] /\ link'[w] = link[w]
        /\ \A u \in {"completed", "available", "quarantined", "linked", "unlinked"} :
             events'[<<w, u>>] = events[<<w, u>>]
  BY <1>1 DEF FileTyped, TypeOK
<1>3. SUFFICES ASSUME NEW w \in Versions
      PROVE  /\ events'[<<w, "completed">>] = IF Uploaded(w)' THEN 1 ELSE 0
             /\ events'[<<w, "quarantined">>] = IF status'[w] = "quarantined" THEN 1 ELSE 0
             /\ status'[w] = "available" => events'[<<w, "available">>] = 1
             /\ events'[<<w, "available">>] = 1 => status'[w] \in {"available", "object_missing"}
             /\ events'[<<w, "linked">>] = IF link'[w] = "none" THEN 0 ELSE 1
             /\ events'[<<w, "unlinked">>] = IF link'[w] = "removed" THEN 1 ELSE 0
             /\ link'[w] # "none" => events'[<<w, "available">>] = 1
             /\ events'[<<w, "available">>] \in {0, 1}
  BY DEF FileEventInv, EventsTellHistory, AnnouncedOnce, Uploaded
<1> USE DEF FileEventInv, EventsTellHistory, AnnouncedOnce, Uploaded
<1>4. CASE w # v
  BY <1>2, <1>4
<1>5. CASE w = v
  <2>0. /\ events[<<v, "completed">>] = IF Uploaded(v) THEN 1 ELSE 0
        /\ events[<<v, "quarantined">>] = IF status[v] = "quarantined" THEN 1 ELSE 0
        /\ status[v] = "available" => events[<<v, "available">>] = 1
        /\ events[<<v, "available">>] = 1 => status[v] \in {"available", "object_missing"}
        /\ events[<<v, "linked">>] = IF link[v] = "none" THEN 0 ELSE 1
        /\ events[<<v, "unlinked">>] = IF link[v] = "removed" THEN 1 ELSE 0
        /\ link[v] # "none" => events[<<v, "available">>] = 1
        /\ events[<<v, "available">>] \in {0, 1}
    OBVIOUS
  <2> HIDE DEF FileEventInv, EventsTellHistory, AnnouncedOnce
  <2>1. CASE t = "completed"
    <3>1. status[v] = "awaiting_upload" /\ status'[v] = "pending_scan" /\ link'[v] = link[v]
      BY <2>1 DEF FileTyped, TypeOK
    <3>2. \A u \in {"completed", "available", "quarantined", "linked", "unlinked"} :
            events'[<<v, u>>] = IF u = "completed" THEN events[<<v, u>>] + 1 ELSE events[<<v, u>>]
      BY <1>1, <2>1
    <3> QED BY <1>5, <2>0, <3>1, <3>2
  <2>2. CASE t = "available"
    <3>1. status[v] = "pending_scan" /\ status'[v] = "available" /\ link'[v] = link[v]
      BY <2>2 DEF FileTyped, TypeOK
    <3>2. \A u \in {"completed", "available", "quarantined", "linked", "unlinked"} :
            events'[<<v, u>>] = IF u = "available" THEN events[<<v, u>>] + 1 ELSE events[<<v, u>>]
      BY <1>1, <2>2
    <3> QED BY <1>5, <2>0, <3>1, <3>2
  <2>3. CASE t = "quarantined"
    <3>1. status[v] = "quarantine_pending" /\ status'[v] = "quarantined" /\ link'[v] = link[v]
      BY <2>3 DEF FileTyped, TypeOK
    <3>2. \A u \in {"completed", "available", "quarantined", "linked", "unlinked"} :
            events'[<<v, u>>] = IF u = "quarantined" THEN events[<<v, u>>] + 1 ELSE events[<<v, u>>]
      BY <1>1, <2>3
    <3> QED BY <1>5, <2>0, <3>1, <3>2
  <2>4. CASE t = "linked"
    <3>1. status[v] = "available" /\ link[v] = "none" /\ link'[v] = "active" /\ status'[v] = status[v]
      BY <2>4 DEF FileTyped, TypeOK
    <3>2. \A u \in {"completed", "available", "quarantined", "linked", "unlinked"} :
            events'[<<v, u>>] = IF u = "linked" THEN events[<<v, u>>] + 1 ELSE events[<<v, u>>]
      BY <1>1, <2>4
    <3> QED BY <1>5, <2>0, <3>1, <3>2
  <2>5. CASE t = "unlinked"
    <3>1. link[v] = "active" /\ link'[v] = "removed" /\ status'[v] = status[v]
      BY <2>5 DEF FileTyped, TypeOK
    <3>2. \A u \in {"completed", "available", "quarantined", "linked", "unlinked"} :
            events'[<<v, u>>] = IF u = "unlinked" THEN events[<<v, u>>] + 1 ELSE events[<<v, u>>]
      BY <1>1, <2>5
    <3> QED BY <1>5, <2>0, <3>1, <3>2
  <2> QED BY <2>1, <2>2, <2>3, <2>4, <2>5 DEF EventTypes
<1> QED BY <1>4, <1>5

\* Every step keeps the history told by the events.
LEMMA FileNextEvents == FileTyped /\ FileEventInv /\ FileSafetyInv /\ [Next]_vars => FileEventInv'
<1> SUFFICES ASSUME FileTyped, FileEventInv, FileSafetyInv, [Next]_vars PROVE FileEventInv'
  OBVIOUS
<1> USE DEF tables, store
<1>1. ASSUME NEW r \in Requests, NEW o \in Operations, Step(r, o) PROVE FileEventInv'
  <2> Mine(o) \in Versions
    BY FileCommandType
  <2>1. CASE CreateUpload(r, o)
    BY <2>1, SilentMove DEF CreateUpload, FileTyped, TypeOK
  <2>2. CASE CommitCompletion(r, o)
    BY <2>2, LoudMove DEF CommitCompletion, Completable, EventTypes
  <2>3. CASE RecordScan(r, o)
    <3>1. CASE "clean" \in saw[r]
      BY <2>3, <3>1, LoudMove DEF RecordScan, Scannable, EventTypes
    <3>2. CASE "clean" \notin saw[r]
      BY <2>3, <3>2, SilentMove DEF RecordScan, Scannable, FileTyped, TypeOK
    <3> QED BY <3>1, <3>2
  <2>4. CASE CompleteQuarantine(r, o)
    BY <2>4, LoudMove DEF CompleteQuarantine, Quarantinable, EventTypes
  <2>5. CASE AbandonSession(r, o)
    BY <2>5, SilentMove DEF AbandonSession, FileTyped, TypeOK
  <2>6. CASE CompleteCleanup(r, o)
    BY <2>6, SilentMove DEF CompleteCleanup, FileTyped, TypeOK
  <2>7. CASE MarkReconciled(r, o)
    <3>1. UNCHANGED <<link, events>>
      BY <2>7 DEF MarkReconciled
    <3>2. TypeOK
      BY DEF FileTyped
    <3>3. \A v \in Versions :
            \/ status'[v] = status[v]
            \/ status[v] \in {"pending_scan", "available"} /\ status'[v] = "object_missing"
      BY <2>7, <3>2, ReconcileStatus
    <3> QED BY <3>1, <3>3, SilentMove
  <2>8. Step(r, o) => UNCHANGED <<status, link, events>>
          \/ CreateUpload(r, o) \/ CommitCompletion(r, o) \/ RecordScan(r, o)
          \/ CompleteQuarantine(r, o) \/ AbandonSession(r, o) \/ CompleteCleanup(r, o)
          \/ MarkReconciled(r, o)
    BY DEF Step, GrantUpload, InspectUpload, StampCompletion, ScanObject, RecordScanReplayed,
       ResumeQuarantine, InspectSource, CopySource, RemoveSource, BeginCleanup, EraseObject,
       InspectContent
  <2>9. CASE UNCHANGED <<status, link, events>>
    BY <2>9, SilentMove
  <2> QED BY <1>1, <2>1, <2>2, <2>3, <2>4, <2>5, <2>6, <2>7, <2>8, <2>9
<1>2. CASE \E r \in Requests : Leave(r)
  BY <1>2, SilentMove DEF Leave
<1>3. ASSUME NEW o \in Operations, LinkResource(o) \/ UnlinkResource(o) PROVE FileEventInv'
  <2> Mine(o) \in Versions
    BY FileCommandType
  <2>1. CASE LinkResource(o)
    BY <2>1, LoudMove DEF LinkResource, EventTypes
  <2>2. CASE UnlinkResource(o)
    BY <2>2, LoudMove DEF UnlinkResource, EventTypes
  <2> QED BY <1>3, <2>1, <2>2
<1>4. CASE \E v \in Versions : Environment(v)
  BY <1>4, SilentMove DEF Environment, Lose, Tick, Put
<1>5. CASE UNCHANGED vars
  BY <1>5, SilentMove DEF vars
<1> QED BY <1>1, <1>2, <1>3, <1>4, <1>5 DEF Next

\* The outbox of the file center tells each version's history exactly.
THEOREM EventsAreExact == Spec => []EventsTellHistory
<1>1. Init => FileEventInv
  BY DEF Init, FileEventInv, EventsTellHistory, AnnouncedOnce, Uploaded, EventTypes
<1>2. FileEventInv => EventsTellHistory
  BY DEF FileEventInv
<1>3. FileTyped /\ FileSafetyInv /\ FileEventInv /\ [Next]_vars => FileEventInv'
  BY FileNextEvents
<1> QED BY <1>1, <1>2, <1>3, FileSafety, PTL DEF Spec

\* The rows agree, clean-up spares completed content and quarantine isolates,
\* for any number of versions, requests and retries.
THEOREM VersionsStaySound == Spec => []VersionsAreSound
BY FileTypesStay, RowsAgree, CleanupSparesCompleted, QuarantineHolds, PTL DEF VersionsAreSound

=============================================================================
