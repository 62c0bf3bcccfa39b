----------------------------- MODULE FileCenter -----------------------------
(***************************************************************************)
(* The file center (packages/platform-modules/file-center): the life of    *)
(* content versions and of their upload sessions, driven by requests that  *)
(* alternate database transactions with calls of the object store and of   *)
(* the scanner, and share no transaction with either.                      *)
(*                                                                         *)
(* A request stops between two awaits at a control point of its own.  One  *)
(* operation id may be carried by several requests (retries); a receipt    *)
(* makes its transaction happen once.  Every refusal, replayed answer,     *)
(* provider failure or death of the process is Leave.                      *)
(***************************************************************************)
EXTENDS Naturals

CONSTANTS
  Versions,    \* content versions, each with its upload session
  Operations,  \* operation ids
  Command,     \* what an operation id asks: its fingerprint
  Requests,    \* concurrent requests
  Bytes,       \* contents an object may have
  Fitting      \* those of the declared size

FileCommandKinds == {"create", "complete", "scan", "cleanup", "reconcile", "link", "unlink"}

ASSUME FileCenterAssumption ==
  /\ Command \in [Operations -> [kind : FileCommandKinds, version : Versions]]
  /\ Fitting \in SUBSET Bytes

VARIABLES
  (* committed tables *)
  status,     \* content_versions.status
  content,    \* content_versions: the bytes that size and checksum describe
  session,    \* upload_sessions.status
  link,       \* resource_links: the version's link
  receipt,    \* operation_receipts: result by operation
  events,     \* outbox_events: how many, by version and type
  (* the object store and the clock *)
  object,     \* the object at the version's handle
  isolated,   \* the quarantine key of the version holds a copy
  granted,    \* an upload URL is out
  clock,      \* of the session's expiry and the URL's
  (* requests *)
  pc, hand, saw,
  (* observation *)
  lost        \* the object once vanished from the store

tables == <<status, content, session, link, receipt, events>>
store == <<object, isolated, granted, clock, lost>>
vars == <<tables, store, pc, hand, saw>>

Statuses == {"absent", "awaiting_upload", "pending_scan", "available", "quarantine_pending",
             "quarantined", "object_missing", "cleanup_pending", "deleted"}
SessionStatuses == {"absent", "created", "pending_scan", "cleanup_pending", "cleaned"}
EventTypes == {"completed", "available", "quarantined", "linked", "unlinked"}
ScanOutcomes == {"clean", "malicious", "unscannable"}
Points == {"idle", "granting", "inspected", "completing", "judged", "isolating", "copying",
           "removing", "isolated", "cleaning", "erasing", "erased", "observed"}

TypeOK ==
  /\ status \in [Versions -> Statuses]
  /\ content \in [Versions -> SUBSET Bytes]
  /\ session \in [Versions -> SessionStatuses]
  /\ link \in [Versions -> {"none", "active", "removed"}]
  /\ receipt \in [Operations -> {"none", "done", "available", "quarantine_pending"}]
  /\ events \in [Versions \X EventTypes -> Nat]
  /\ object \in [Versions -> SUBSET Bytes]
  /\ isolated \in [Versions -> BOOLEAN]
  /\ granted \in [Versions -> BOOLEAN]
  /\ clock \in [Versions -> {"open", "expired", "closed"}]
  /\ lost \in [Versions -> BOOLEAN]
  /\ pc \in [Requests -> Points]
  /\ hand \in [Requests -> SUBSET Operations]
  /\ saw \in [Requests -> SUBSET (Bytes \cup ScanOutcomes)]

Init ==
  /\ status = [v \in Versions |-> "absent"]
  /\ content = [v \in Versions |-> {}]
  /\ session = [v \in Versions |-> "absent"]
  /\ link = [v \in Versions |-> "none"]
  /\ receipt = [o \in Operations |-> "none"]
  /\ events = [e \in Versions \X EventTypes |-> 0]
  /\ object = [v \in Versions |-> {}]
  /\ isolated = [v \in Versions |-> FALSE]
  /\ granted = [v \in Versions |-> FALSE]
  /\ clock = [v \in Versions |-> "open"]
  /\ lost = [v \in Versions |-> FALSE]
  /\ pc = [r \in Requests |-> "idle"]
  /\ hand = [r \in Requests |-> {}]
  /\ saw = [r \in Requests |-> {}]

-----------------------------------------------------------------------------
(* Requests *)

\* Request r takes up operation o and stops at point p knowing s.
BeginRequest(r, o, kind, p, s) ==
  /\ pc[r] = "idle" /\ Command[o].kind = kind
  /\ pc' = [pc EXCEPT ![r] = p]
  /\ hand' = [hand EXCEPT ![r] = {o}]
  /\ saw' = [saw EXCEPT ![r] = s]

At(r, o, p) == pc[r] = p /\ o \in hand[r]
Goto(r, p) == pc' = [pc EXCEPT ![r] = p] /\ UNCHANGED <<hand, saw>>
EndRequest(r) ==
  /\ pc' = [pc EXCEPT ![r] = "idle"]
  /\ hand' = [hand EXCEPT ![r] = {}]
  /\ saw' = [saw EXCEPT ![r] = {}]

\* The request ends with what it has done so far.
Leave(r) == pc[r] # "idle" /\ EndRequest(r) /\ UNCHANGED <<tables, store>>

Becomes(v, s) == status' = [status EXCEPT ![v] = s]
SessionBecomes(v, s) == session' = [session EXCEPT ![v] = s]
\* The receipt commits with the transaction it answers for.
Receives(o, result) == receipt' = [receipt EXCEPT ![o] = result]
Emits(v, type) == events' = [events EXCEPT ![<<v, type>>] = @ + 1]

-----------------------------------------------------------------------------
(* createUploadSession, createContentVersionUpload *)

\* createUpload, createVersionUpload: fresh rows, once per operation.
CreateUpload(r, o) == LET v == Command[o].version IN
  /\ BeginRequest(r, o, "create", "granting", {})
  /\ IF receipt[o] = "none"
       THEN /\ status[v] = "absent"
            /\ Becomes(v, "awaiting_upload") /\ SessionBecomes(v, "created")
            /\ Receives(o, "done")
       ELSE UNCHANGED <<status, session, receipt>>
  /\ UNCHANGED <<content, link, events, store>>

\* The session as it is now decides whether a URL is signed.
GrantUpload(r, o) == LET v == Command[o].version IN
  /\ At(r, o, "granting")
  /\ session[v] = "created" /\ clock[v] = "open"
  /\ granted' = [granted EXCEPT ![v] = TRUE]
  /\ EndRequest(r)
  /\ UNCHANGED <<tables, object, isolated, clock, lost>>

\* The signed URL is used, perhaps again: its lifetime is rounded up to the
\* next second, so it outlives the session a little.
Put(v, b) ==
  /\ granted[v] /\ clock[v] # "closed"
  /\ object' = [object EXCEPT ![v] = {b}]
  /\ UNCHANGED <<tables, isolated, granted, clock, lost, pc, hand, saw>>

\* The store loses an object.
Lose(v) ==
  /\ object[v] # {}
  /\ object' = [object EXCEPT ![v] = {}]
  /\ lost' = [lost EXCEPT ![v] = TRUE]
  /\ UNCHANGED <<tables, isolated, granted, clock, pc, hand, saw>>

Tick(v) ==
  /\ session[v] # "absent" /\ clock[v] # "closed"
  /\ clock' = [clock EXCEPT ![v] = IF @ = "open" THEN "expired" ELSE "closed"]
  /\ UNCHANGED <<tables, object, isolated, granted, lost, pc, hand, saw>>

-----------------------------------------------------------------------------
(* completeUpload *)

\* An unexpired session and an object of the declared size.
InspectUpload(r, o) == LET v == Command[o].version IN
  /\ session[v] # "absent" /\ receipt[o] = "none" /\ clock[v] = "open"
  /\ object[v] # {} /\ object[v] \subseteq Fitting
  /\ BeginRequest(r, o, "complete", "inspected", object[v])
  /\ UNCHANGED <<tables, store>>

\* completedAt is read after the inspection; the store compares it with the
\* expiry, whenever the transaction runs.
StampCompletion(r, o) ==
  /\ At(r, o, "inspected") /\ clock[Command[o].version] = "open"
  /\ Goto(r, "completing")
  /\ UNCHANGED <<tables, store>>

\* The session under its row lock and the version must both be waiting.
Completable(v) == session[v] = "created" /\ status[v] = "awaiting_upload"

CommitCompletion(r, o) == LET v == Command[o].version IN
  /\ At(r, o, "completing") /\ receipt[o] = "none" /\ Completable(v)
  /\ Becomes(v, "pending_scan") /\ SessionBecomes(v, "pending_scan")
  /\ content' = [content EXCEPT ![v] = saw[r]]
  /\ Receives(o, "done") /\ Emits(v, "completed")
  /\ EndRequest(r)
  /\ UNCHANGED <<link, store>>

-----------------------------------------------------------------------------
(* scanContentVersion *)

\* The object is read and judged.
ScanObject(r, o, outcome) == LET v == Command[o].version IN
  /\ receipt[o] = "none" /\ status[v] = "pending_scan" /\ object[v] # {}
  /\ BeginRequest(r, o, "scan", "judged", {outcome})
  /\ UNCHANGED <<tables, store>>

\* Mutant: the update does not ask for a version that waits for its scan.
ScannableOnceUploaded(v) == status[v] \notin {"absent", "awaiting_upload"}

Scannable(v) == status[v] = "pending_scan"

\* recordScan: a clean version is available, any other awaits its quarantine.
RecordScan(r, o) ==
  LET v == Command[o].version
      verdict == IF "clean" \in saw[r] THEN "available" ELSE "quarantine_pending"
  IN
  /\ At(r, o, "judged") /\ receipt[o] = "none" /\ Scannable(v)
  /\ Becomes(v, verdict) /\ Receives(o, verdict)
  /\ IF verdict = "available"
       THEN Emits(v, "available") /\ EndRequest(r)
       ELSE UNCHANGED events /\ Goto(r, "isolating")
  /\ UNCHANGED <<content, session, link, store>>

\* A retry of the operation has recorded its verdict meanwhile.
RecordScanReplayed(r, o) ==
  /\ At(r, o, "judged") /\ receipt[o] = "quarantine_pending"
  /\ Goto(r, "isolating")
  /\ UNCHANGED <<tables, store>>

\* A quarantine left unfinished, by this operation or another, is resumed.
ResumeQuarantine(r, o) ==
  /\ \/ receipt[o] = "quarantine_pending"
     \/ receipt[o] = "none" /\ status[Command[o].version] = "quarantine_pending"
  /\ BeginRequest(r, o, "scan", "isolating", {})
  /\ UNCHANGED <<tables, store>>

\* Mutant: a missing source is taken for a finished quarantine.
SourceGone(v) == object[v] = {}

\* Without a source the quarantine key must hold the copy.
AlreadyIsolated(v) == object[v] = {} /\ isolated[v]

\* quarantineObject: inspect the source, copy it, delete it.
InspectSource(r, o) == LET v == Command[o].version IN
  /\ At(r, o, "isolating")
  /\ \/ object[v] # {} /\ Goto(r, "copying")
     \/ AlreadyIsolated(v) /\ Goto(r, "isolated")
  /\ UNCHANGED <<tables, store>>

CopySource(r, o) == LET v == Command[o].version IN
  /\ At(r, o, "copying") /\ object[v] # {}
  /\ isolated' = [isolated EXCEPT ![v] = TRUE]
  /\ Goto(r, "removing")
  /\ UNCHANGED <<tables, object, granted, clock, lost>>

RemoveSource(r, o) == LET v == Command[o].version IN
  /\ At(r, o, "removing")
  /\ object' = [object EXCEPT ![v] = {}]
  /\ Goto(r, "isolated")
  /\ UNCHANGED <<tables, isolated, granted, clock, lost>>

\* Mutant: a version already quarantined is not returned early.
QuarantinableAgain(v) == status[v] \in {"quarantine_pending", "quarantined"}

Quarantinable(v) == status[v] = "quarantine_pending"

CompleteQuarantine(r, o) == LET v == Command[o].version IN
  /\ At(r, o, "isolated") /\ Quarantinable(v)
  /\ Becomes(v, "quarantined") /\ Emits(v, "quarantined")
  /\ EndRequest(r)
  /\ UNCHANGED <<content, session, link, receipt, store>>

-----------------------------------------------------------------------------
(* cleanupUploadSession *)

\* A session still running is left alone; a cleaned one is an answer.
BeginCleanup(r, o) == LET v == Command[o].version IN
  /\ session[v] \notin {"absent", "cleaned"}
  /\ session[v] = "created" => clock[v] # "open"
  /\ BeginRequest(r, o, "cleanup", "cleaning", {})
  /\ UNCHANGED <<tables, store>>

Abandonable(v) == session[v] \in {"created", "cleanup_pending"}

\* cleanupSession: the version follows its session unless it was completed.
AbandonSession(r, o) == LET v == Command[o].version IN
  /\ At(r, o, "cleaning")
  /\ IF receipt[o] = "none"
       THEN /\ Abandonable(v)
            /\ SessionBecomes(v, "cleanup_pending") /\ Receives(o, "done")
            /\ IF status[v] \in {"awaiting_upload", "cleanup_pending"}
                 THEN Becomes(v, "cleanup_pending") ELSE UNCHANGED status
       ELSE UNCHANGED <<status, session, receipt>>
  /\ Goto(r, "erasing")
  /\ UNCHANGED <<content, link, events, store>>

EraseObject(r, o) ==
  /\ At(r, o, "erasing")
  /\ object' = [object EXCEPT ![Command[o].version] = {}]
  /\ Goto(r, "erased")
  /\ UNCHANGED <<tables, isolated, granted, clock, lost>>

\* completeCleanup: version and session end together.
CompleteCleanup(r, o) == LET v == Command[o].version IN
  /\ At(r, o, "erased")
  /\ session[v] = "cleanup_pending" /\ status[v] = "cleanup_pending"
  /\ Becomes(v, "deleted") /\ SessionBecomes(v, "cleaned")
  /\ EndRequest(r)
  /\ UNCHANGED <<content, link, receipt, events, store>>

-----------------------------------------------------------------------------
(* reconcileContentVersion, linkResource, unlinkResource *)

\* The inspection asks for no status.
InspectContent(r, o) == LET v == Command[o].version IN
  /\ status[v] # "absent" /\ receipt[o] = "none"
  /\ BeginRequest(r, o, "reconcile", "observed", object[v])
  /\ UNCHANGED <<tables, store>>

\* markReconciled: what the inspection saw meets the status of now.
MarkReconciled(r, o) == LET v == Command[o].version IN
  /\ At(r, o, "observed") /\ receipt[o] = "none"
  /\ IF saw[r] = {} /\ status[v] \in {"pending_scan", "available"}
       THEN Becomes(v, "object_missing") ELSE UNCHANGED status
  /\ Receives(o, "done")
  /\ EndRequest(r)
  /\ UNCHANGED <<content, session, link, events, store>>

LinkResource(o) == LET v == Command[o].version IN
  /\ Command[o].kind = "link" /\ receipt[o] = "none"
  /\ status[v] = "available" /\ link[v] = "none"
  /\ link' = [link EXCEPT ![v] = "active"]
  /\ Receives(o, "done") /\ Emits(v, "linked")
  /\ UNCHANGED <<status, content, session, store, pc, hand, saw>>

UnlinkResource(o) == LET v == Command[o].version IN
  /\ Command[o].kind = "unlink" /\ receipt[o] = "none" /\ link[v] = "active"
  /\ link' = [link EXCEPT ![v] = "removed"]
  /\ Receives(o, "done") /\ Emits(v, "unlinked")
  /\ UNCHANGED <<status, content, session, store, pc, hand, saw>>

-----------------------------------------------------------------------------
Step(r, o) ==
  \/ CreateUpload(r, o) \/ GrantUpload(r, o)
  \/ InspectUpload(r, o) \/ StampCompletion(r, o) \/ CommitCompletion(r, o)
  \/ \E outcome \in ScanOutcomes : ScanObject(r, o, outcome)
  \/ RecordScan(r, o) \/ RecordScanReplayed(r, o) \/ ResumeQuarantine(r, o)
  \/ InspectSource(r, o) \/ CopySource(r, o) \/ RemoveSource(r, o)
  \/ CompleteQuarantine(r, o)
  \/ BeginCleanup(r, o) \/ AbandonSession(r, o) \/ EraseObject(r, o) \/ CompleteCleanup(r, o)
  \/ InspectContent(r, o) \/ MarkReconciled(r, o)

Environment(v) == Lose(v) \/ Tick(v) \/ \E b \in Bytes : Put(v, b)

Next ==
  \/ \E r \in Requests, o \in Operations : Step(r, o)
  \/ \E r \in Requests : Leave(r)
  \/ \E o \in Operations : LinkResource(o) \/ UnlinkResource(o)
  \/ \E v \in Versions : Environment(v)

Spec == Init /\ [][Next]_vars

-----------------------------------------------------------------------------
(* Properties *)

\* A session and its content version never disagree: a clean-up and a completion
\* that race over one session (completeUpload, cleanupSession, completeCleanup)
\* leave both rows waiting, both completed, or both abandoned.
SessionAndContentAgree == \A v \in Versions :
  /\ session[v] = "absent" <=> status[v] = "absent"
  /\ session[v] = "created" <=> status[v] = "awaiting_upload"
  /\ session[v] = "cleanup_pending" <=> status[v] = "cleanup_pending"
  /\ session[v] = "cleaned" <=> status[v] = "deleted"

\* A request about to delete an object in cleanupUploadSession, however late and
\* however often it is retried, deletes that of an abandoned version: a completed
\* upload never loses its object to the clean-up.
OnlyAbandonedIsErased == \A r \in Requests, o \in Operations :
  pc[r] = "erasing" /\ o \in hand[r] =>
    status[Command[o].version] \in {"cleanup_pending", "deleted"}

\* A version is quarantined only when its copy is in quarantine, whatever crashed
\* between copyObject, deleteObject and completeQuarantine and whoever resumed it.
QuarantinedIsIsolated == \A v \in Versions : status[v] = "quarantined" => isolated[v]

Uploaded(v) == status[v] \in {"pending_scan", "available", "quarantine_pending",
                              "quarantined", "object_missing"}

\* The lifecycle events in outbox_events tell the history of the rows: one per
\* transition, whatever was retried or scanned twice, and links only of versions
\* that were announced as available.
EventsTellHistory == \A v \in Versions :
  /\ events[<<v, "completed">>] = IF Uploaded(v) THEN 1 ELSE 0
  /\ events[<<v, "quarantined">>] = IF status[v] = "quarantined" THEN 1 ELSE 0
  /\ status[v] = "available" => events[<<v, "available">>] = 1
  /\ events[<<v, "available">>] = 1 => status[v] \in {"available", "object_missing"}
  /\ events[<<v, "linked">>] = IF link[v] = "none" THEN 0 ELSE 1
  /\ events[<<v, "unlinked">>] = IF link[v] = "removed" THEN 1 ELSE 0
  /\ link[v] # "none" => events[<<v, "available">>] = 1

Successors(s) ==
  CASE s = "available" -> {"object_missing"}
    [] s = "quarantine_pending" -> {"quarantined"}
    [] s = "cleanup_pending" -> {"deleted"}
    [] s \in {"quarantined", "object_missing", "deleted"} -> {}
    [] OTHER -> Statuses

\* A verdict is final: a second scan, a late reconciliation or a retried clean-up
\* that acts on an older look at the row never takes a version out of a settled
\* status (recordScan, markReconciled, cleanupSession).
SettledStays ==
  [][\A v \in Versions : status'[v] \in {status[v]} \cup Successors(status[v])]_status

\* docs/03-模块说明/文件中心.md:61 "a completed binary object cannot be overwritten
\* in place": what the store holds for a completed version is what its completion
\* inspected.
CompletedIsImmutable == \A v \in Versions :
  status[v] \in {"pending_scan", "available"} /\ object[v] # {} => object[v] = content[v]

\* README.md:15 "Reconciliation changes only stable states where the original
\* object must exist": a version is declared missing only if its object was lost.
MissingWasLost == \A v \in Versions : status[v] = "object_missing" => lost[v]

\* Rows, store and requests under way: what no order of retries, crashes and
\* clean-ups may break.
VersionsAreSound ==
  TypeOK /\ SessionAndContentAgree /\ OnlyAbandonedIsErased /\ QuarantinedIsIsolated
=============================================================================
