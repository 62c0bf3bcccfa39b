----------------------------- MODULE AuditTrail -----------------------------
(***************************************************************************)
(* The audit: facts appended once per operation (service.ts record,        *)
(* postgres-store.ts append) and the sensitive read, which is itself a     *)
(* fact of the trail before anything is disclosed (service.ts              *)
(* readSensitive).                                                         *)
(*                                                                         *)
(* A fact is its meaning: what its fingerprint covers, which is neither    *)
(* the time nor the audit id nor the trace.  The authorizer is external    *)
(* and may answer differently each time.  A transaction is one step; its   *)
(* answer may be lost, and callers retry under the same operation id or    *)
(* reuse it for something else.                                            *)
(***************************************************************************)
CONSTANTS
  AuditIds,          \* ids of records, given by a caller or generated
  AuditOperations,   \* operation ids
  Meanings,          \* what other modules record, <<action, resource, result>>
  AuditCallers       \* concurrent requests

VARIABLES
  records,         \* audit.records: id -> [operation, meaning]
  auditReceipts,   \* audit.operation_receipts: operation -> [id, meaning]
  auditCalls       \* caller -> where its sensitive read is

auditVars == <<records, auditReceipts, auditCalls>>

NoAuditCall == [at |-> "idle"]

AuditInit ==
  /\ records = [i \in {} |-> <<>>]
  /\ auditReceipts = [o \in {} |-> <<>>]
  /\ auditCalls = [k \in AuditCallers |-> NoAuditCall]

ReadingAt(k, place) == auditCalls[k].at = place
ReadingEnds(k) == auditCalls' = [auditCalls EXCEPT ![k] = NoAuditCall]

-----------------------------------------------------------------------------
(* append, under the lock of the operation.                                *)

OnRecord(o) == o \in DOMAIN auditReceipts
Replays(o, meaning) == OnRecord(o) /\ auditReceipts[o].meaning = meaning

\* A new operation under an id that is free.
Inserts(o, meaning, id) ==
  /\ ~OnRecord(o)
  /\ id \notin DOMAIN records
  /\ records' = [i \in DOMAIN records \cup {id} |->
                   IF i = id THEN [operation |-> o, meaning |-> meaning] ELSE records[i]]
  /\ auditReceipts' = [p \in DOMAIN auditReceipts \cup {o} |->
                   IF p = o THEN [id |-> id, meaning |-> meaning] ELSE auditReceipts[p]]

Appends(o, meaning, id) ==
  \/ Inserts(o, meaning, id)
  \/ Replays(o, meaning) /\ UNCHANGED <<records, auditReceipts>>

\* record, called by another module; a conflict changes nothing.
RecordFact(o, meaning, id) ==
  /\ Inserts(o, meaning, id)
  /\ UNCHANGED auditCalls

-----------------------------------------------------------------------------
(* readSensitive.                                                          *)

ReadMeaning(target, result) == <<"read_sensitive", target, result>>

ReadSensitive(k, o, target) ==
  /\ ReadingAt(k, "idle")
  /\ auditCalls' = [auditCalls EXCEPT ![k] = [at |-> "deciding", operation |-> o, target |-> target]]
  /\ UNCHANGED <<records, auditReceipts>>

ReadAllowed(k) ==
  /\ ReadingAt(k, "deciding")
  /\ auditCalls' = [auditCalls EXCEPT ![k].at = "finding"]
  /\ UNCHANGED <<records, auditReceipts>>

\* Denied, and the record of it kept; or no record of it, and another error.
ReadDenied(k) ==
  LET call == auditCalls[k] IN
    /\ ReadingAt(k, "deciding")
    /\ \/ \E id \in AuditIds : Appends(call.operation, ReadMeaning(call.target, "denied"), id)
       \/ UNCHANGED <<records, auditReceipts>>
    /\ ReadingEnds(k)

Find(k) ==
  /\ ReadingAt(k, "finding")
  /\ auditCalls[k].target \in DOMAIN records
  /\ auditCalls' = [auditCalls EXCEPT ![k] =
       [at |-> "found", operation |-> @.operation, target |-> @.target,
        record |-> records[auditCalls[k].target]]]
  /\ UNCHANGED <<records, auditReceipts>>

\* No such record, or a store that fails: a failed access.
FindFails(k) ==
  LET call == auditCalls[k] IN
    /\ ReadingAt(k, "finding")
    /\ \/ \E id \in AuditIds : Appends(call.operation, ReadMeaning(call.target, "failed"), id)
       \/ UNCHANGED <<records, auditReceipts>>
    /\ ReadingEnds(k)

\* A defect: an operation that is on record at all is taken for a replay.
DiscloseOnAnyReceipt(k) ==
  LET call == auditCalls[k] IN
    /\ ReadingAt(k, "found")
    /\ \E id \in AuditIds :
         \/ Inserts(call.operation, ReadMeaning(call.target, "succeeded"), id)
         \/ OnRecord(call.operation) /\ UNCHANGED <<records, auditReceipts>>
    /\ auditCalls' = [auditCalls EXCEPT ![k].at = "disclosed"]

\* The success is appended, then the record is disclosed.
Disclose(k) ==
  LET call == auditCalls[k] IN
    /\ ReadingAt(k, "found")
    /\ \E id \in AuditIds : Appends(call.operation, ReadMeaning(call.target, "succeeded"), id)
    /\ auditCalls' = [auditCalls EXCEPT ![k].at = "disclosed"]

\* A conflict, a failing store or a lost answer: nothing is disclosed.
DiscloseFails(k) ==
  LET call == auditCalls[k] IN
    /\ ReadingAt(k, "found")
    /\ \/ \E id \in AuditIds : Appends(call.operation, ReadMeaning(call.target, "succeeded"), id)
       \/ UNCHANGED <<records, auditReceipts>>
    /\ ReadingEnds(k)

Told(k) ==
  /\ ReadingAt(k, "disclosed")
  /\ ReadingEnds(k)
  /\ UNCHANGED <<records, auditReceipts>>

AuditNext ==
  \/ \E o \in AuditOperations : \E m \in Meanings : \E id \in AuditIds : RecordFact(o, m, id)
  \/ \E k \in AuditCallers :
       \/ \E o \in AuditOperations : \E target \in AuditIds : ReadSensitive(k, o, target)
       \/ ReadAllowed(k) \/ ReadDenied(k) \/ Find(k) \/ FindFails(k)
       \/ Disclose(k) \/ DiscloseFails(k) \/ Told(k)

AuditSpec == AuditInit /\ [][AuditNext]_auditVars

-----------------------------------------------------------------------------
(* Properties.                                                             *)

\* "durably records denied, failed, or successful access before data can escape"
\* (audit README.md): whoever is shown a record is in the trail as having been
\* shown it, also when the operation id was refused or failed before, or was used
\* by somebody else for something else; and what is shown is what was recorded.
DisclosureIsRecorded ==
  \A k \in AuditCallers :
    ReadingAt(k, "disclosed") =>
      LET call == auditCalls[k] IN
        /\ \E i \in DOMAIN records :
             records[i] = [operation |-> call.operation,
                           meaning |-> ReadMeaning(call.target, "succeeded")]
        /\ records[call.target] = call.record

\* An operation is one fact: receipts and records stand for each other
\* (postgres-store.ts:17-33).
OneFactPerOperation ==
  /\ \A o \in DOMAIN auditReceipts :
       /\ auditReceipts[o].id \in DOMAIN records
       /\ records[auditReceipts[o].id] = [operation |-> o, meaning |-> auditReceipts[o].meaning]
  /\ \A i \in DOMAIN records : auditReceipts[records[i].operation].id = i

TrailIsSound == DisclosureIsRecorded /\ OneFactPerOperation

=============================================================================
