--------------------------- MODULE Notifications ---------------------------
(***************************************************************************)
(* The notification center: template releases that never change, intents   *)
(* accepted once per producer and key together with the notifications of   *)
(* their recipients, and the read and archive marks of a recipient         *)
(* (service.ts, postgres-store.ts).                                        *)
(*                                                                         *)
(* An intent is its key and the id its producer gave it; the resolver, the *)
(* preferences and the audit port are external and may answer differently  *)
(* each time, or fail.  A transaction is one step.  Producers retry, and   *)
(* two of them may use one intent id.                                      *)
(***************************************************************************)
CONSTANTS
  IntentKeys,          \* producer and idempotency key
  IntentsOf,           \* key -> the intents sent with it: [id, release]
  Releases,            \* template key and version
  Templates,           \* contents a release may be published with
  Resolutions,         \* what the resolver and the preferences answer: [to, suppressed]
  Marks,               \* the columns a recipient may set: read_at, archived_at
  NotificationCallers  \* concurrent requests

ASSUME NotificationAssumption ==
  \A key \in IntentKeys : \A intent \in IntentsOf[key] : intent.release \in Releases

VARIABLES
  templates,        \* template_releases: release -> its content
  intents,          \* notification_intents: key -> [intent, result]
  notices,          \* in_app_notifications: <<intent id, recipient>> -> its row
  noticeCalls,      \* caller -> where its request is
  noticeFacts       \* external: the keys whose success is in the audit

notificationVars == <<templates, intents, notices, noticeCalls, noticeFacts>>

NoNoticeCall == [at |-> "idle"]
Unpublished == "none"

NotificationInit ==
  /\ templates = [r \in Releases |-> Unpublished]
  /\ intents = [i \in {} |-> <<>>]
  /\ notices = [n \in {} |-> <<>>]
  /\ noticeCalls = [k \in NotificationCallers |-> NoNoticeCall]
  /\ noticeFacts = {}

NoticeAt(k, place) == noticeCalls[k].at = place
NoticeEnds(k) == noticeCalls' = [noticeCalls EXCEPT ![k] = NoNoticeCall]

\* publishTemplate: a release published again with other content is a conflict.
PublishTemplate(release, content) ==
  /\ templates[release] \in {Unpublished, content}
  /\ templates' = [templates EXCEPT ![release] = content]
  /\ UNCHANGED <<intents, notices, noticeCalls, noticeFacts>>

-----------------------------------------------------------------------------
(* submitIntent.                                                           *)

\* Authorized, and the attempt on record.
Submit(k, key, intent) ==
  /\ NoticeAt(k, "idle")
  /\ noticeCalls' = [noticeCalls EXCEPT ![k] = [at |-> "finding", key |-> key, intent |-> intent]]
  /\ UNCHANGED <<templates, intents, notices, noticeFacts>>

IntentKnown(key) == key \in DOMAIN intents

\* The intent is known: its first result is told again, or it is a conflict.
FoundIntent(k) ==
  LET call == noticeCalls[k] IN
    /\ NoticeAt(k, "finding")
    /\ IntentKnown(call.key)
    /\ intents[call.key].intent = call.intent
    /\ noticeCalls' = [noticeCalls EXCEPT ![k] =
         [at |-> "finishing", key |-> call.key, intent |-> call.intent,
          result |-> intents[call.key].result]]
    /\ UNCHANGED <<templates, intents, notices, noticeFacts>>

\* The template is read and the recipients are resolved, each with a preference.
Resolve(k) ==
  LET call == noticeCalls[k] IN
    /\ NoticeAt(k, "finding")
    /\ ~IntentKnown(call.key)
    /\ templates[call.intent.release] # Unpublished
    /\ \E r \in Resolutions :
         noticeCalls' = [noticeCalls EXCEPT ![k] =
           [at |-> "accepting", key |-> call.key, intent |-> call.intent,
            body |-> templates[call.intent.release], to |-> r.to, suppressed |-> r.suppressed]]
    /\ UNCHANGED <<templates, intents, notices, noticeFacts>>

ResultOf(call) == {<<call.intent.id, r>> : r \in call.to}

Rows(call) ==
  [n \in DOMAIN notices \cup ResultOf(call) |->
     IF n \in DOMAIN notices THEN notices[n]
     ELSE [body |-> call.body, release |-> call.intent.release,
           delivered |-> n[2] \notin call.suppressed,
           marks |-> {}]]

StoredIntent(call) ==
  [i \in DOMAIN intents \cup {call.key} |->
     IF i = call.key THEN [intent |-> call.intent, result |-> ResultOf(call)] ELSE intents[i]]

Finishing(call, result) ==
  [at |-> "finishing", key |-> call.key, intent |-> call.intent, result |-> result]

\* A defect: what was resolved now is told, whatever was accepted before.
AcceptAsResolved(k) ==
  LET call == noticeCalls[k] IN
    /\ NoticeAt(k, "accepting")
    /\ IntentKnown(call.key) => intents[call.key].intent = call.intent
    /\ IF IntentKnown(call.key) THEN UNCHANGED <<intents, notices>>
       ELSE /\ \A i \in DOMAIN intents : intents[i].intent.id # call.intent.id
            /\ intents' = StoredIntent(call) /\ notices' = Rows(call)
    /\ noticeCalls' = [noticeCalls EXCEPT ![k] = Finishing(call, ResultOf(call))]
    /\ UNCHANGED <<templates, noticeFacts>>

\* acceptIntent, under the lock of the key: who comes second gets the first's
\* result; an intent id in use under another key breaks the transaction.
AcceptIntent(k) ==
  LET call == noticeCalls[k] IN
    /\ NoticeAt(k, "accepting")
    /\ IF IntentKnown(call.key)
       THEN /\ intents[call.key].intent = call.intent
            /\ noticeCalls' = [noticeCalls EXCEPT ![k] = Finishing(call, intents[call.key].result)]
            /\ UNCHANGED <<intents, notices>>
       ELSE /\ \A i \in DOMAIN intents : intents[i].intent.id # call.intent.id
            /\ intents' = StoredIntent(call)
            /\ notices' = Rows(call)
            /\ \/ noticeCalls' = [noticeCalls EXCEPT ![k] = Finishing(call, ResultOf(call))]
               \/ NoticeEnds(k)
    /\ UNCHANGED <<templates, noticeFacts>>

\* A conflict, an unknown template, an unresolved recipient or a failing store: a
\* failure is recorded, or not even that, and the producer sees an error.
SubmitFails(k) ==
  /\ noticeCalls[k].at \in {"finding", "accepting"}
  /\ NoticeEnds(k)
  /\ UNCHANGED <<templates, intents, notices, noticeFacts>>

\* The success is on record before it is told; if that fails, the producer sees an
\* error.
FinishSubmit(k) ==
  LET call == noticeCalls[k] IN
    /\ NoticeAt(k, "finishing")
    /\ \/ /\ noticeFacts' = noticeFacts \cup {call.key}
          /\ noticeCalls' = [noticeCalls EXCEPT ![k].at = "told"]
       \/ NoticeEnds(k) /\ UNCHANGED noticeFacts
    /\ UNCHANGED <<templates, intents, notices>>

SubmitEnds(k) ==
  /\ NoticeAt(k, "told")
  /\ NoticeEnds(k)
  /\ UNCHANGED <<templates, intents, notices, noticeFacts>>

-----------------------------------------------------------------------------
(* markRead and archive.                                                   *)

\* A suppressed notification is not found.
ReadNotice(k, n, mark) ==
  /\ NoticeAt(k, "idle")
  /\ notices[n].delivered
  /\ noticeCalls' = [noticeCalls EXCEPT ![k] = [at |-> "marking", notice |-> n, mark |-> mark]]
  /\ UNCHANGED <<templates, intents, notices, noticeFacts>>

\* The first mark stays.
MarkNotice(k) ==
  /\ NoticeAt(k, "marking")
  /\ notices' = [notices EXCEPT ![noticeCalls[k].notice].marks = @ \cup {noticeCalls[k].mark}]
  /\ NoticeEnds(k)
  /\ UNCHANGED <<templates, intents, noticeFacts>>

MarkFails(k) ==
  /\ NoticeAt(k, "marking")
  /\ NoticeEnds(k)
  /\ UNCHANGED <<templates, intents, notices, noticeFacts>>

NotificationNext ==
  \/ \E r \in Releases : \E t \in Templates : PublishTemplate(r, t)
  \/ \E k \in NotificationCallers :
       \/ \E key \in IntentKeys : \E intent \in IntentsOf[key] : Submit(k, key, intent)
       \/ FoundIntent(k) \/ Resolve(k) \/ AcceptIntent(k) \/ SubmitFails(k)
       \/ FinishSubmit(k) \/ SubmitEnds(k)
       \/ \E n \in DOMAIN notices : \E mark \in Marks : ReadNotice(k, n, mark)
       \/ MarkNotice(k) \/ MarkFails(k)

NotificationSpec == NotificationInit /\ [][NotificationNext]_notificationVars

-----------------------------------------------------------------------------
(* Properties.                                                             *)

\* "Concurrent duplicate requests return the original result" (notifications
\* README.md), however the recipients were resolved the second time: what is told
\* of an intent is what was stored with it, its result is exactly the
\* notifications it has, and a success is on record only for a stored intent.
IntentsAreExact ==
  /\ \A k \in NotificationCallers :
       LET call == noticeCalls[k] IN
         call.at = "told" => /\ IntentKnown(call.key)
                             /\ intents[call.key] = [intent |-> call.intent, result |-> call.result]
  /\ DOMAIN notices = UNION {intents[i].result : i \in DOMAIN intents}
  /\ \A i \in DOMAIN intents :
       intents[i].result = {n \in DOMAIN notices : n[1] = intents[i].intent.id}
  /\ noticeFacts \subseteq DOMAIN intents

\* A notification keeps the text of the release it names, whatever was published
\* since; a suppressed one is never marked (service.ts:22-23, postgres-store.ts:24-29).
NoticesAreFaithful ==
  \A n \in DOMAIN notices :
    /\ notices[n].body = templates[notices[n].release]
    /\ ~notices[n].delivered => notices[n].marks = {}

NotificationsAreExact == IntentsAreExact /\ NoticesAreFaithful

=============================================================================
