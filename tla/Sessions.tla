------------------------------ MODULE Sessions ------------------------------
(***************************************************************************)
(* One login and the browser session it makes, as apps/api/src/auth keeps  *)
(* them in Redis: the login transaction, the session record under the      *)
(* index of its credential, the family key that points to that index, and  *)
(* the lease a refresh takes.  Keys of different logins never meet, so one *)
(* login is an instance.                                                   *)
(*                                                                         *)
(* Every Lua script is one step.  A session has one credential for each    *)
(* revision, so a credential is its revision number; credentials are       *)
(* random and a browser only has those it was sent.                        *)
(***************************************************************************)
EXTENDS Naturals

CONSTANTS
  Requests,       \* HTTP requests under way at one time, on any API process
  MaxRefreshes,   \* bound: rotations of the session
  MaxFaults       \* bound: requests that die or whose call throws

ASSUME SessionsAssumption == MaxRefreshes \in Nat /\ MaxFaults \in Nat

VARIABLES
  login,          \* what the browser knows of the login transaction
  transaction,    \* the login transaction is stored
  record,         \* revisions with a record under their index
  family,         \* the revision the family key points to
  lease,          \* the owner of the refresh lease
  pc, held,       \* requests: control point, credential at work
  (* observation: credentials browsers were sent, revisions in the audit    *)
  (* log, credentials whose answer was lost, holders whose lease ran out,   *)
  (* the session was ended                                                  *)
  given, audited, lost, overrun, ended, faults

redis == <<transaction, record, family, lease>>
requests == <<pc, held>>
vars == <<login, redis, requests, given, audited, lost, overrun, ended, faults>>

Points == {"idle", "starting", "exchanging", "verifying", "looked", "leased", "refreshing",
           "auditing", "discarding", "releasing", "failing", "answering", "leaving", "revoking"}

TypeOK ==
  /\ login \in {"none", "begun", "offered"}
  /\ transaction \in BOOLEAN /\ ended \in BOOLEAN
  /\ record \in SUBSET Nat /\ family \in SUBSET Nat
  /\ lease \in SUBSET Requests /\ overrun \in SUBSET Requests
  /\ pc \in [Requests -> Points] /\ held \in [Requests -> Nat]
  /\ given \in SUBSET Nat /\ audited \in SUBSET Nat /\ lost \in SUBSET Nat
  /\ faults \in Nat

Init ==
  /\ login = "none" /\ transaction = FALSE /\ ended = FALSE
  /\ record = {} /\ family = {} /\ lease = {} /\ overrun = {}
  /\ pc = [r \in Requests |-> "idle"] /\ held = [r \in Requests |-> 0]
  /\ given = {} /\ audited = {} /\ lost = {} /\ faults = 0

At(r, from, to) == pc[r] = from /\ pc' = [pc EXCEPT ![r] = to]

\* A refresh holds its lease from the acquisition to its finally block; the
\* audit of revision 0 is the login's.
Holds(r) == \/ pc[r] \in {"leased", "refreshing", "failing", "releasing"}
            \/ pc[r] \in {"auditing", "discarding"} /\ held[r] # 0

\* The request made the credential it holds and has not answered yet.
Carries(r) == pc[r] \in {"auditing", "discarding", "releasing", "answering"}

-----------------------------------------------------------------------------
(* The scripts *)

\* touchScript finds the record and the family key agrees.  Past the absolute
\* end of the session it deletes both, which Expire does.
Found(c) == c \in record /\ family = {c}

\* deleteScript
Delete(c) ==
  /\ record' = record \ {c}
  /\ family' = IF c \in record THEN family \ {c} ELSE family
  /\ ended' = IF c \in record THEN TRUE ELSE ended

\* rotateScript; the index of the next credential is fresh.
RotateSession(c) ==
  /\ Found(c)
  /\ record' = (record \ {c}) \cup {c + 1} /\ family' = {c + 1}

-----------------------------------------------------------------------------
(* Login *)

\* beginLogin stores the transaction before it is audited ...
BeginLogin(r) ==
  /\ login = "none" /\ login' = "begun"
  /\ At(r, "idle", "starting")
  /\ transaction' = TRUE
  /\ UNCHANGED <<record, family, lease, held, given, audited, lost, overrun, ended, faults>>

\* ... and redirects the browser, or takes the transaction back.
OfferLogin(r) ==
  /\ At(r, "starting", "idle")
  /\ \/ login' = "offered" /\ UNCHANGED transaction
     \/ transaction' = FALSE /\ UNCHANGED login
  /\ UNCHANGED <<record, family, lease, held, given, audited, lost, overrun, ended, faults>>

\* completeLogin consumes the transaction (GETDEL).  The browser may repeat its
\* callback; without a transaction it is refused and nothing changes.
Callback(r) ==
  /\ login = "offered" /\ transaction
  /\ At(r, "idle", "exchanging")
  /\ transaction' = FALSE
  /\ UNCHANGED <<login, record, family, lease, held, given, audited, lost, overrun, ended, faults>>

\* The provider exchanges the code, its token is verified and the session is
\* created; or one of them fails.
Exchange(r) ==
  /\ \/ /\ At(r, "exchanging", "auditing")
        /\ record' = record \cup {0} /\ family' = {0}
        /\ held' = [held EXCEPT ![r] = 0]
     \/ At(r, "exchanging", "idle") /\ UNCHANGED <<record, family, held>>
  /\ UNCHANGED <<login, transaction, lease, given, audited, lost, overrun, ended, faults>>

\* The TTL of the login transaction.
TransactionExpires ==
  /\ transaction /\ transaction' = FALSE
  /\ UNCHANGED <<login, record, family, lease, requests, given, audited, lost, overrun, ended, faults>>

-----------------------------------------------------------------------------
(* What a new credential goes through *)

\* The login or the refresh is recorded, or the audit fails (its commit may
\* have happened) and the new session must go.
Audit(r) ==
  /\ \/ /\ At(r, "auditing", IF held[r] = 0 THEN "answering" ELSE "releasing")
        /\ audited' = audited \cup {held[r]}
     \/ /\ At(r, "auditing", "discarding")
        /\ audited' \in {audited, audited \cup {held[r]}}
  /\ UNCHANGED <<login, redis, held, given, lost, overrun, ended, faults>>

\* Mutant: the session that could not be audited stays.
DiscardNothing(r) ==
  /\ At(r, "discarding", IF held[r] = 0 THEN "idle" ELSE "failing")
  /\ UNCHANGED <<login, redis, held, given, audited, lost, overrun, ended, faults>>

\* deleteSession of the credential that was not audited.
Discard(r) ==
  /\ At(r, "discarding", IF held[r] = 0 THEN "idle" ELSE "failing")
  /\ Delete(held[r])
  /\ UNCHANGED <<login, transaction, lease, held, given, audited, lost, overrun, faults>>

\* The answer reaches the browser.
Answer(r) ==
  /\ At(r, "answering", "idle")
  /\ given' = given \cup {held[r]}
  /\ UNCHANGED <<login, redis, held, audited, lost, overrun, ended, faults>>

-----------------------------------------------------------------------------
(* Requests with a credential; a stale tab may still send an old one *)

\* getSession of a request, which then verifies the access token
\* (currentSession, resolvePrincipal), refreshes or logs out.
Look(r, c) ==
  /\ c \in given /\ Found(c)
  /\ \E to \in {"verifying", "looked", "leaving"} : At(r, "idle", to)
  /\ held' = [held EXCEPT ![r] = c]
  /\ UNCHANGED <<login, redis, given, audited, lost, overrun, ended, faults>>

\* loadVerifiedSession: a token that cannot be decrypted or is refused ends the
\* session of the index that was looked up.
Verify(r) ==
  /\ At(r, "verifying", "idle")
  /\ \/ UNCHANGED <<record, family, ended>>
     \/ Delete(held[r])
  /\ UNCHANGED <<login, transaction, lease, held, given, audited, lost, overrun, faults>>

\* SET NX of the lease; a second refresh is told that one is in progress.
Acquire(r) ==
  /\ \/ lease = {} /\ lease' = {r} /\ At(r, "looked", "leased")
     \/ lease # {} /\ UNCHANGED lease /\ At(r, "looked", "idle")
  /\ UNCHANGED <<login, transaction, record, family, held, given, audited, lost, overrun, ended, faults>>

\* The session is read again under the lease.
Recheck(r) ==
  /\ \/ Found(held[r]) /\ At(r, "leased", "refreshing")
     \/ ~Found(held[r]) /\ At(r, "leased", "failing")
  /\ UNCHANGED <<login, redis, held, given, audited, lost, overrun, ended, faults>>

\* The provider refreshes the tokens, the new one is verified and the session
\* rotates to the next credential ...
Rotate(r) ==
  /\ held[r] < MaxRefreshes
  /\ At(r, "refreshing", "auditing")
  /\ RotateSession(held[r])
  /\ held' = [held EXCEPT ![r] = @ + 1]
  /\ UNCHANGED <<login, transaction, lease, given, audited, lost, overrun, ended, faults>>

\* ... unless the provider, the verification or the rotation refuses.
RefreshFails(r) ==
  /\ At(r, "refreshing", "failing")
  /\ UNCHANGED <<login, redis, held, given, audited, lost, overrun, ended, faults>>

Finished(r) == \/ At(r, "releasing", "answering")
               \/ At(r, "failing", "idle")

\* releaseLeaseScript, in the finally block: only the owner's lease goes.
Release(r) ==
  /\ Finished(r)
  /\ lease' = lease \ {r}
  /\ overrun' = overrun \ {r}
  /\ UNCHANGED <<login, transaction, record, family, held, given, audited, lost, ended, faults>>

\* A release that fails is ignored: the lease stays until it runs out.
ReleaseFails(r) ==
  /\ faults < MaxFaults /\ faults' = faults + 1
  /\ Finished(r)
  /\ overrun' = overrun \ {r}
  /\ UNCHANGED <<login, redis, held, given, audited, lost, ended>>

\* The log-out is recorded before the session is touched, or refused.
AuditLogout(r) ==
  /\ At(r, "leaving", "revoking") \/ At(r, "leaving", "idle")
  /\ UNCHANGED <<login, redis, held, given, audited, lost, overrun, ended, faults>>

\* Mutant: the record of the request's own credential is deleted.
RevokeByIndex(r) ==
  /\ At(r, "revoking", "idle")
  /\ record' = record \ {held[r]} /\ family' = family \ {held[r]}
  /\ ended' = TRUE
  /\ UNCHANGED <<login, transaction, lease, held, given, audited, lost, overrun, faults>>

\* revokeScript follows the family key, so it also ends a session that has been
\* rotated since the log-out looked at it.
Revoke(r) ==
  /\ At(r, "revoking", "idle")
  /\ record' = record \ family /\ family' = {}
  /\ ended' = TRUE
  /\ UNCHANGED <<login, transaction, lease, held, given, audited, lost, overrun, faults>>

-----------------------------------------------------------------------------
(* Time and failures *)

\* The idle or the absolute TTL; both keys are always given the same one.
Expire ==
  /\ record # {} /\ record' = {} /\ family' = {} /\ ended' = TRUE
  /\ UNCHANGED <<login, transaction, lease, requests, given, audited, lost, overrun, faults>>

\* The TTL of the lease, perhaps under a refresh that still waits for the
\* provider: nothing renews it.
LeaseLapses ==
  /\ lease # {} /\ lease' = {}
  /\ overrun' = overrun \cup {r \in lease : Holds(r)}
  /\ UNCHANGED <<login, transaction, record, family, requests, given, audited, lost, ended, faults>>

Losing(r) == lost' = IF Carries(r) THEN lost \cup {held[r]} ELSE lost

\* A call inside the try block of a refresh throws, its effect done or not.
Throws(r) ==
  /\ faults < MaxFaults /\ faults' = faults + 1
  /\ Holds(r) /\ \E from \in {"leased", "auditing", "discarding"} : At(r, from, "failing")
  /\ Losing(r)
  /\ UNCHANGED <<login, redis, held, given, audited, overrun, ended>>

\* The process or the connection of the request dies, or a call outside that
\* block throws (the lease may be taken then and nobody releases it).
Dies(r) ==
  /\ faults < MaxFaults /\ faults' = faults + 1
  /\ pc[r] # "idle" /\ pc' = [pc EXCEPT ![r] = "idle"]
  /\ \/ UNCHANGED lease
     \/ pc[r] = "looked" /\ lease = {} /\ lease' = {r}
  /\ Losing(r)
  /\ overrun' = overrun \ {r}
  /\ UNCHANGED <<login, transaction, record, family, held, given, audited, ended>>

-----------------------------------------------------------------------------
Refreshing(r) ==
  \/ Acquire(r) \/ Recheck(r) \/ Rotate(r) \/ RefreshFails(r)
  \/ Release(r) \/ ReleaseFails(r) \/ Throws(r)

Next ==
  \/ \E r \in Requests :
       \/ BeginLogin(r) \/ OfferLogin(r) \/ Callback(r) \/ Exchange(r)
       \/ Audit(r) \/ Discard(r) \/ Answer(r)
       \/ \E c \in given : Look(r, c)
       \/ Verify(r) \/ Refreshing(r)
       \/ AuditLogout(r) \/ Revoke(r) \/ Dies(r)
  \/ TransactionExpires \/ Expire \/ LeaseLapses

Spec == Init /\ [][Next]_vars

-----------------------------------------------------------------------------
(* Properties *)

\* At most one credential works, the family key points to its record, and
\* neither key is there without the other, whatever rotations, revocations and
\* deletions cross: rotateScript and deleteScript keep both keys together.
OneCredential ==
  /\ record = family
  /\ \A c, d \in record : c = d

\* A session that was logged out, refused, discarded or that expired stays ended:
\* no refresh under way and no repeated callback brings it back, and a log-out
\* reaches the session even if it rotated meanwhile.
EndedIsFinal == ended => record = {}

\* Fail closed: a working credential is in the audit log, unless its request is
\* about to record or discard it, or failed in between.
AuditedOrPending ==
  record \subseteq audited \cup lost
    \cup {held[r] : r \in {q \in Requests : pc[q] \in {"auditing", "discarding"}}}

\* While its lease lasts a refresh is alone at the provider: nobody else holds
\* the lease, and a late release does not give another's away.
LeaseProtects ==
  \A r, q \in Requests \ overrun : Holds(r) /\ Holds(q) => r = q

\* A working session is never stranded by the code's own doing: its credential was
\* sent to the browser, or is on its way, or an answer was lost.
WithinReach ==
  record \subseteq given \cup lost \cup {held[r] : r \in {q \in Requests : Carries(q)}}

\* One credential, one refresh, and no way back from the end.
SessionIsSound == TypeOK /\ OneCredential /\ EndedIsFinal /\ LeaseProtects

\* Every working credential is on record and within its browser's reach.
CredentialsAreKept == AuditedOrPending /\ WithinReach
=============================================================================
