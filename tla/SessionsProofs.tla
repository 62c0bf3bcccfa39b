--------------------------- MODULE SessionsProofs ---------------------------
(***************************************************************************)
(* Proofs about a session for any number of requests, rotations and        *)
(* failures, and about the secrets behind it: the client's at Keycloak, the*)
(* keys that encrypt tokens, and the tokens of a login; then about the API *)
(* itself, its readiness, its process and its requests.                    *)
(***************************************************************************)
EXTENDS Sessions, Logins, ProtectedRequests, TLAPS

USE DEF redis, requests, At, Points

\* The session was created.
Born == record # {} \/ ended

\* A login makes one session: its transaction is consumed before the exchange,
\* one request has it, and none is left once the session was created.
Once ==
  /\ login = "none" => ~transaction /\ ~Born /\ \A r \in Requests : pc[r] = "idle"
  /\ transaction => ~Born /\ \A r \in Requests : pc[r] # "exchanging"
  /\ \A r, q \in Requests : pc[r] = "exchanging" /\ pc[q] = "exchanging" => r = q
  /\ \A r \in Requests :
       /\ pc[r] = "exchanging" => ~Born
       /\ pc[r] \in {"leaving", "revoking"} => Born

\* The lease belongs to the refresh it has not run out on.
LeaseHeld == \A r \in Requests : Holds(r) => lease = {r} \/ r \in overrun

SessionInv == TypeOK /\ Once /\ OneCredential /\ EndedIsFinal
ReachInv == AuditedOrPending /\ WithinReach

-----------------------------------------------------------------------------
(* One credential that ends once *)

\* Every step keeps the types.
LEMMA TypeKept == TypeOK /\ [Next]_vars => TypeOK'
<1> SUFFICES ASSUME TypeOK, [Next]_vars PROVE TypeOK'
  OBVIOUS
<1> USE DEF TypeOK
<1>1. ASSUME NEW r \in Requests, BeginLogin(r) PROVE TypeOK'
  BY <1>1 DEF BeginLogin
<1>2. ASSUME NEW r \in Requests, OfferLogin(r) PROVE TypeOK'
  BY <1>2 DEF OfferLogin
<1>3. ASSUME NEW r \in Requests, Callback(r) PROVE TypeOK'
  BY <1>3 DEF Callback
<1>4. ASSUME NEW r \in Requests, Exchange(r) PROVE TypeOK'
  <2>1. pc' \in [Requests -> Points] /\ held' \in [Requests -> Nat]
    BY <1>4 DEF Exchange
  <2>2. record' \subseteq record \cup {0} /\ family' \subseteq family \cup {0}
    BY <1>4 DEF Exchange
  <2>3. record' \in SUBSET Nat /\ family' \in SUBSET Nat
    BY <2>2
  <2> QED
    BY <1>4, <2>1, <2>3 DEF Exchange
<1>5. ASSUME NEW r \in Requests, Audit(r) PROVE TypeOK'
  BY <1>5 DEF Audit
<1>6. ASSUME NEW r \in Requests, Discard(r) PROVE TypeOK'
  BY <1>6 DEF Discard, Delete
<1>7. ASSUME NEW r \in Requests, Answer(r) PROVE TypeOK'
  BY <1>7 DEF Answer
<1>8. ASSUME NEW r \in Requests, Verify(r) PROVE TypeOK'
  BY <1>8 DEF Verify, Delete
<1>9. ASSUME NEW r \in Requests, AuditLogout(r) PROVE TypeOK'
  BY <1>9 DEF AuditLogout
<1>10. ASSUME NEW r \in Requests, Revoke(r) PROVE TypeOK'
  BY <1>10 DEF Revoke
<1>11. ASSUME NEW r \in Requests, Dies(r) PROVE TypeOK'
  <2>1. pc' \in [Requests -> Points] /\ lost' \in SUBSET Nat
    BY <1>11 DEF Dies, Losing
  <2>2. lease' \in SUBSET Requests /\ overrun' \in SUBSET Requests /\ faults' \in Nat
    BY <1>11 DEF Dies
  <2> QED
    BY <1>11, <2>1, <2>2 DEF Dies
<1>12. ASSUME NEW r \in Requests, NEW c \in given, Look(r, c) PROVE TypeOK'
  BY <1>12 DEF Look, Found
<1>13. ASSUME NEW r \in Requests, Refreshing(r) PROVE TypeOK'
  <2>1. CASE Acquire(r)
    BY <2>1 DEF Acquire
  <2>2. CASE Recheck(r)
    BY <2>2 DEF Recheck, Found
  <2>3. CASE Rotate(r)
    <3>1. pc' \in [Requests -> Points] /\ held' \in [Requests -> Nat]
      BY <2>3 DEF Rotate
    <3>2. record' = (record \ {held[r]}) \cup {held[r] + 1} /\ family' = {held[r] + 1}
      BY <2>3 DEF Rotate, RotateSession
    <3>3. held[r] \in Nat /\ held[r] + 1 \in Nat
      OBVIOUS
    <3>4. record' \in SUBSET Nat /\ family' \in SUBSET Nat
      BY <3>2, <3>3
    <3> QED
      BY <2>3, <3>1, <3>4 DEF Rotate
  <2>4. CASE RefreshFails(r)
    BY <2>4 DEF RefreshFails
  <2>5. CASE Release(r)
    BY <2>5 DEF Release, Finished
  <2>6. CASE ReleaseFails(r)
    BY <2>6 DEF ReleaseFails, Finished
  <2>7. CASE Throws(r)
    <3>1. pc' \in [Requests -> Points] /\ faults' \in Nat
      BY <2>7 DEF Throws
    <3>2. lost' \subseteq lost \cup {held[r]} /\ held[r] \in Nat
      BY <2>7 DEF Throws, Losing
    <3>3. lost' \in SUBSET Nat
      BY <3>2
    <3> QED
      BY <2>7, <3>1, <3>3 DEF Throws
  <2> QED
    BY <1>13, <2>1, <2>2, <2>3, <2>4, <2>5, <2>6, <2>7 DEF Refreshing
<1>14. CASE TransactionExpires
  BY <1>14 DEF TransactionExpires
<1>15. CASE Expire
  BY <1>15 DEF Expire
<1>16. CASE LeaseLapses
  BY <1>16 DEF LeaseLapses
<1>17. CASE UNCHANGED vars
  BY <1>17 DEF vars
<1> QED
  BY <1>1, <1>2, <1>3, <1>4, <1>5, <1>6, <1>7, <1>8, <1>9, <1>10, <1>11, <1>12, <1>13, <1>14, <1>15, <1>16, <1>17 DEF Next

\* Every step keeps the session's two keys together and its end final.
LEMMA SessionKept == SessionInv /\ [Next]_vars => SessionInv'
<1> SUFFICES ASSUME SessionInv, [Next]_vars PROVE SessionInv'
  OBVIOUS
<1>t. TypeOK'
  BY TypeKept DEF SessionInv
<1> SUFFICES (Once /\ OneCredential /\ EndedIsFinal)'
  BY <1>t DEF SessionInv
<1> USE DEF SessionInv, TypeOK, Once, Born, OneCredential, EndedIsFinal
<1>1. ASSUME NEW r \in Requests, BeginLogin(r) PROVE (Once /\ OneCredential /\ EndedIsFinal)'
  BY <1>1 DEF BeginLogin
<1>2. ASSUME NEW r \in Requests, OfferLogin(r) PROVE (Once /\ OneCredential /\ EndedIsFinal)'
  BY <1>2 DEF OfferLogin
<1>3. ASSUME NEW r \in Requests, Callback(r) PROVE (Once /\ OneCredential /\ EndedIsFinal)'
  BY <1>3 DEF Callback
<1>4. ASSUME NEW r \in Requests, Exchange(r) PROVE (Once /\ OneCredential /\ EndedIsFinal)'
  BY <1>4 DEF Exchange
<1>5. ASSUME NEW r \in Requests, Audit(r) PROVE (Once /\ OneCredential /\ EndedIsFinal)'
  BY <1>5 DEF Audit
<1>6. ASSUME NEW r \in Requests, Discard(r) PROVE (Once /\ OneCredential /\ EndedIsFinal)'
  BY <1>6 DEF Discard, Delete
<1>7. ASSUME NEW r \in Requests, Answer(r) PROVE (Once /\ OneCredential /\ EndedIsFinal)'
  BY <1>7 DEF Answer
<1>8. ASSUME NEW r \in Requests, Verify(r) PROVE (Once /\ OneCredential /\ EndedIsFinal)'
  <2>1. CASE UNCHANGED <<record, family, ended>>
    BY <1>8, <2>1 DEF Verify
  <2>2. CASE Delete(held[r])
    BY <1>8, <2>2 DEF Verify, Delete
  <2> QED
    BY <1>8, <2>1, <2>2 DEF Verify
<1>9. ASSUME NEW r \in Requests, AuditLogout(r) PROVE (Once /\ OneCredential /\ EndedIsFinal)'
  BY <1>9 DEF AuditLogout
<1>10. ASSUME NEW r \in Requests, Revoke(r) PROVE (Once /\ OneCredential /\ EndedIsFinal)'
  BY <1>10 DEF Revoke
<1>11. ASSUME NEW r \in Requests, Dies(r) PROVE (Once /\ OneCredential /\ EndedIsFinal)'
  BY <1>11 DEF Dies, Losing
<1>12. ASSUME NEW r \in Requests, NEW c \in given, Look(r, c) PROVE (Once /\ OneCredential /\ EndedIsFinal)'
  BY <1>12 DEF Look, Found
<1>13. ASSUME NEW r \in Requests, Refreshing(r) PROVE (Once /\ OneCredential /\ EndedIsFinal)'
  <2>1. CASE Acquire(r)
    BY <2>1 DEF Acquire
  <2>2. CASE Recheck(r)
    BY <2>2 DEF Recheck, Found
  <2>3. CASE Rotate(r)
    BY <2>3 DEF Rotate, RotateSession, Found
  <2>4. CASE RefreshFails(r)
    BY <2>4 DEF RefreshFails
  <2>5. CASE Release(r)
    BY <2>5 DEF Release, Finished
  <2>6. CASE ReleaseFails(r)
    BY <2>6 DEF ReleaseFails, Finished
  <2>7. CASE Throws(r)
    BY <2>7 DEF Throws, Losing
  <2> QED
    BY <1>13, <2>1, <2>2, <2>3, <2>4, <2>5, <2>6, <2>7 DEF Refreshing
<1>14. CASE TransactionExpires
  BY <1>14 DEF TransactionExpires
<1>15. CASE Expire
  BY <1>15 DEF Expire
<1>16. CASE LeaseLapses
  BY <1>16 DEF LeaseLapses
<1>17. CASE UNCHANGED vars
  BY <1>17 DEF vars
<1> QED
  BY <1>1, <1>2, <1>3, <1>4, <1>5, <1>6, <1>7, <1>8, <1>9, <1>10, <1>11, <1>12, <1>13, <1>14, <1>15, <1>16, <1>17 DEF Next

-----------------------------------------------------------------------------
(* The lease *)

\* Every step leaves the lease with its holder: only its own release or its TTL
\* takes it away.
LEMMA LeaseKept == TypeOK /\ LeaseHeld /\ [Next]_vars => LeaseHeld'
<1> SUFFICES ASSUME TypeOK, LeaseHeld, [Next]_vars PROVE LeaseHeld'
  OBVIOUS
<1> USE DEF TypeOK, LeaseHeld, Holds
<1>1. ASSUME NEW r \in Requests, BeginLogin(r) PROVE LeaseHeld'
  BY <1>1 DEF BeginLogin
<1>2. ASSUME NEW r \in Requests, OfferLogin(r) PROVE LeaseHeld'
  BY <1>2 DEF OfferLogin
<1>3. ASSUME NEW r \in Requests, Callback(r) PROVE LeaseHeld'
  BY <1>3 DEF Callback
<1>4. ASSUME NEW r \in Requests, Exchange(r) PROVE LeaseHeld'
  BY <1>4 DEF Exchange
<1>5. ASSUME NEW r \in Requests, Audit(r) PROVE LeaseHeld'
  BY <1>5 DEF Audit
<1>6. ASSUME NEW r \in Requests, Discard(r) PROVE LeaseHeld'
  BY <1>6 DEF Discard, Delete
<1>7. ASSUME NEW r \in Requests, Answer(r) PROVE LeaseHeld'
  BY <1>7 DEF Answer
<1>8. ASSUME NEW r \in Requests, Verify(r) PROVE LeaseHeld'
  BY <1>8 DEF Verify, Delete
<1>9. ASSUME NEW r \in Requests, AuditLogout(r) PROVE LeaseHeld'
  BY <1>9 DEF AuditLogout
<1>10. ASSUME NEW r \in Requests, Revoke(r) PROVE LeaseHeld'
  BY <1>10 DEF Revoke
<1>11. ASSUME NEW r \in Requests, Dies(r) PROVE LeaseHeld'
  BY <1>11 DEF Dies, Losing
<1>12. ASSUME NEW r \in Requests, NEW c \in given, Look(r, c) PROVE LeaseHeld'
  BY <1>12 DEF Look, Found
<1>13. ASSUME NEW r \in Requests, Refreshing(r) PROVE LeaseHeld'
  <2>1. CASE Acquire(r)
    BY <2>1 DEF Acquire
  <2>2. CASE Recheck(r)
    BY <2>2 DEF Recheck, Found
  <2>3. CASE Rotate(r)
    BY <2>3 DEF Rotate, RotateSession, Found
  <2>4. CASE RefreshFails(r)
    BY <2>4 DEF RefreshFails
  <2>5. CASE Release(r)
    BY <2>5 DEF Release, Finished
  <2>6. CASE ReleaseFails(r)
    BY <2>6 DEF ReleaseFails, Finished
  <2>7. CASE Throws(r)
    BY <2>7 DEF Throws, Losing
  <2> QED
    BY <1>13, <2>1, <2>2, <2>3, <2>4, <2>5, <2>6, <2>7 DEF Refreshing
<1>14. CASE TransactionExpires
  BY <1>14 DEF TransactionExpires
<1>15. CASE Expire
  BY <1>15 DEF Expire
<1>16. CASE LeaseLapses
  BY <1>16 DEF LeaseLapses
<1>17. CASE UNCHANGED vars
  BY <1>17 DEF vars
<1> QED
  BY <1>1, <1>2, <1>3, <1>4, <1>5, <1>6, <1>7, <1>8, <1>9, <1>10, <1>11, <1>12, <1>13, <1>14, <1>15, <1>16, <1>17 DEF Next

-----------------------------------------------------------------------------
(* Where a credential is *)

\* Every step keeps a working credential in the audit log and within reach, or
\* its request on the way there.
LEMMA ReachKept == SessionInv /\ ReachInv /\ [Next]_vars => ReachInv'
<1> SUFFICES ASSUME SessionInv, ReachInv, [Next]_vars PROVE ReachInv'
  OBVIOUS
<1> USE DEF SessionInv, TypeOK, OneCredential, ReachInv, AuditedOrPending, WithinReach, Carries
<1>1. ASSUME NEW r \in Requests, BeginLogin(r) PROVE ReachInv'
  BY <1>1 DEF BeginLogin
<1>2. ASSUME NEW r \in Requests, OfferLogin(r) PROVE ReachInv'
  BY <1>2 DEF OfferLogin
<1>3. ASSUME NEW r \in Requests, Callback(r) PROVE ReachInv'
  BY <1>3 DEF Callback
<1>4. ASSUME NEW r \in Requests, Exchange(r) PROVE ReachInv'
  <2>1. CASE record' = {0} /\ held'[r] = 0 /\ pc'[r] = "auditing"
    BY <2>1
  <2>2. CASE UNCHANGED record /\ UNCHANGED held
    BY <1>4, <2>2 DEF Exchange
  <2>3. pc[r] = "exchanging"
    BY <1>4 DEF Exchange
  <2>4. record = {}
    BY <2>3 DEF Once, Born
  <2> QED
    BY <1>4, <2>1, <2>2, <2>4 DEF Exchange
<1>5. ASSUME NEW r \in Requests, Audit(r) PROVE ReachInv'
  BY <1>5 DEF Audit
<1>6. ASSUME NEW r \in Requests, Discard(r) PROVE ReachInv'
  <2>1. record' = record \ {held[r]} /\ held' = held
    BY <1>6 DEF Discard, Delete
  <2>2. \A q \in Requests \ {r} : pc'[q] = pc[q]
    BY <1>6 DEF Discard
  <2>3. UNCHANGED <<given, audited, lost>>
    BY <1>6 DEF Discard
  <2>4. AuditedOrPending'
    <3> SUFFICES ASSUME NEW c \in record'
                 PROVE  \/ c \in audited' \cup lost'
                        \/ \E q \in Requests :
                             pc'[q] \in {"auditing", "discarding"} /\ held'[q] = c
      OBVIOUS
    <3>1. c \in record /\ c # held[r]
      BY <2>1
    <3>2. \/ c \in audited \cup lost
          \/ \E q \in Requests : pc[q] \in {"auditing", "discarding"} /\ held[q] = c
      BY <3>1
    <3> QED
      BY <2>1, <2>2, <2>3, <3>1, <3>2
  <2>5. WithinReach'
    <3> SUFFICES ASSUME NEW c \in record'
                 PROVE  \/ c \in given' \cup lost'
                        \/ \E q \in Requests : Carries(q)' /\ held'[q] = c
      OBVIOUS
    <3>1. c \in record /\ c # held[r]
      BY <2>1
    <3>2. \/ c \in given \cup lost
          \/ \E q \in Requests : Carries(q) /\ held[q] = c
      BY <3>1
    <3> QED
      BY <2>1, <2>2, <2>3, <3>1, <3>2
  <2> QED
    BY <2>4, <2>5
<1>7. ASSUME NEW r \in Requests, Answer(r) PROVE ReachInv'
  BY <1>7 DEF Answer
<1>8. ASSUME NEW r \in Requests, Verify(r) PROVE ReachInv'
  <2>1. record' \subseteq record
    BY <1>8 DEF Verify, Delete
  <2>2. pc[r] = "verifying" /\ \A q \in Requests \ {r} : pc'[q] = pc[q]
    BY <1>8 DEF Verify
  <2> QED
    BY <1>8, <2>1, <2>2 DEF Verify
<1>9. ASSUME NEW r \in Requests, AuditLogout(r) PROVE ReachInv'
  BY <1>9 DEF AuditLogout
<1>10. ASSUME NEW r \in Requests, Revoke(r) PROVE ReachInv'
  BY <1>10 DEF Revoke
<1>11. ASSUME NEW r \in Requests, Dies(r) PROVE ReachInv'
  BY <1>11 DEF Dies, Losing
<1>12. ASSUME NEW r \in Requests, NEW c \in given, Look(r, c) PROVE ReachInv'
  BY <1>12 DEF Look, Found
<1>13. ASSUME NEW r \in Requests, Refreshing(r) PROVE ReachInv'
  <2>1. CASE Acquire(r)
    BY <2>1 DEF Acquire
  <2>2. CASE Recheck(r)
    BY <2>2 DEF Recheck, Found
  <2>3. CASE Rotate(r)
    BY <2>3 DEF Rotate, RotateSession, Found
  <2>4. CASE RefreshFails(r)
    BY <2>4 DEF RefreshFails
  <2>5. CASE Release(r)
    BY <2>5 DEF Release, Finished
  <2>6. CASE ReleaseFails(r)
    BY <2>6 DEF ReleaseFails, Finished
  <2>7. CASE Throws(r)
    BY <2>7 DEF Throws, Losing
  <2> QED
    BY <1>13, <2>1, <2>2, <2>3, <2>4, <2>5, <2>6, <2>7 DEF Refreshing
<1>14. CASE TransactionExpires
  BY <1>14 DEF TransactionExpires
<1>15. CASE Expire
  BY <1>15 DEF Expire
<1>16. CASE LeaseLapses
  BY <1>16 DEF LeaseLapses
<1>17. CASE UNCHANGED vars
  BY <1>17 DEF vars
<1> QED
  BY <1>1, <1>2, <1>3, <1>4, <1>5, <1>6, <1>7, <1>8, <1>9, <1>10, <1>11, <1>12, <1>13, <1>14, <1>15, <1>16, <1>17 DEF Next

-----------------------------------------------------------------------------
(* The theorems *)

\* The invariants hold of every behaviour.
LEMMA Invariants == Spec => [](SessionInv /\ LeaseHeld /\ ReachInv)
<1>1. Init => SessionInv /\ LeaseHeld /\ ReachInv
  <2> SUFFICES ASSUME Init PROVE SessionInv /\ LeaseHeld /\ ReachInv
    OBVIOUS
  <2>1. TypeOK
    BY DEF Init, TypeOK
  <2>2. Once /\ OneCredential /\ EndedIsFinal
    BY DEF Init, Once, Born, OneCredential, EndedIsFinal
  <2>3. LeaseHeld /\ ReachInv
    BY DEF Init, LeaseHeld, Holds, ReachInv, AuditedOrPending, WithinReach
  <2> QED
    BY <2>1, <2>2, <2>3 DEF SessionInv
<1>2. SessionInv /\ LeaseHeld /\ ReachInv /\ [Next]_vars => (SessionInv /\ LeaseHeld /\ ReachInv)'
  BY SessionKept, LeaseKept, ReachKept DEF SessionInv
<1> QED
  BY <1>1, <1>2, PTL DEF Spec

\* Redis and the requests stay within their types.
THEOREM TypeCorrect == Spec => []TypeOK
<1>1. SessionInv => TypeOK
  BY DEF SessionInv
<1> QED
  BY <1>1, Invariants, PTL

\* At most one credential of a session works, under its family key.
THEOREM OneCredentialWorks == Spec => []OneCredential
<1>1. SessionInv => OneCredential
  BY DEF SessionInv
<1> QED
  BY <1>1, Invariants, PTL

\* A session that was ended stays so, whatever refreshes and callbacks were
\* under way.
THEOREM EndIsFinal == Spec => []EndedIsFinal
<1>1. SessionInv => EndedIsFinal
  BY DEF SessionInv
<1> QED
  BY <1>1, Invariants, PTL

\* A refresh is alone with the provider while its lease lasts.
THEOREM LeaseIsExclusive == Spec => []LeaseProtects
<1>1. LeaseHeld => LeaseProtects
  BY DEF LeaseHeld, LeaseProtects
<1> QED
  BY <1>1, Invariants, PTL

\* A working credential was audited, or is about to be recorded or discarded.
THEOREM CredentialsAreAudited == Spec => []AuditedOrPending
<1>1. ReachInv => AuditedOrPending
  BY DEF ReachInv
<1> QED
  BY <1>1, Invariants, PTL

\* The code strands no session.
THEOREM SessionsStayWithinReach == Spec => []WithinReach
<1>1. ReachInv => WithinReach
  BY DEF ReachInv
<1> QED
  BY <1>1, Invariants, PTL

\* One working credential, an exclusive lease and a final end, for any number of
\* requests, rotations and failures.
THEOREM SessionsAreSound == Spec => []SessionIsSound
BY TypeCorrect, OneCredentialWorks, EndIsFinal, LeaseIsExclusive, PTL DEF SessionIsSound

\* Working credentials are audited and reachable.
THEOREM CredentialsStay == Spec => []CredentialsAreKept
BY CredentialsAreAudited, SessionsStayWithinReach, PTL DEF CredentialsAreKept

HIDE DEF redis, requests, At, Points

-----------------------------------------------------------------------------
(* The rotation of the client's secret.                                    *)

\* A run that has asked Keycloak for an update, and has not ended with it.
Touching(r) == rotation[r].at \in {"updating", "verifying", "committing", "undoing"}

\* What SecretsAgree promises of the runs that have ended.
Excused ==
  \/ secretFile.secret = keycloakSecret
  \/ lateUpdate
  \/ /\ lastUpdater \in Rotations
     /\ \/ rotation[lastUpdater].at = "died"
        \/ "rollback" \in rotation[lastUpdater].failures

\* What a run knows at its place.
RunHolds(r) ==
  /\ rotation[r].at \in {"asking", "writing", "updating", "verifying", "committing", "undoing"} =>
       rotation[r].old = secretFile.secret
  /\ Touching(r) => lastUpdater = r
  /\ rotation[r].at = "committing" =>
       /\ keycloakSecret = r \/ lateUpdate
       /\ r \in confirmedSecrets
  /\ rotation[r].at = "undoing" =>
       \/ UpdateOf(r, rotation[r].old) \in updates
       \/ keycloakSecret = rotation[r].old \/ lateUpdate

\* An API that has the file open, or has read it, has a secret Keycloak has confirmed.
ReaderHolds(a) ==
  /\ reader[a].secret \in confirmedSecrets \cup {NoSecret}
  /\ reader[a].at = "opened" => reader[a].open.secret \in confirmedSecrets

RunRecords == [at : RotationStages, old : Secrets \cup {NoSecret},
               failures : SUBSET {"run", "rollback", "cleanup"}]

\* One run at a time; and while none touches Keycloak, the file agrees with it or what
\* became of the last update says why not.
RotationInv ==
  /\ rotation \in [Rotations -> RunRecords]
  /\ reader \in [SecretReaders -> [at : {"down", "opened", "configuring", "refused", "up"},
       open : [secret : Secrets, mode : FileModes] \cup {NoSecret},
       secret : Secrets \cup {NoSecret}]]
  /\ SecretsTyped /\ confirmedSecrets \subseteq Secrets /\ secretFile.secret \in confirmedSecrets
  /\ \A r, q \in Rotations : UnderWay(r) /\ UnderWay(q) => r = q
  /\ (\A r \in Rotations : ~Touching(r)) => Excused
  /\ \A r \in Rotations : RunHolds(r)
  /\ \A a \in SecretReaders : ReaderHolds(a)

LEMMA RotationInitially == RotationInit => RotationInv
<1> SUFFICES ASSUME RotationInit PROVE RotationInv OBVIOUS
<1> USE DEF RotationInit, Secrets
<1>1. rotation \in [Rotations -> RunRecords]
  BY DEF RunRecords, RotationStages, RotationOver
<1>2. reader \in [SecretReaders -> [at : {"down", "opened", "configuring", "refused", "up"},
       open : [secret : Secrets, mode : FileModes] \cup {NoSecret}, secret : Secrets \cup {NoSecret}]]
  BY DEF NoSecret
<1>3. SecretsTyped BY DEF SecretsTyped, RotationStages, RotationOver, FileModes
<1>4. \A r \in Rotations : RunHolds(r) /\ ~UnderWay(r)
  BY DEF RunHolds, Touching, UnderWay, RotationOver
<1>5. \A a \in SecretReaders : ReaderHolds(a) BY DEF ReaderHolds
<1> QED BY <1>1, <1>2, <1>3, <1>4, <1>5 DEF RotationInv, Excused

RunSteps(r) ==
  \/ RefusedAtStart(r) \/ ReadCurrentSecret(r) \/ LookUpFails(r) \/ OpenTemporary(r)
  \/ WriteFails(r) \/ AskUpdate(r) \/ UpdateAnswered(r) \/ UpdateRejected(r)
  \/ UpdateUnanswered(r) \/ VerifySecret(r) \/ VerifyFails(r) \/ CommitRotation(r)
  \/ RenameFails(r) \/ UndoAnswered(r) \/ UndoFails(r) \/ CleanUp(r) \/ ScriptDies(r)

\* A run is at another place, and the others are where they were.
RunIsAt(r, stage, old, failures) ==
  /\ rotation' \in [Rotations -> RunRecords]
  /\ rotation'[r].at = stage /\ rotation'[r].old = old /\ rotation'[r].failures = failures
  /\ \A q \in Rotations \ {r} : rotation'[q] = rotation[q]

LEMMA GoesToIs ==
  ASSUME RotationInv, NEW r \in Rotations, NEW stage \in RotationStages, GoesTo(r, stage)
  PROVE  RunIsAt(r, stage, rotation[r].old, rotation[r].failures)
BY DEF RotationInv, GoesTo, RunIsAt, RunRecords

LEMMA FailsAtIs ==
  ASSUME RotationInv, NEW r \in Rotations, NEW stage \in RotationStages,
         NEW what \in {"run", "rollback", "cleanup"}, FailsAt(r, what, stage)
  PROVE  RunIsAt(r, stage, rotation[r].old, rotation[r].failures \cup {what})
BY DEF RotationInv, FailsAt, RunIsAt, RunRecords

LEMMA ReadIs ==
  ASSUME RotationInv, NEW r \in Rotations, ReadCurrentSecret(r)
  PROVE  RunIsAt(r, "asking", secretFile.secret, rotation[r].failures)
BY DEF RotationInv, ReadCurrentSecret, RunIsAt, RunRecords, RotationStages, SecretsTyped

\* A run's step keeps the types, what the readers have, what it knows, and the agreement.
RunKept(r) ==
  /\ rotation' \in [Rotations -> RunRecords]
  /\ \A q \in Rotations \ {r} : rotation'[q] = rotation[q] /\ (UnderWay(r)' => ~UnderWay(q))
  /\ SecretsTyped' /\ reader' = reader
  /\ secretFile'.secret \in confirmedSecrets' /\ confirmedSecrets' \subseteq Secrets
  /\ confirmedSecrets \subseteq confirmedSecrets'
  /\ RunHolds(r)'
  /\ ~Touching(r)' => Excused'

LEMMA RunStepsKeep ==
  ASSUME RotationInv, NEW r \in Rotations, RunSteps(r)
  PROVE  RunKept(r)
<1> DEFINE old == rotation[r].old
           failures == rotation[r].failures
<1>a. UnderWay(r) => \A q \in Rotations \ {r} : ~UnderWay(q)
  BY DEF RotationInv
<1>b. ~Touching(r) /\ (UnderWay(r) \/ RotationIdle) => Excused
  BY <1>a DEF RotationInv, Touching, UnderWay, RotationOver, RotationIdle
<1>c. rotation[r] \in RunRecords /\ SecretsTyped /\ RunHolds(r)
      /\ secretFile.secret \in confirmedSecrets /\ confirmedSecrets \subseteq Secrets
  BY DEF RotationInv
<1> USE <1>c DEF RunIsAt, RunKept, RunHolds, Touching, Excused, UnderWay, RotationOver, RotationStages,
        fileVars, keycloakVars, SecretsTyped
<1>1. CASE RefusedAtStart(r)
  <2>1. RunIsAt(r, "failed", old, failures \cup {"run"}) BY <1>1, FailsAtIs DEF RefusedAtStart
  <2>2. ~Touching(r) /\ RotationIdle BY <1>1 DEF RefusedAtStart
  <2> QED BY <1>1, <1>b, <2>1, <2>2 DEF RefusedAtStart, RotationIdle
<1>2. CASE ReadCurrentSecret(r)
  <2>1. RunIsAt(r, "asking", secretFile.secret, failures) BY <1>2, ReadIs
  <2>2. ~Touching(r) /\ RotationIdle BY <1>2 DEF ReadCurrentSecret
  <2> QED BY <1>2, <1>b, <2>1, <2>2 DEF ReadCurrentSecret, RotationIdle
<1>3. CASE LookUpFails(r)
  <2>1. RunIsAt(r, "failed", old, failures \cup {"run"}) BY <1>3, FailsAtIs DEF LookUpFails
  <2> QED BY <1>3, <1>a, <1>b, <2>1 DEF LookUpFails
<1>4. CASE OpenTemporary(r)
  <2>1. RunIsAt(r, "writing", old, failures) BY <1>4, GoesToIs DEF OpenTemporary
  <2> QED BY <1>4, <1>a, <1>b, <2>1 DEF OpenTemporary
<1>5. CASE WriteFails(r)
  <2>1. RunIsAt(r, "cleaning", old, failures \cup {"run"}) BY <1>5, FailsAtIs DEF WriteFails
  <2> QED BY <1>5, <1>a, <1>b, <2>1 DEF WriteFails
<1>6. CASE AskUpdate(r)
  <2>1. RunIsAt(r, "updating", old, failures) BY <1>6, GoesToIs DEF AskUpdate
  <2> QED BY <1>6, <1>a, <2>1 DEF AskUpdate, UpdateOf, Secrets
<1>7. CASE UpdateAnswered(r)
  <2>1. RunIsAt(r, "verifying", old, failures) BY <1>7, GoesToIs DEF UpdateAnswered
  <2> QED BY <1>7, <1>a, <2>1 DEF UpdateAnswered
<1>8. ASSUME NEW still \in SUBSET updates, Undo(r, still),
             rotation[r].at \in {"updating", "verifying", "committing"}
      PROVE  RunKept(r)
  <2>1. RunIsAt(r, "undoing", old, failures \cup {"run"}) BY <1>8, FailsAtIs DEF Undo
  <2>2. old = secretFile.secret BY <1>8
  <2>3. updates' = still \cup {UpdateOf(r, old)} /\ UNCHANGED <<fileVars, keycloakSecret, lastUpdater, lateUpdate>>
    BY <1>8 DEF Undo
  <2>4. SecretsTyped' BY <2>2, <2>3, <2>1 DEF UpdateOf
  <2>5. RunHolds(r)' BY <1>8, <2>1, <2>2, <2>3 DEF UpdateOf
  <2> QED BY <1>8, <1>a, <2>1, <2>3, <2>4, <2>5
<1>9. CASE UpdateRejected(r) BY <1>9, <1>8 DEF UpdateRejected
<1>10. CASE UpdateUnanswered(r) BY <1>10, <1>8 DEF UpdateUnanswered
<1>11. CASE VerifyFails(r) BY <1>11, <1>8 DEF VerifyFails
<1>12. CASE RenameFails(r) BY <1>12, <1>8 DEF RenameFails
<1>13. CASE VerifySecret(r)
  <2>1. RunIsAt(r, "committing", old, failures) BY <1>13, GoesToIs DEF VerifySecret
  <2> QED BY <1>13, <1>a, <2>1 DEF VerifySecret, Secrets
<1>14. CASE CommitRotation(r)
  <2>1. RunIsAt(r, "rotated", old, failures) BY <1>14, GoesToIs DEF CommitRotation
  <2> QED BY <1>14, <1>a, <2>1 DEF CommitRotation, Secrets, FileModes
<1>15. CASE UndoAnswered(r)
  <2>1. RunIsAt(r, "cleaning", old, failures) BY <1>15, GoesToIs DEF UndoAnswered
  <2> QED BY <1>15, <1>a, <2>1 DEF UndoAnswered
<1>16. CASE UndoFails(r)
  <2>1. RunIsAt(r, "cleaning", old, failures \cup {"rollback"}) BY <1>16, FailsAtIs DEF UndoFails
  <2> QED BY <1>16, <1>a, <2>1 DEF UndoFails
<1>17. CASE CleanUp(r)
  <2>1. RunIsAt(r, "failed", old, failures) \/ RunIsAt(r, "failed", old, failures \cup {"cleanup"})
    BY <1>17, GoesToIs, FailsAtIs DEF CleanUp
  <2> QED BY <1>17, <1>a, <1>b, <2>1 DEF CleanUp
<1>18. CASE ScriptDies(r)
  <2>1. RunIsAt(r, "died", old, failures) BY <1>18, GoesToIs DEF ScriptDies
  <2> QED BY <1>18, <1>a, <1>b, <2>1 DEF ScriptDies
<1> HIDE DEF RunKept
<1> QED
  BY <1>1, <1>2, <1>3, <1>4, <1>5, <1>6, <1>7, <1>9, <1>10, <1>11, <1>12, <1>13, <1>14, <1>15,
     <1>16, <1>17, <1>18 DEF RunSteps

LEMMA RunKeepsRotation ==
  ASSUME RotationInv, NEW r \in Rotations, RunSteps(r)
  PROVE  RotationInv'
<1>1. \A q \in Rotations \ {r} : RunHolds(q)'
  <2> TAKE q \in Rotations \ {r}
  <2>1. CASE UnderWay(q)
    <3>1. ~UnderWay(r) /\ ~UnderWay(r)' BY <2>1, RunStepsKeep DEF RunKept, RotationInv
    <3>2. RefusedAtStart(r) \/ ReadCurrentSecret(r)
      BY <3>1 DEF RunSteps, UnderWay, RotationOver, LookUpFails, OpenTemporary, WriteFails, AskUpdate,
         UpdateAnswered, UpdateRejected, UpdateUnanswered, VerifySecret, VerifyFails, CommitRotation,
         RenameFails, UndoAnswered, UndoFails, CleanUp, ScriptDies
    <3> QED BY <2>1, <3>2 DEF RefusedAtStart, ReadCurrentSecret, RotationIdle
  <2>2. CASE ~UnderWay(q)
    BY <2>2, RunStepsKeep DEF RunKept, RunHolds, Touching, UnderWay, RotationOver
  <2> QED BY <2>1, <2>2
<1>2. (\A q \in Rotations : ~Touching(q)') => Excused'
  BY RunStepsKeep DEF RunKept
<1>3. \A a \in SecretReaders : ReaderHolds(a)'
  BY RunStepsKeep DEF RunKept, RotationInv, ReaderHolds
<1>4. \A p, q \in Rotations : UnderWay(p)' /\ UnderWay(q)' => p = q
  BY RunStepsKeep DEF RunKept, RotationInv, UnderWay
<1> QED BY <1>1, <1>2, <1>3, <1>4, RunStepsKeep DEF RunKept, RotationInv

LEMMA KeycloakKeepsRotation ==
  ASSUME RotationInv, NEW u \in updates, CarryOut(u) \/ LoseUpdate(u)
  PROVE  RotationInv'
<1>1. u \in [by : Rotations, secret : Secrets] /\ updates' \subseteq updates
      /\ rotation' = rotation /\ reader' = reader /\ secretFile' = secretFile
      /\ confirmedSecrets' = confirmedSecrets /\ lastUpdater' = lastUpdater
  BY DEF RotationInv, SecretsTyped, CarryOut, LoseUpdate, fileVars
<1>2. SecretsTyped'
  BY <1>1 DEF RotationInv, SecretsTyped, CarryOut, LoseUpdate
<1>3. CASE CarryOut(u)
  <2>1. keycloakSecret' = u.secret /\ (lateUpdate' \/ UpdateAwaited(u)) /\ updates' = updates \ {u}
    BY <1>3 DEF CarryOut
  <2>2. UpdateAwaited(u) => Touching(u.by) /\ rotation[u.by].at # "committing"
                            /\ (rotation[u.by].at = "undoing" => u.secret = rotation[u.by].old)
    BY <1>1 DEF UpdateAwaited, Touching
  <2>3. \A r \in Rotations : RunHolds(r)'
    <3> TAKE r \in Rotations
    <3>1. Touching(r) /\ UpdateAwaited(u) => r = u.by
      BY <1>1, <2>2 DEF RotationInv, Touching, UnderWay, RotationOver
    <3>2. u = UpdateOf(u.by, u.secret)
      BY <1>1 DEF UpdateOf
    <3>3. rotation[r].at = "undoing" /\ UpdateOf(r, rotation[r].old) \in updates =>
            UpdateOf(r, rotation[r].old) \in updates' \/ UpdateOf(r, rotation[r].old) = u
      BY <2>1
    <3> QED BY <1>1, <2>1, <2>2, <3>1, <3>2, <3>3 DEF RotationInv, RunHolds, Touching, UpdateOf
  <2>4. (\A r \in Rotations : ~Touching(r)') => Excused'
    BY <1>1, <2>1, <2>2 DEF Touching, Excused
  <2> QED BY <1>1, <1>2, <2>3, <2>4 DEF RotationInv, UnderWay, ReaderHolds
<1>4. CASE LoseUpdate(u)
  <2>1. ~UpdateAwaited(u) /\ updates' = updates \ {u} /\ keycloakSecret' = keycloakSecret
        /\ lateUpdate' = lateUpdate
    BY <1>4 DEF LoseUpdate
  <2>2. \A r \in Rotations : RunHolds(r)'
    BY <1>1, <2>1 DEF RotationInv, RunHolds, Touching, UpdateOf, UpdateAwaited
  <2> QED BY <1>1, <1>2, <2>1, <2>2 DEF RotationInv, UnderWay, ReaderHolds, Touching, Excused
<1> QED BY <1>3, <1>4

LEMMA ReaderKeepsRotation ==
  ASSUME RotationInv, NEW a \in SecretReaders,
         \/ OpenSecret(a) \/ ConfigurationFails(a) \/ CreateClient(a) \/ StopReader(a)
         \/ \E enforced \in BOOLEAN : ReadSecret(a, enforced)
  PROVE  RotationInv'
<1>1. UNCHANGED <<keycloakVars, secretFile, rotation, confirmedSecrets>>
  BY DEF OpenSecret, ConfigurationFails, CreateClient, StopReader, ReadSecret, Reads
<1>2. reader' \in [SecretReaders -> [at : {"down", "opened", "configuring", "refused", "up"},
       open : [secret : Secrets, mode : FileModes] \cup {NoSecret},
       secret : Secrets \cup {NoSecret}]]
      /\ \A b \in SecretReaders : ReaderHolds(b)'
  <2> USE DEF RotationInv, SecretsTyped, ReaderHolds, keycloakVars
  <2>1. CASE OpenSecret(a) BY <2>1 DEF OpenSecret
  <2>2. CASE ConfigurationFails(a) BY <2>2 DEF ConfigurationFails, Reads
  <2>3. CASE CreateClient(a) BY <2>3 DEF CreateClient, Reads
  <2>4. CASE StopReader(a) BY <2>4 DEF StopReader, Reads
  <2>5. ASSUME NEW enforced \in BOOLEAN, ReadSecret(a, enforced) PROVE <1>2!1 /\ <1>2!2
    <3>1. reader[a].at = "opened" BY <2>5 DEF ReadSecret
    <3>2. reader[a].open \in [secret : Secrets, mode : FileModes] \/ reader[a].open = NoSecret
      OBVIOUS
    <3> QED BY <2>5, <3>1, <3>2 DEF ReadSecret, Reads, Restricted
  <2> QED BY <2>1, <2>2, <2>3, <2>4, <2>5
<1> QED
  BY <1>1, <1>2 DEF RotationInv, SecretsTyped, UnderWay, Touching, Excused, RunHolds, keycloakVars,
     UpdateOf

LEMMA RotationStays == RotationSpec => []SecretsAreKept
<1>1. RotationInv /\ [RotationNext]_rotationVars => RotationInv'
  <2> SUFFICES ASSUME RotationInv, [RotationNext]_rotationVars PROVE RotationInv'
    OBVIOUS
  <2>1. CASE RotationNext
    BY <2>1, RunKeepsRotation, KeycloakKeepsRotation, ReaderKeepsRotation DEF RotationNext, RunSteps
  <2>2. CASE UNCHANGED rotationVars
    BY <2>2 DEF rotationVars, keycloakVars, fileVars, RotationInv, SecretsTyped, UnderWay, Touching,
       Excused, RunHolds, ReaderHolds, UpdateOf
  <2> QED BY <2>1, <2>2
<1>2. RotationInv => SecretsAreKept
  BY DEF RotationInv, SecretsAreKept, SecretsAgree, RotationIdle, ReadersHoldConfirmed, Excused,
     ReaderHolds, Touching, UnderWay, RotationOver
<1> QED BY <1>1, <1>2, RotationInitially, PTL DEF RotationSpec

-----------------------------------------------------------------------------
(* The rotation of the sessions' key.                                      *)

\* k is the newest key a process writes with.
IsNewest(k) ==
  /\ k \in SessionKeysUsed
  /\ \A p \in KeyProcesses : keyring[p].encrypts <= k
  /\ \E p \in KeyProcesses : keyring[p].encrypts = k

\* The processes with the newest key, and those that have not got it yet.
HasNewest(p, k) == Up(p) /\ keyring[p].encrypts = k
Behind(p, k) == Up(p) /\ keyring[p].encrypts # k

\* While the newest key is k: the processes have it or its predecessor, and of its
\* predecessor is only a session that a process behind may have made, or one that ends
\* before the predecessor is retired.
NewestHolds(k) ==
  /\ \A p \in KeyProcesses :
       /\ HasNewest(p, k) => keyring[p].reads \in {NoKey, k - 1}
       /\ Behind(p, k) => keyring[p] = [encrypts |-> k - 1, reads |-> NoKey]
       /\ HasNewest(p, k) /\ keyring[p].reads = NoKey =>
            /\ \A q \in KeyProcesses : ~Behind(q, k)
            /\ \A b \in Browsers : SessionLasts(b) => browserSession[b].key = k
  /\ \A b \in Browsers :
       SessionLasts(b) /\ browserSession[b].key # k =>
         /\ browserSession[b].key = k - 1
         /\ \/ browserSession[b].until <= switchedAt + AbsoluteTtl
            \/ \E p \in KeyProcesses : Behind(p, k)

\* A request has a session its process can read, or whose key it has not got yet.
KeyCallHolds(p) ==
  keyCall[p] # FreeProcess =>
    /\ Up(p) /\ keyCall[p].browser \in Browsers
    /\ Readable(keyring[p], keyCall[p].key) \/ keyring[p].encrypts < keyCall[p].key

SessionRecords == [on : BOOLEAN, key : Nat, until : Int, expires : Int, revision : Nat]

KeysTyped ==
  /\ keyring \in [KeyProcesses -> [encrypts : SessionKeysUsed \cup {NoKey},
                                   reads : SessionKeysUsed \cup {NoKey}]]
  /\ browserSession \in [Browsers -> SessionRecords]
  /\ DOMAIN keyCall = KeyProcesses
  /\ \A p \in KeyProcesses : keyCall[p] # FreeProcess =>
       keyCall[p] \in [doing : {"loading", "refreshing"}, browser : Browsers, key : Nat,
                       revision : Nat, since : Nat]
  /\ keyTime \in Nat /\ switchedAt \in Nat

KeysInv ==
  /\ KeysTyped /\ SessionKeysTyped
  /\ KeyProcesses # {} => \E k \in SessionKeysUsed : IsNewest(k) /\ NewestHolds(k)
  /\ \A p \in KeyProcesses : KeyCallHolds(p)
  /\ LossesAreEarly

\* The newest key is the one the operator is said to have brought last.
LEMMA NewestIs ==
  ASSUME KeysTyped, NEW k \in SessionKeysUsed, IsNewest(k)
  PROVE  NewestKey = k
<1>1. k \in SessionKeysUsed \cup {NoKey}
      /\ (\A p \in KeyProcesses : keyring[p].encrypts <= k)
      /\ (k = NoKey \/ \E p \in KeyProcesses : keyring[p].encrypts = k)
  BY DEF IsNewest
<1>2. ASSUME NEW j \in SessionKeysUsed \cup {NoKey},
             \A p \in KeyProcesses : keyring[p].encrypts <= j,
             j = NoKey \/ \E p \in KeyProcesses : keyring[p].encrypts = j
      PROVE  j = k
  <2>1. PICK p \in KeyProcesses : keyring[p].encrypts = k BY DEF IsNewest
  <2>2. k <= j BY <2>1, <1>2
  <2>3. CASE j = NoKey BY <2>2, <2>3, TtlsAreOrdered DEF NoKey, SessionKeysUsed
  <2>4. CASE j # NoKey
    <3>1. PICK q \in KeyProcesses : keyring[q].encrypts = j BY <1>2, <2>4
    <3>2. j <= k BY <3>1 DEF IsNewest
    <3> QED BY <2>2, <3>2, TtlsAreOrdered DEF SessionKeysUsed, NoKey
  <2> QED BY <2>3, <2>4
<1> QED BY <1>1, <1>2 DEF NewestKey

LEMMA KeysInitially == SessionKeysInit => KeysInv
<1> SUFFICES ASSUME SessionKeysInit PROVE KeysInv OBVIOUS
<1> USE TtlsAreOrdered DEF SessionKeysInit, SessionKeysUsed, NoKey
<1>1. 1 \in SessionKeysUsed OBVIOUS
<1>2. KeysTyped BY DEF KeysTyped, SessionRecords
<1>3. SessionKeysTyped BY DEF SessionKeysTyped, KeyringAccepted, PairIsValid
<1>4. KeyProcesses # {} => IsNewest(1) /\ NewestHolds(1)
  BY DEF IsNewest, NewestHolds, HasNewest, Behind, Up, ProcessDown, SessionLasts, RecordThere
<1>5. \A p \in KeyProcesses : KeyCallHolds(p) BY DEF KeyCallHolds
<1>6. LossesAreEarly BY DEF LossesAreEarly
<1> QED BY <1>1, <1>2, <1>3, <1>4, <1>5, <1>6 DEF KeysInv

\* The process that has started is up, with the keyring it was given, or down.
LEMMA StartsIs ==
  ASSUME KeysInv, NEW p \in KeyProcesses,
         NEW ring \in [encrypts : SessionKeysUsed, reads : SessionKeysUsed \cup {NoKey}],
         Starts(p, ring), UNCHANGED <<browserSession, keyTime, keyLosses>>, switchedAt' \in Nat
  PROVE  /\ keyring'[p] = IF ring.reads # ring.encrypts THEN ring ELSE ProcessDown
         /\ \A q \in KeyProcesses \ {p} : keyring'[q] = keyring[q]
         /\ KeysTyped' /\ SessionKeysTyped' /\ LossesAreEarly'
         /\ \A q \in KeyProcesses : KeyCallHolds(q)'
<1> USE DEF KeysInv, SessionKeysUsed, NoKey
<1>1. KeyringAccepted(ring) <=> ring.reads # ring.encrypts
  BY TtlsAreOrdered DEF KeyringAccepted, PairIsValid
<1>2. KeysTyped'
  BY DEF KeysTyped, SessionRecords, Starts, ProcessDown, FreeProcess
<1>3. keyring'[p] = (IF ring.reads # ring.encrypts THEN ring ELSE ProcessDown)
      /\ \A q \in KeyProcesses \ {p} : keyring'[q] = keyring[q]
  BY <1>1 DEF KeysTyped, SessionRecords, Starts
<1>4. keyCall'[p] = FreeProcess /\ \A q \in KeyProcesses \ {p} : keyCall'[q] = keyCall[q]
  BY DEF KeysTyped, SessionRecords, Starts
<1>5. SessionKeysTyped' BY <1>1, <1>3 DEF SessionKeysTyped
<1>6. \A q \in KeyProcesses : KeyCallHolds(q)'
  BY <1>3, <1>4 DEF KeyCallHolds, Up
<1>7. LossesAreEarly' BY DEF LossesAreEarly
<1> QED BY <1>2, <1>3, <1>5, <1>6, <1>7

LEMMA IntroduceKeeps ==
  ASSUME KeysInv, NEW p \in KeyProcesses, NEW k \in SessionKeysUsed, Introduce(p, k)
  PROVE  KeysInv'
<1> USE DEF SessionKeysUsed, NoKey
<1>1. PICK n \in SessionKeysUsed : IsNewest(n) /\ NewestHolds(n)
  BY DEF KeysInv
<1>2. PICK previous \in {k - 1, k} :
        /\ previous = k => \E q \in KeyProcesses \ {p} : Up(q)
        /\ Starts(p, [encrypts |-> k, reads |-> previous])
  BY DEF Introduce
<1>3. k > 1 /\ keyring[p].encrypts # k /\ (n = k \/ Alone(k - 1)) /\ switchedAt' = keyTime
      /\ browserSession' = browserSession /\ keyTime' = keyTime /\ keyLosses' = keyLosses
  BY <1>1, NewestIs DEF Introduce, KeysInv
<1>4. [encrypts |-> k, reads |-> previous] \in [encrypts : SessionKeysUsed, reads : SessionKeysUsed \cup {NoKey}]
      /\ switchedAt' \in Nat
  BY <1>3, TtlsAreOrdered DEF KeysInv, KeysTyped, SessionRecords
<1>5. /\ keyring'[p] = IF previous # k THEN [encrypts |-> k, reads |-> previous] ELSE ProcessDown
      /\ \A q \in KeyProcesses \ {p} : keyring'[q] = keyring[q]
      /\ KeysTyped' /\ SessionKeysTyped' /\ LossesAreEarly'
      /\ \A q \in KeyProcesses : KeyCallHolds(q)'
  BY <1>2, <1>3, <1>4, StartsIs
<1>6. n = k \/ n = k - 1
  <2> SUFFICES ASSUME Alone(k - 1) PROVE n = k - 1 BY <1>3
  <2>1. PICK q \in KeyProcesses : keyring[q].encrypts = n BY <1>1 DEF IsNewest
  <2>2. Up(q) BY <2>1, TtlsAreOrdered DEF Up, ProcessDown
  <2> QED BY <2>1, <2>2 DEF Alone, AllSwitched
<1>7. \A b \in Browsers : SessionLasts(b)' = SessionLasts(b)
                          /\ browserSession[b].until <= switchedAt' + AbsoluteTtl
  BY <1>3 DEF SessionLasts, RecordThere, KeysInv, SessionKeysTyped
<1>8. \A q \in KeyProcesses : keyring[q] \in [encrypts : SessionKeysUsed \cup {NoKey},
                                   reads : SessionKeysUsed \cup {NoKey}]
  BY DEF KeysInv, KeysTyped, SessionRecords
<1> DEFINE m == IF previous # k THEN k ELSE n
<1>9. m \in SessionKeysUsed OBVIOUS
<1>10. IsNewest(m)'
  <2>1. CASE previous # k
    BY <1>1, <1>5, <1>6, <1>8, <2>1 DEF IsNewest
  <2>2. CASE previous = k
    <3>1. PICK q \in KeyProcesses : keyring[q].encrypts = n BY <1>1 DEF IsNewest
    <3>2. \E r \in KeyProcesses \ {p} : keyring[r].encrypts = n
      <4>1. CASE n = k BY <4>1, <3>1, <1>3
      <4>2. CASE n # k
        <5>1. PICK r \in KeyProcesses \ {p} : Up(r) BY <1>2, <2>2
        <5> QED BY <4>2, <5>1, <1>3, <1>6 DEF Alone, AllSwitched
      <4> QED BY <4>1, <4>2
    <3> QED BY <1>1, <1>5, <2>2, <3>2, TtlsAreOrdered DEF IsNewest, ProcessDown
  <2> QED BY <2>1, <2>2
<1>11. NewestHolds(m)'
  <2>1. CASE n = k
    <3>1. m = k BY <2>1
    <3>2. \A q \in KeyProcesses : Behind(q, k)' => Behind(q, k)
      BY <1>5 DEF Behind, Up, ProcessDown
    <3>3. \A q \in KeyProcesses \ {p} : (HasNewest(q, k)' <=> HasNewest(q, k)) /\ (Behind(q, k)' <=> Behind(q, k))
      BY <1>5 DEF Behind, HasNewest, Up
    <3>4. HasNewest(p, k)' => keyring'[p] = [encrypts |-> k, reads |-> k - 1]
      BY <1>5 DEF HasNewest, Up, ProcessDown
    <3>5. ~Behind(p, k)'
      BY <1>5 DEF Behind, Up, ProcessDown
    <3>6. \A b \in Browsers : SessionLasts(b)' /\ browserSession'[b].key # k =>
            browserSession'[b].key = k - 1 /\ browserSession'[b].until <= switchedAt' + AbsoluteTtl
      BY <1>1, <1>3, <1>7, <2>1 DEF NewestHolds
    <3> QED BY <1>1, <1>3, <1>5, <1>7, <2>1, <3>1, <3>2, <3>3, <3>4, <3>5, <3>6 DEF NewestHolds
  <2>2. CASE n # k
    <3>1. n = k - 1 /\ Alone(n) BY <2>2, <1>3, <1>6
    <3>2. \A q \in KeyProcesses : Up(q) => HasNewest(q, n) /\ keyring[q] = [encrypts |-> n, reads |-> NoKey]
      BY <3>1, <1>8 DEF Alone, AllSwitched, HasNewest
    <3>3. \A b \in Browsers : SessionLasts(b) => browserSession[b].key = n
      <4>1. PICK q \in KeyProcesses : keyring[q].encrypts = n BY <1>1 DEF IsNewest
      <4>2. Up(q) BY <4>1, TtlsAreOrdered DEF Up, ProcessDown
      <4> QED BY <1>1, <3>2, <4>2 DEF NewestHolds
    <3>4. CASE previous = k
      <4>1. m = n BY <3>4
      <4>2. \A q \in KeyProcesses : Up(q)' => keyring'[q] = [encrypts |-> n, reads |-> NoKey]
        BY <1>5, <3>2, <3>4 DEF Up
      <4> QED BY <4>1, <4>2, <3>3, <1>3, <1>7 DEF NewestHolds, HasNewest, Behind
    <3>5. CASE previous # k
      <4>1. m = k /\ previous = k - 1 BY <3>5
      <4>2. \A q \in KeyProcesses \ {p} : Up(q)' => keyring'[q] = [encrypts |-> k - 1, reads |-> NoKey]
        BY <1>5, <3>1, <3>2 DEF Up
      <4>3. keyring'[p] = [encrypts |-> k, reads |-> k - 1]
        BY <1>5, <3>5
      <4>4. \A b \in Browsers : SessionLasts(b)' =>
              browserSession'[b].key = k - 1 /\ browserSession'[b].until <= switchedAt' + AbsoluteTtl
        BY <1>3, <1>7, <3>1, <3>3
      <4> QED BY <4>1, <4>2, <4>3, <4>4, <1>3, TtlsAreOrdered DEF NewestHolds, HasNewest, Behind
    <3> QED BY <3>4, <3>5
  <2> QED BY <2>1, <2>2
<1> QED BY <1>5, <1>9, <1>10, <1>11 DEF KeysInv

LEMMA RetireKeeps ==
  ASSUME KeysInv, NEW p \in KeyProcesses, NEW k \in SessionKeysUsed, Retire(p, k)
  PROVE  KeysInv'
<1> USE DEF SessionKeysUsed, NoKey
<1>1. PICK n \in SessionKeysUsed : IsNewest(n) /\ NewestHolds(n)
  BY DEF KeysInv
<1>2. AllSwitched(k) /\ keyring[p].reads # NoKey /\ keyTime >= switchedAt + AbsoluteTtl
      /\ Starts(p, [encrypts |-> k, reads |-> NoKey]) /\ switchedAt' = switchedAt
      /\ browserSession' = browserSession /\ keyTime' = keyTime /\ keyLosses' = keyLosses
  BY DEF Retire
<1>3. /\ keyring'[p] = [encrypts |-> k, reads |-> NoKey]
      /\ \A q \in KeyProcesses \ {p} : keyring'[q] = keyring[q]
      /\ KeysTyped' /\ SessionKeysTyped' /\ LossesAreEarly'
      /\ \A q \in KeyProcesses : KeyCallHolds(q)'
  <2> [encrypts |-> k, reads |-> NoKey] \in [encrypts : SessionKeysUsed, reads : SessionKeysUsed \cup {NoKey}]
      /\ switchedAt' \in Nat
    BY <1>2 DEF KeysInv, KeysTyped, SessionRecords
  <2> QED BY <1>2, StartsIs
<1>4. Up(p) BY <1>2 DEF Up, ProcessDown
<1>5. \A q \in KeyProcesses : Up(q) => keyring[q].encrypts = k
  BY <1>2 DEF AllSwitched
<1>6. n = k
  <2>1. PICK q \in KeyProcesses : keyring[q].encrypts = n BY <1>1 DEF IsNewest
  <2>2. Up(q) BY <2>1, TtlsAreOrdered DEF Up, ProcessDown
  <2> QED BY <2>1, <2>2, <1>5
<1>7. IsNewest(k)' BY <1>1, <1>3, <1>6 DEF IsNewest
<1>8. \A b \in Browsers : SessionLasts(b) => browserSession[b].key = k
  <2> SUFFICES ASSUME NEW b \in Browsers, SessionLasts(b), browserSession[b].key # k PROVE FALSE
    OBVIOUS
  <2>1. browserSession[b].until <= switchedAt + AbsoluteTtl
    BY <1>1, <1>5, <1>6 DEF NewestHolds, Behind
  <2>2. keyTime < browserSession[b].until BY DEF SessionLasts
  <2> QED BY <1>2, <2>1, <2>2, TtlsAreOrdered DEF KeysInv, KeysTyped, SessionRecords
<1>9. \A q \in KeyProcesses : ~Behind(q, k)'
  BY <1>3, <1>5 DEF Behind, Up
<1>10. \A b \in Browsers : SessionLasts(b)' => browserSession'[b].key = k
  BY <1>2, <1>8 DEF SessionLasts, RecordThere
<1>11. NewestHolds(k)'
  BY <1>1, <1>3, <1>6, <1>9, <1>10 DEF NewestHolds, HasNewest, Up
<1> QED BY <1>3, <1>7, <1>11 DEF KeysInv


\* Sessions that last as they were, or get the key of a process that is up.
LEMMA SessionsKeep ==
  ASSUME KeysInv, UNCHANGED <<keyring, switchedAt>>,
         \A b \in Browsers : SessionLasts(b)' =>
           \/ /\ SessionLasts(b)
              /\ browserSession'[b].key = browserSession[b].key
              /\ browserSession'[b].until = browserSession[b].until
           \/ \E p \in KeyProcesses : Up(p) /\ browserSession'[b].key = KeyOf(p)
  PROVE  KeyProcesses # {} => \E k \in SessionKeysUsed : (IsNewest(k) /\ NewestHolds(k))'
<1> SUFFICES ASSUME KeyProcesses # {}
             PROVE  \E k \in SessionKeysUsed : (IsNewest(k) /\ NewestHolds(k))'
  OBVIOUS
<1>1. PICK k \in SessionKeysUsed : IsNewest(k) /\ NewestHolds(k)
  BY DEF KeysInv
<1>2. \A p \in KeyProcesses : /\ Up(p)' = Up(p) /\ HasNewest(p, k)' = HasNewest(p, k)
                              /\ Behind(p, k)' = Behind(p, k)
  BY DEF Up, HasNewest, Behind
<1>3. \A p \in KeyProcesses : Up(p) /\ KeyOf(p) # k => Behind(p, k) /\ KeyOf(p) = k - 1
  BY <1>1 DEF NewestHolds, Behind, KeyOf
<1>4. ASSUME NEW p \in KeyProcesses, HasNewest(p, k), keyring[p].reads = NoKey,
             NEW b \in Browsers, SessionLasts(b)'
      PROVE  browserSession'[b].key = k
  BY <1>1, <1>3, <1>4 DEF NewestHolds
<1>5. ASSUME NEW b \in Browsers, SessionLasts(b)', browserSession'[b].key # k
      PROVE  /\ browserSession'[b].key = k - 1
             /\ \/ browserSession'[b].until <= switchedAt' + AbsoluteTtl
                \/ \E p \in KeyProcesses : Behind(p, k)
  BY <1>1, <1>3, <1>5 DEF NewestHolds
<1>6. NewestHolds(k)' BY <1>1, <1>2, <1>4, <1>5 DEF NewestHolds
<1> QED BY <1>1, <1>6 DEF IsNewest

\* What a process can know of the key of a session that lasts.
LEMMA LastingKeyIsKnown ==
  ASSUME KeysInv, NEW p \in KeyProcesses, NEW b \in Browsers, Up(p), SessionLasts(b)
  PROVE  \/ Readable(keyring[p], browserSession[b].key)
         \/ ~HasNewest(p, NewestKey) /\ keyring[p].encrypts < browserSession[b].key
<1>1. PICK k \in SessionKeysUsed : IsNewest(k) /\ NewestHolds(k)
  BY DEF KeysInv
<1>2. NewestKey = k BY <1>1, NewestIs DEF KeysInv
<1> QED
  BY <1>1, <1>2, TtlsAreOrdered DEF NewestHolds, Readable, HasNewest, Behind, SessionKeysUsed, NoKey

\* A session that is ended does not last, and the others are as they were.
LEMMA SessionOffIs ==
  ASSUME KeysTyped, NEW b \in Browsers, browserSession' = [browserSession EXCEPT ![b].on = FALSE]
  PROVE  /\ browserSession' \in [Browsers -> SessionRecords]
         /\ ~SessionLasts(b)' /\ browserSession'[b].until = browserSession[b].until
         /\ \A c \in Browsers \ {b} : browserSession'[c] = browserSession[c]
BY DEF KeysTyped, SessionLasts, RecordThere, SessionRecords

LEMMA SignInKeeps ==
  ASSUME KeysInv, NEW p \in KeyProcesses, NEW b \in Browsers,
         SignIn(p, b) \/ TouchLate(p, b)
  PROVE  KeysInv'
<1>1. UNCHANGED <<keyring, keyCall, keyTime, switchedAt, keyLosses>>
  BY DEF SignIn, TouchLate
<1>2. /\ KeysTyped' /\ SessionKeysTyped'
      /\ \A c \in Browsers : SessionLasts(c)' =>
           \/ /\ SessionLasts(c)
              /\ browserSession'[c].key = browserSession[c].key
              /\ browserSession'[c].until = browserSession[c].until
           \/ \E q \in KeyProcesses : Up(q) /\ browserSession'[c].key = KeyOf(q)
  <2> USE TtlsAreOrdered DEF KeysInv, KeysTyped, SessionRecords, SessionKeysTyped, SessionLasts, RecordThere
  <2>1. CASE SignIn(p, b) BY <2>1, <1>1 DEF SignIn, KeyOf, SessionKeysUsed, NoKey
  <2>2. CASE TouchLate(p, b)
    <3>1. /\ browserSession' \in [Browsers -> SessionRecords]
          /\ ~SessionLasts(b)' /\ browserSession'[b].until = browserSession[b].until
          /\ \A c \in Browsers \ {b} : browserSession'[c] = browserSession[c]
      BY <2>2, SessionOffIs DEF TouchLate
    <3> QED BY <3>1, <1>1
  <2> QED BY <2>1, <2>2
<1>3. KeyProcesses # {} => \E k \in SessionKeysUsed : (IsNewest(k) /\ NewestHolds(k))'
  BY <1>1, <1>2, SessionsKeep
<1> QED
  BY <1>1, <1>2, <1>3 DEF KeysInv, KeyCallHolds, Up, LossesAreEarly

LEMMA TouchKeeps ==
  ASSUME KeysInv, NEW p \in KeyProcesses, NEW b \in Browsers, NEW doing \in {"loading", "refreshing"},
         Touch(p, b, doing)
  PROVE  KeysInv'
<1> DEFINE call == [doing |-> doing, browser |-> b, key |-> browserSession[b].key,
                    revision |-> browserSession[b].revision, since |-> keyTime]
<1>1. UNCHANGED <<keyring, keyTime, switchedAt, keyLosses>> /\ Up(p) /\ SessionLasts(b)
      /\ keyCall' = [keyCall EXCEPT ![p] = call]
      /\ browserSession' = [browserSession EXCEPT ![b].expires = keyTime + RemainingTtl(b, keyTime)]
  BY DEF Touch
<1>2. RemainingTtl(b, keyTime) \in Int
  BY TtlsAreOrdered DEF KeysInv, KeysTyped, SessionRecords, RemainingTtl, LesserOf
<1>3. call \in [doing : {"loading", "refreshing"}, browser : Browsers, key : Nat, revision : Nat, since : Nat]
  BY DEF KeysInv, KeysTyped, SessionRecords
<1>4. KeysTyped' /\ SessionKeysTyped'
  <2> HIDE DEF call
  <2> QED BY <1>1, <1>2, <1>3 DEF KeysInv, KeysTyped, SessionRecords, SessionKeysTyped
<1>5. \A c \in Browsers : SessionLasts(c)' =>
        /\ SessionLasts(c) /\ browserSession'[c].key = browserSession[c].key
        /\ browserSession'[c].until = browserSession[c].until
  BY <1>1 DEF KeysInv, KeysTyped, SessionRecords, SessionLasts, RecordThere
<1>6. KeyProcesses # {} => \E k \in SessionKeysUsed : (IsNewest(k) /\ NewestHolds(k))'
  BY <1>1, <1>5, SessionsKeep
<1>7. \A q \in KeyProcesses : KeyCallHolds(q)'
  BY <1>1, LastingKeyIsKnown DEF KeysInv, KeysTyped, SessionRecords, KeyCallHolds, Up
<1> QED
  BY <1>1, <1>4, <1>6, <1>7 DEF KeysInv, LossesAreEarly

\* A request that ends leaves the session, or what it says of it.
LEMMA AnswersKeep ==
  ASSUME KeysInv, NEW p \in KeyProcesses,
         Load(p) \/ LoadUnreadable(p) \/ RefreshTokens(p) \/ RefreshRefused(p)
  PROVE  KeysInv'
<1>1. UNCHANGED <<keyring, keyTime, switchedAt>> /\ Frees(p)
      /\ (Working(p, "loading") \/ Working(p, "refreshing"))
  BY DEF Load, LoadUnreadable, RefreshTokens, RefreshRefused
<1>2. Up(p) /\ keyCall[p].browser \in Browsers /\ keyCall[p].since \in Nat /\ keyCall[p].key \in Nat
      /\ (Readable(keyring[p], keyCall[p].key) \/ keyring[p].encrypts < keyCall[p].key)
  BY <1>1 DEF KeysInv, KeysTyped, KeyCallHolds, Working, FreeProcess
<1>3. /\ browserSession' \in [Browsers -> SessionRecords] /\ LossesAreEarly'
      /\ \A c \in Browsers : /\ browserSession'[c].until = browserSession[c].until
                             /\ SessionLasts(c)' =>
                                  \/ /\ SessionLasts(c)
                                     /\ browserSession'[c].key = browserSession[c].key
                                  \/ browserSession'[c].key = KeyOf(p)
  <2>1. CASE Load(p) \/ RefreshRefused(p) \/ (LoadUnreadable(p) /\ ~SameRecord(p))
    <3>1. UNCHANGED <<browserSession, keyLosses, keyTime>>
      BY <2>1, <1>1 DEF Load, RefreshRefused, LoadUnreadable
    <3> QED BY <3>1 DEF KeysInv, KeysTyped, LossesAreEarly, SessionLasts, RecordThere
  <2>2. CASE LoadUnreadable(p) /\ SameRecord(p)
    <3>1. PICK b \in Browsers : b = keyCall[p].browser BY <1>2
    <3>2. /\ browserSession' = [browserSession EXCEPT ![b].on = FALSE]
          /\ keyLosses' = keyLosses \cup {[key |-> keyCall[p].key, at |-> KeyOf(p)]}
          /\ KeyOf(p) < keyCall[p].key
      BY <2>2, <1>2, <3>1 DEF LoadUnreadable, KeyOf
    <3>3. /\ browserSession' \in [Browsers -> SessionRecords]
          /\ ~SessionLasts(b)' /\ browserSession'[b].until = browserSession[b].until
          /\ \A c \in Browsers \ {b} : browserSession'[c] = browserSession[c]
      BY <3>2, SessionOffIs DEF KeysInv
    <3>4. LossesAreEarly' BY <3>2 DEF KeysInv, LossesAreEarly
    <3> QED BY <1>1, <3>3, <3>4 DEF SessionLasts, RecordThere
  <2>3. CASE RefreshTokens(p)
    <3>1. PICK b \in Browsers : b = keyCall[p].browser BY <1>2
    <3>2. RemainingTtl(b, keyCall[p].since) \in Int /\ KeyOf(p) \in Nat
          /\ browserSession[b] \in SessionRecords /\ keyTime \in Nat
      BY <1>2, TtlsAreOrdered
         DEF KeysInv, KeysTyped, SessionRecords, RemainingTtl, LesserOf, KeyOf, SessionKeysUsed, NoKey
    <3>3. keyLosses' = keyLosses
          /\ browserSession' = [browserSession EXCEPT ![b].key = KeyOf(p), ![b].revision = @ + 1,
                                  ![b].expires = keyTime + RemainingTtl(b, keyCall[p].since)]
      BY <2>3, <3>1 DEF RefreshTokens
    <3>4. /\ browserSession' \in [Browsers -> SessionRecords]
          /\ browserSession'[b].until = browserSession[b].until
          /\ browserSession'[b].key = KeyOf(p)
          /\ \A c \in Browsers \ {b} : browserSession'[c] = browserSession[c]
      BY <3>2, <3>3 DEF KeysInv, KeysTyped, SessionRecords
    <3> QED BY <1>1, <3>3, <3>4 DEF KeysInv, LossesAreEarly, SessionLasts, RecordThere
  <2> QED BY <2>1, <2>2, <2>3
<1>4. keyCall'[p] = FreeProcess /\ DOMAIN keyCall' = KeyProcesses
      /\ \A q \in KeyProcesses \ {p} : keyCall'[q] = keyCall[q]
  BY <1>1 DEF KeysInv, KeysTyped, Frees
<1>5. KeysTyped' /\ SessionKeysTyped'
  BY <1>1, <1>3, <1>4 DEF KeysInv, KeysTyped, SessionKeysTyped
<1>6. KeyProcesses # {} => \E k \in SessionKeysUsed : (IsNewest(k) /\ NewestHolds(k))'
  BY <1>1, <1>2, <1>3, SessionsKeep
<1>7. \A q \in KeyProcesses : KeyCallHolds(q)'
  BY <1>1, <1>4 DEF KeysInv, KeyCallHolds, Up
<1> QED BY <1>3, <1>5, <1>6, <1>7 DEF KeysInv

LEMMA KeyTickKeeps ==
  ASSUME KeysInv, KeyTick
  PROVE  KeysInv'
<1>1. /\ KeysTyped' /\ SessionKeysTyped' /\ LossesAreEarly'
      /\ \A c \in Browsers : SessionLasts(c)' => SessionLasts(c)
  BY TtlsAreOrdered DEF KeyTick, KeysInv, KeysTyped, SessionRecords, SessionKeysTyped, LossesAreEarly, SessionLasts, RecordThere
<1>2. KeyProcesses # {} => \E k \in SessionKeysUsed : (IsNewest(k) /\ NewestHolds(k))'
  BY <1>1, SessionsKeep DEF KeyTick
<1> QED BY <1>1, <1>2 DEF KeysInv, KeyTick, KeyCallHolds, Up

LEMMA KeysStay == SessionKeysSpec => []KeysAreKept
<1>1. KeysInv /\ [SessionKeysNext]_keyVars => KeysInv'
  <2> SUFFICES ASSUME KeysInv, [SessionKeysNext]_keyVars PROVE KeysInv'
    OBVIOUS
  <2>1. CASE SessionKeysNext
    BY <2>1, IntroduceKeeps, RetireKeeps, SignInKeeps, TouchKeeps, AnswersKeep, KeyTickKeeps
       DEF SessionKeysNext
  <2>2. CASE UNCHANGED keyVars
    <3>1. \A c \in Browsers : SessionLasts(c)' => SessionLasts(c)
      BY <2>2 DEF keyVars, SessionLasts, RecordThere
    <3>2. KeyProcesses # {} => \E k \in SessionKeysUsed : (IsNewest(k) /\ NewestHolds(k))'
      BY <2>2, <3>1, SessionsKeep DEF keyVars
    <3> QED
      BY <2>2, <3>2 DEF keyVars, KeysInv, KeysTyped, SessionRecords, SessionKeysTyped, LossesAreEarly, KeyCallHolds, Up
  <2> QED BY <2>1, <2>2
<1>2. KeysInv => KeysAreKept
  BY LastingKeyIsKnown DEF KeysInv, KeysAreKept, NewestKeyReadsAll, HasNewest
<1> QED BY <1>1, <1>2, KeysInitially, PTL DEF SessionKeysSpec

-----------------------------------------------------------------------------
(* Logins and their tokens.                                                *)

Tokens == [refresh : Nat, key : Nat]
LoginPlaces == {"exchanging", "issued", "creating"}
SessionPlaces ==
  {"recording", "checking", "ending", "leasing", "rereading", "refreshing", "renewed", "rotating"}
Jobs == [at : {"free", "offering"} \cup LoginPlaces \cup SessionPlaces, revision : Nat, tokens : Tokens]

LoginsTyped ==
  /\ loginStored \in BOOLEAN /\ loginCode \in {"none", "issued", "spent"}
  /\ signIn \in [there : BOOLEAN, revision : Nat, tokens : Tokens]
  /\ idp \in [grants : Nat, refresh : Nat, key : Nat, over : BOOLEAN]
  /\ keySet \in [newest : Nat, cooling : BOOLEAN]
  /\ job \in [LoginRequests -> Jobs]

LoggingIn(r) == job[r].at \in LoginPlaces

\* There is one login, and its session is stored once.
SignInHolds ==
  /\ signIn.there => signIn.revision # 0
  /\ signIn.revision # 0 => ~loginStored /\ loginCode # "none"
  /\ signIn.tokens.refresh <= idp.refresh

\* What a request has of the session it found: tokens that are not older than those stored
\* with the same credential, which go on being the session's.
JobHolds(r) ==
  /\ job[r].revision <= signIn.revision /\ job[r].tokens.refresh <= idp.refresh
  /\ job[r].at \in SessionPlaces => job[r].revision # 0
  /\ LoggingIn(r) => signIn.revision = 0 /\ ~loginStored /\ loginCode # "none"
  /\ job[r].at \in {"issued", "creating"} => job[r].tokens.refresh = idp.refresh
  /\ job[r].revision = signIn.revision =>
       /\ job[r].at = "refreshing" => job[r].tokens = signIn.tokens
       /\ job[r].at \in {"renewed", "rotating"} => job[r].tokens.refresh >= signIn.tokens.refresh

LoginsInv ==
  /\ LoginsTyped /\ SignInHolds
  /\ \A r \in LoginRequests : JobHolds(r)
  /\ \A r, q \in LoginRequests : LoggingIn(r) /\ LoggingIn(q) => r = q
  /\ StoredTokensWork /\ RefusalsHaveReasons

LEMMA LoginsInitially == LoginsInit => LoginsInv
<1> SUFFICES ASSUME LoginsInit PROVE LoginsInv OBVIOUS
<1> USE DEF LoginsInit, NoTokens, NoJob, NoKeys
<1>1. LoginsTyped BY DEF LoginsTyped, Jobs, Tokens
<1>2. SignInHolds BY DEF SignInHolds
<1>3. \A r \in LoginRequests : JobHolds(r) /\ ~LoggingIn(r)
  <2> TAKE r \in LoginRequests
  <2>1. job[r].at = "free" /\ job[r].revision = 0 /\ job[r].tokens.refresh = 0
        /\ signIn.revision = 0 /\ idp.refresh = 0
    OBVIOUS
  <2> HIDE DEF LoginsInit
  <2> QED BY <2>1 DEF JobHolds, LoggingIn, LoginPlaces, SessionPlaces
<1>4. StoredTokensWork /\ RefusalsHaveReasons BY DEF StoredTokensWork, RefusalsHaveReasons
<1> QED BY <1>1, <1>2, <1>3, <1>4 DEF LoginsInv

-----------------------------------------------------------------------------
(* A request's step.                                                       *)

\* The request is at another place, and the others are where they were.
JobIs(r, place, revision, tokens) ==
  /\ job' \in [LoginRequests -> Jobs]
  /\ job'[r].at = place /\ job'[r].revision = revision /\ job'[r].tokens = tokens
  /\ \A q \in LoginRequests \ {r} : job'[q] = job[q]

LEMMA ProceedsIs ==
  ASSUME LoginsTyped, NEW r \in LoginRequests, NEW place, NEW tokens \in Tokens,
         place \in {"free", "offering"} \cup LoginPlaces \cup SessionPlaces,
         Proceeds(r, place, tokens)
  PROVE  JobIs(r, place, job[r].revision, tokens)
BY DEF LoginsTyped, Jobs, Proceeds, JobIs

LEMMA GoesOnIs ==
  ASSUME LoginsTyped, NEW r \in LoginRequests, NEW place,
         place \in {"free", "offering"} \cup LoginPlaces \cup SessionPlaces,
         GoesOn(r, place)
  PROVE  JobIs(r, place, job[r].revision, job[r].tokens)
BY DEF LoginsTyped, Jobs, GoesOn, Proceeds, JobIs

LEMMA BeginsIs ==
  ASSUME LoginsTyped, NEW r \in LoginRequests, NEW place, NEW revision \in Nat, NEW tokens \in Tokens,
         place \in {"free", "offering"} \cup LoginPlaces \cup SessionPlaces,
         Begins(r, revision, place, tokens)
  PROVE  JobIs(r, place, revision, tokens)
BY DEF LoginsTyped, Jobs, Begins, JobIs

\* What the provider grants, and what the store keeps of it.
LEMMA IssuesIs ==
  ASSUME LoginsTyped, NEW new \in BOOLEAN, Issues(new)
  PROVE  /\ idp' \in [grants : Nat, refresh : Nat, key : Nat, over : BOOLEAN]
         /\ idp'.refresh = IF new THEN idp.refresh + 1 ELSE idp.refresh
<1>1. idp \in [grants : Nat, refresh : Nat, key : Nat, over : BOOLEAN] BY DEF LoginsTyped
<1>2. idp' = [[idp EXCEPT !.grants = idp.grants + 1]
                EXCEPT !.refresh = IF new THEN idp.refresh + 1 ELSE idp.refresh]
  BY <1>1 DEF Issues
<1>3. PICK n \in Nat : n = IF new THEN idp.refresh + 1 ELSE idp.refresh
  BY <1>1
<1>4. PICK g \in Nat : g = idp.grants + 1 
  BY <1>1
<1>5. idp' = [[idp EXCEPT !.grants = g] EXCEPT !.refresh = n] BY <1>2, <1>3, <1>4
<1>6. idp' \in [grants : Nat, refresh : Nat, key : Nat, over : BOOLEAN] BY <1>1, <1>5
<1>7. idp'.refresh = n BY <1>1, <1>5
<1> QED BY <1>3, <1>6, <1>7

LEMMA GivenTokens ==
  ASSUME LoginsTyped, NEW tokens \in Tokens,
         signIn' = [signIn EXCEPT !.revision = @ + 1, !.tokens = tokens]
  PROVE  /\ signIn' \in [there : BOOLEAN, revision : Nat, tokens : Tokens]
         /\ signIn'.revision = signIn.revision + 1 /\ signIn'.tokens = tokens
         /\ signIn'.there = signIn.there
<1>1. signIn \in [there : BOOLEAN, revision : Nat, tokens : Tokens] BY DEF LoginsTyped
<1>2. PICK n \in Nat : n = signIn.revision + 1 BY <1>1
<1>3. signIn' = [signIn EXCEPT !.revision = n, !.tokens = tokens] BY <1>2
<1> HIDE DEF LoginsTyped
<1> QED BY ONLY <1>1, <1>2, <1>3, tokens \in Tokens

\* A refusal with a reason is none without; and one without is for what it is given for.
LEMMA JudgedIs ==
  ASSUME NEW r, NEW kind, NEW fact, Judged(r, kind, fact),
         \/ fact # {} /\ fact \subseteq Misjudged
         \/ /\ kind = "callback_invalid" =>
                 (FactsFor(r) \cup fact) \cap {"noLogin", "noCode", "unsound"} # {}
            /\ kind = "unauthorized" =>
                 (FactsFor(r) \cup fact) \cap {"noSession", "expired", "over", "behind"} # {}
  PROVE  RefusalsHaveReasons'
<1>1. DOMAIN ReasonsFor = {"callback_invalid", "unauthorized"}
      /\ ReasonsFor["callback_invalid"] = {"noLogin", "noCode", "unsound"}
      /\ ReasonsFor["unauthorized"] = {"noSession", "expired", "over", "behind"}
  BY DEF ReasonsFor
<1>2. unreasoned' \subseteq Misjudged
  <2>1. CASE kind \in DOMAIN ReasonsFor /\ (FactsFor(r) \cup fact) \cap ReasonsFor[kind] = {}
    <3>1. fact # {} /\ fact \subseteq Misjudged BY <1>1, <2>1
    <3> QED BY <2>1, <3>1 DEF Judged
  <2>2. CASE ~(kind \in DOMAIN ReasonsFor /\ (FactsFor(r) \cup fact) \cap ReasonsFor[kind] = {})
    BY <2>2 DEF Judged
  <2> QED BY <2>1, <2>2
<1> QED BY <1>2 DEF RefusalsHaveReasons, Misjudged

LEMMA AnswerIs ==
  ASSUME LoginsInv, NEW r \in LoginRequests, NEW kind, NEW fact, RepliesWith(r, kind, fact),
         \/ fact # {} /\ fact \subseteq Misjudged
         \/ /\ kind = "callback_invalid" =>
                 (FactsFor(r) \cup fact) \cap {"noLogin", "noCode", "unsound"} # {}
            /\ kind = "unauthorized" =>
                 (FactsFor(r) \cup fact) \cap {"noSession", "expired", "over", "behind"} # {}
  PROVE  RefusalsHaveReasons' /\ JobIs(r, "free", 0, NoTokens)
<1>1. RefusalsHaveReasons' BY JudgedIs DEF RepliesWith
<1>2. NoJob \in Jobs BY DEF NoJob, Jobs, NoTokens, Tokens
<1> QED BY <1>1, <1>2 DEF LoginsInv, LoginsTyped, RepliesWith, JobIs, NoJob

\* The token calls that bring no tokens: refused, the provider's failure, or taken for one.
LEMMA FailuresAre ==
  ASSUME NEW failure \in TokenFailures
  PROVE  \/ failure = "refused"
         \/ /\ CallbackFailure(failure) = "unavailable"
            /\ RefreshFailure(failure) = "unavailable"
         \/ failure \in Misjudged
BY DEF TokenFailures, CallbackFailure, RefreshFailure, DependencyFailure, Misjudged

\* What the others have is not disturbed.
FrameOf(r) ==
  /\ idp'.refresh >= idp.refresh /\ signIn'.revision >= signIn.revision
  /\ signIn'.revision = signIn.revision => signIn'.tokens = signIn.tokens
  /\ \/ idp'.refresh = idp.refresh /\ signIn'.revision = signIn.revision
     \/ \A q \in LoginRequests \ {r} : ~LoggingIn(q)
  /\ loginStored' => \A q \in LoginRequests \ {r} : ~LoggingIn(q)
  /\ loginCode # "none" => loginCode' # "none"

\* What a request's step has to show.
RequestKept(r) ==
  /\ LoginsTyped' /\ SignInHolds' /\ FrameOf(r)
  /\ \A q \in LoginRequests \ {r} : job'[q] = job[q]
  /\ JobHolds(r)'
  /\ LoggingIn(r)' => \A q \in LoginRequests \ {r} : ~LoggingIn(q)
  /\ StoredTokensWork' /\ RefusalsHaveReasons'

LEMMA RequestKeeps ==
  ASSUME LoginsInv, NEW r \in LoginRequests, RequestKept(r)
  PROVE  LoginsInv'
<1>1. \A q \in LoginRequests \ {r} : JobHolds(q)'
  <2> TAKE q \in LoginRequests \ {r}
  <2>1. JobHolds(q) /\ job'[q] = job[q] /\ job[q] \in Jobs BY DEF LoginsInv, LoginsTyped, RequestKept
  <2>2. FrameOf(r) /\ LoginsTyped /\ LoginsTyped' BY DEF LoginsInv, RequestKept
  <2>3. job[q].revision \in Nat /\ job[q].tokens.refresh \in Nat /\ job[q].tokens.key \in Nat
        /\ signIn.revision \in Nat /\ signIn'.revision \in Nat /\ idp.refresh \in Nat
        /\ idp'.refresh \in Nat /\ loginStored' \in BOOLEAN
    BY <2>1, <2>2 DEF LoginsTyped, Jobs, Tokens
  <2>4. LoggingIn(q)' = LoggingIn(q) BY <2>1 DEF LoggingIn
  <2>5. LoggingIn(q) => idp'.refresh = idp.refresh /\ signIn'.revision = signIn.revision
                        /\ ~loginStored'
    BY <2>2 DEF FrameOf
  <2>6. job[q].revision = signIn'.revision => signIn'.revision = signIn.revision
                                              /\ signIn'.tokens = signIn.tokens
    BY <2>1, <2>2, <2>3 DEF JobHolds, FrameOf
  <2>7. job[q].at \in {"issued", "creating"} => LoggingIn(q) BY DEF LoggingIn, LoginPlaces
  <2> QED BY <2>1, <2>2, <2>3, <2>4, <2>5, <2>6, <2>7 DEF FrameOf, JobHolds
<1>2. \A p, q \in LoginRequests : LoggingIn(p)' /\ LoggingIn(q)' => p = q
  BY DEF LoginsInv, RequestKept, LoggingIn
<1> QED BY <1>1, <1>2 DEF LoginsInv, RequestKept

\* The tokens of the session go on working while it is not given others.
LEMMA WorkStays ==
  ASSUME LoginsInv, NEW r \in LoginRequests,
         \A q \in LoginRequests \ {r} : job'[q] = job[q],
         signIn'.there => signIn.there, signIn'.tokens = signIn.tokens,
         idp'.refresh = idp.refresh, neverStored \subseteq neverStored',
         CarriesNewer(r) => \/ job[r].tokens.refresh \in neverStored'
                            \/ CarriesNewer(r)' /\ job'[r].tokens.refresh = job[r].tokens.refresh
  PROVE  StoredTokensWork'
<1> SUFFICES ASSUME signIn'.there PROVE
      \/ signIn'.tokens.refresh = idp'.refresh
      \/ idp'.refresh \in neverStored'
      \/ \E q \in LoginRequests : CarriesNewer(q)' /\ job'[q].tokens.refresh = idp'.refresh
  BY DEF StoredTokensWork
<1>1. \A q \in LoginRequests \ {r} : CarriesNewer(q)' = CarriesNewer(q)
  BY DEF CarriesNewer
<1>2. \/ signIn.tokens.refresh = idp.refresh
      \/ idp.refresh \in neverStored
      \/ \E q \in LoginRequests : CarriesNewer(q) /\ job[q].tokens.refresh = idp.refresh
  BY DEF LoginsInv, StoredTokensWork
<1> QED BY <1>1, <1>2

\* A step of a request that leaves the tokens of the session, or ends it, and does not ask
\* for others: what the request then has.
Has(r, place, revision, tokens) ==
  /\ JobIs(r, place, revision, tokens)
  /\ revision <= signIn.revision /\ tokens.refresh <= idp.refresh
  /\ place \in SessionPlaces => revision # 0
  /\ place \in LoginPlaces => /\ ~loginStored'
                              /\ LoggingIn(r) \/ (loginStored /\ loginCode # "none")
  /\ place \in {"issued", "creating"} => tokens.refresh = idp.refresh
  /\ revision = signIn.revision =>
       /\ place = "refreshing" => tokens = signIn.tokens
       /\ place \in {"renewed", "rotating"} => tokens.refresh >= signIn.tokens.refresh

Keeps(r) ==
  /\ LoginsTyped' /\ RefusalsHaveReasons'
  /\ idp'.refresh = idp.refresh /\ signIn'.revision = signIn.revision
  /\ signIn'.tokens = signIn.tokens /\ (signIn'.there => signIn.there)
  /\ loginCode # "none" => loginCode' # "none"
  /\ loginStored' => loginStored \/ loginCode = "none"
  /\ neverStored \subseteq neverStored'
  /\ CarriesNewer(r) => \/ job[r].tokens.refresh \in neverStored'
                        \/ CarriesNewer(r)' /\ job'[r].tokens.refresh = job[r].tokens.refresh

LEMMA QuietKeeps ==
  ASSUME LoginsInv, NEW r \in LoginRequests, Keeps(r),
         NEW place, NEW revision, NEW tokens, Has(r, place, revision, tokens)
  PROVE  RequestKept(r)
<1>1. /\ signIn.revision \in Nat /\ idp.refresh \in Nat /\ loginStored \in BOOLEAN
      /\ LoginsTyped' /\ RefusalsHaveReasons'
  BY DEF LoginsInv, LoginsTyped, Keeps
<1>2. \A q \in LoginRequests : LoggingIn(q) => signIn.revision = 0 /\ ~loginStored /\ loginCode # "none"
  BY DEF LoginsInv, JobHolds
<1>3. SignInHolds /\ SignInHolds'
  BY DEF LoginsInv, SignInHolds, Keeps
<1>4. loginStored' => signIn.revision = 0 /\ \A q \in LoginRequests : ~LoggingIn(q)
  BY <1>2, <1>3 DEF SignInHolds, Keeps
<1>5. FrameOf(r)
  BY <1>1, <1>4 DEF Keeps, FrameOf
<1>6. place \in LoginPlaces => /\ signIn.revision = 0 /\ loginCode # "none"
                               /\ \A q \in LoginRequests \ {r} : ~LoggingIn(q)
  BY <1>2, <1>3 DEF Has, SignInHolds, LoginsInv
<1>7. JobHolds(r)' /\ (LoggingIn(r)' => \A q \in LoginRequests \ {r} : ~LoggingIn(q))
  BY <1>6 DEF Has, JobIs, JobHolds, LoggingIn, Keeps
<1>8. StoredTokensWork'
  BY WorkStays DEF Keeps, Has, JobIs
<1> QED BY <1>1, <1>3, <1>5, <1>7, <1>8 DEF RequestKept, Has, JobIs

\* The request is over.
LEMMA OverKeeps ==
  ASSUME LoginsInv, NEW r \in LoginRequests, Keeps(r), JobIs(r, "free", 0, NoTokens)
  PROVE  RequestKept(r)
<1>1. signIn.revision \in Nat /\ idp.refresh \in Nat
  BY DEF LoginsInv, LoginsTyped
<1>2. Has(r, "free", 0, NoTokens)
  BY <1>1 DEF Has, NoTokens, SessionPlaces, LoginPlaces
<1> QED BY <1>2, QuietKeeps

-----------------------------------------------------------------------------
(* Login.                                                                  *)

\* The steps that answer a request, and what they answer for.
LEMMA AnswersKept ==
  ASSUME LoginsInv, NEW r \in LoginRequests,
         \/ RefuseTarget(r) \/ SendToProvider(r) \/ TakeLoginBack(r) \/ ExchangeFails(r)
         \/ DropSession(r) \/ CommandFails(r)
  PROVE  RequestKept(r)
<1> USE DEF LoginsInv, LoginsTyped, JobAt
<1>1. CASE RefuseTarget(r)
  <2>1. JobIs(r, "free", 0, NoTokens) /\ RefusalsHaveReasons' BY <1>1, AnswerIs DEF RefuseTarget
  <2>2. Keeps(r) BY <1>1, <2>1 DEF RefuseTarget, Keeps, JobIs, CarriesNewer, provider
  <2> QED BY <2>1, <2>2, OverKeeps
<1>2. CASE SendToProvider(r)
  <2>1. JobIs(r, "free", 0, NoTokens) /\ RefusalsHaveReasons' BY <1>2, AnswerIs DEF SendToProvider, Replies
  <2>2. Keeps(r) BY <1>2, <2>1 DEF SendToProvider, Keeps, JobIs, CarriesNewer
  <2> QED BY <2>1, <2>2, OverKeeps
<1>3. CASE TakeLoginBack(r)
  <2>1. JobIs(r, "free", 0, NoTokens) /\ RefusalsHaveReasons' BY <1>3, AnswerIs DEF TakeLoginBack, Replies
  <2>2. Keeps(r) BY <1>3, <2>1 DEF TakeLoginBack, Keeps, JobIs, CarriesNewer, provider
  <2> QED BY <2>1, <2>2, OverKeeps
<1>4. CASE ExchangeFails(r)
  <2> DEFINE fact(failure) == {failure} \cup IF idp.over THEN {"noCode"} ELSE {}
  <2>1. PICK failure \in TokenFailures :
          /\ failure = "refused" => loginCode # "issued" \/ idp.over
          /\ RepliesWith(r, CallbackFailure(failure), fact(failure))
    BY <1>4 DEF ExchangeFails
  <2>2. "noCode" \in FactsFor(r) <=> loginCode # "issued"
    BY <1>4 DEF ExchangeFails, FactsFor
  <2>3. CallbackFailure(failure) \in {"unavailable", "callback_invalid"}
    BY DEF CallbackFailure
  <2>4. JobIs(r, "free", 0, NoTokens) /\ RefusalsHaveReasons'
    <3>1. CASE CallbackFailure(failure) = "unavailable" BY <2>1, <3>1, AnswerIs
    <3>2. CASE loginCode # "issued" \/ idp.over
      <4>1. (FactsFor(r) \cup fact(failure)) \cap {"noLogin", "noCode", "unsound"} # {}
        BY <2>2, <3>2
      <4> HIDE DEF fact
      <4> QED BY <2>1, <2>3, <4>1, AnswerIs
    <3>3. CASE failure \in Misjudged /\ ~idp.over
      <4>1. fact(failure) = {failure} BY <3>3
      <4> HIDE DEF fact
      <4> QED BY <2>1, <3>3, <4>1, AnswerIs
    <3> QED BY <2>1, <3>1, <3>2, <3>3, FailuresAre
  <2>5. Keeps(r) BY <1>4, <2>4 DEF ExchangeFails, Keeps, JobIs, CarriesNewer
  <2> QED BY <2>4, <2>5, OverKeeps
<1>5. CASE DropSession(r)
  <2>1. JobIs(r, "free", 0, NoTokens) /\ RefusalsHaveReasons' BY <1>5, AnswerIs DEF DropSession, Replies
  <2>2. Keeps(r) BY <1>5, <2>1 DEF DropSession, CommandAt, Keeps, JobIs, CarriesNewer, provider
  <2> QED BY <2>1, <2>2, OverKeeps
<1>6. CASE CommandFails(r)
  <2>1. JobIs(r, "free", 0, NoTokens) /\ RefusalsHaveReasons' BY <1>6, AnswerIs DEF CommandFails, Replies
  <2>2. Keeps(r) BY <1>6, <2>1 DEF CommandFails, Forgets, Keeps, JobIs, provider
  <2> QED BY <2>1, <2>2, OverKeeps
<1> QED BY <1>1, <1>2, <1>3, <1>4, <1>5, <1>6

LEMMA LoginStepsKept ==
  ASSUME LoginsInv, NEW r \in LoginRequests, StoreLogin(r) \/ ConsumeLogin(r)
  PROVE  RequestKept(r)
<1>0. JobHolds(r) /\ job[r] \in Jobs BY DEF LoginsInv, LoginsTyped
<1> USE DEF LoginsInv, LoginsTyped, JobAt, Silent, provider
<1>1. CASE StoreLogin(r)
  <2>1. JobIs(r, "offering", job[r].revision, job[r].tokens) BY <1>1, GoesOnIs DEF StoreLogin
  <2>2. Keeps(r)
    BY <1>1, <2>1 DEF StoreLogin, CommandAt, Keeps, JobIs, CarriesNewer, RefusalsHaveReasons
  <2>3. Has(r, "offering", job[r].revision, job[r].tokens)
    BY <1>0, <2>1 DEF Has, JobHolds, SessionPlaces, LoginPlaces
  <2> QED BY <2>2, <2>3, QuietKeeps
<1>2. CASE ConsumeLogin(r) /\ loginStored
  <2>1. JobIs(r, "exchanging", job[r].revision, job[r].tokens)
    BY <1>2, GoesOnIs DEF ConsumeLogin, LoginPlaces
  <2>2. Keeps(r)
    BY <1>2, <2>1 DEF ConsumeLogin, CommandAt, Keeps, JobIs, CarriesNewer, RefusalsHaveReasons
  <2>3. Has(r, "exchanging", job[r].revision, job[r].tokens)
    BY <1>0, <1>2, <2>1 DEF ConsumeLogin, Has, JobHolds, SessionPlaces, LoginPlaces
  <2> QED BY <2>2, <2>3, QuietKeeps
<1>3. CASE ConsumeLogin(r) /\ ~loginStored
  <2>1. "noLogin" \in FactsFor(r) BY <1>3 DEF ConsumeLogin, CommandAt, FactsFor
  <2>2. JobIs(r, "free", 0, NoTokens) /\ RefusalsHaveReasons'
    BY <1>3, <2>1, AnswerIs DEF ConsumeLogin, Replies
  <2>3. Keeps(r) BY <1>3, <2>2 DEF ConsumeLogin, CommandAt, Keeps, JobIs, CarriesNewer
  <2> QED BY <2>2, <2>3, OverKeeps
<1> QED BY <1>1, <1>2, <1>3

LEMMA ExchangeKept ==
  ASSUME LoginsInv, NEW r \in LoginRequests, ExchangeCode(r)
  PROVE  RequestKept(r)
<1> DEFINE answer == NormalizeTokenResult(Issued(TRUE), NoTokens)
<1>0. LoginsTyped /\ JobHolds(r) /\ job[r] \in Jobs /\ job[r].at = "exchanging"
  BY DEF LoginsInv, LoginsTyped, ExchangeCode, JobAt
<1>1. answer \in Tokens /\ answer.refresh = idp.refresh + 1
  BY <1>0 DEF NormalizeTokenResult, Issued, LoginsTyped, Tokens
<1>2. /\ JobIs(r, "issued", job[r].revision, answer)
      /\ idp'.refresh = idp.refresh + 1 /\ idp' \in [grants : Nat, refresh : Nat, key : Nat, over : BOOLEAN]
  <2>1. Issues(TRUE) /\ Proceeds(r, "issued", answer) BY DEF ExchangeCode
  <2>2. idp'.refresh = idp.refresh + 1 /\ idp' \in [grants : Nat, refresh : Nat, key : Nat, over : BOOLEAN]
    BY <1>0, <2>1, IssuesIs
  <2> HIDE DEF answer
  <2>3. JobIs(r, "issued", job[r].revision, answer)
    BY <1>0, <1>1, <2>1, ProceedsIs DEF LoginPlaces
  <2> QED BY <2>2, <2>3
<1> HIDE DEF answer
<1>3. LoginsTyped' /\ RefusalsHaveReasons'
  BY <1>0, <1>2 DEF ExchangeCode, LoginsInv, LoginsTyped, Silent, RefusalsHaveReasons, JobIs
<1>4. /\ signIn.revision = 0 /\ ~loginStored /\ loginCode # "none" /\ ~signIn.there
      /\ \A q \in LoginRequests \ {r} : ~LoggingIn(q)
      /\ UNCHANGED <<signIn, loginStored>> /\ loginCode' # "none"
  BY <1>0 DEF LoginsInv, SignInHolds, JobHolds, LoggingIn, LoginPlaces, ExchangeCode
<1>5. SignInHolds' /\ StoredTokensWork'
  BY <1>0, <1>2, <1>4 DEF LoginsInv, LoginsTyped, SignInHolds, StoredTokensWork, Tokens
<1>6. FrameOf(r)
  BY <1>0, <1>2, <1>4 DEF LoginsTyped, FrameOf
<1>7. JobHolds(r)'
  BY <1>0, <1>1, <1>2, <1>4 DEF JobHolds, JobIs, LoggingIn, SessionPlaces, LoginPlaces, LoginsTyped, Jobs
<1> QED BY <1>2, <1>3, <1>4, <1>5, <1>6, <1>7 DEF RequestKept, JobIs

LEMMA CreateKept ==
  ASSUME LoginsInv, NEW r \in LoginRequests, CreateSession(r)
  PROVE  RequestKept(r)
<1>0. LoginsTyped /\ JobHolds(r) /\ job[r] \in Jobs /\ job[r].at = "creating"
  BY DEF LoginsInv, LoginsTyped, CreateSession, CommandAt, JobAt
<1>1. signIn' = [there |-> TRUE, revision |-> 1, tokens |-> job[r].tokens]
      /\ UNCHANGED <<loginStored, loginCode, idp, keySet>>
      /\ unreasoned' = {}
  BY DEF CreateSession, Silent, provider
<1>2. JobIs(r, "recording", 1, NoTokens)
  BY <1>0 DEF CreateSession, JobIs, LoginsTyped, NoJob, NoTokens, Jobs, Tokens, SessionPlaces
<1>3. LoginsTyped' /\ RefusalsHaveReasons'
  BY <1>0, <1>1, <1>2 DEF LoginsInv, LoginsTyped, RefusalsHaveReasons, JobIs, Jobs
<1>4. /\ signIn.revision = 0 /\ ~loginStored /\ loginCode # "none" /\ job[r].tokens.refresh = idp.refresh
      /\ \A q \in LoginRequests \ {r} : ~LoggingIn(q)
  BY <1>0 DEF LoginsInv, JobHolds, LoggingIn, LoginPlaces
<1>5. SignInHolds' /\ StoredTokensWork'
  BY <1>0, <1>1, <1>4 DEF SignInHolds, StoredTokensWork, LoginsTyped
<1>6. FrameOf(r)
  BY <1>0, <1>1, <1>4 DEF LoginsTyped, FrameOf
<1>7. JobHolds(r)' /\ ~LoggingIn(r)'
  BY <1>0, <1>1, <1>2 DEF JobHolds, JobIs, LoggingIn, SessionPlaces, LoginPlaces, LoginsTyped, NoTokens
<1> QED BY <1>2, <1>3, <1>4, <1>5, <1>6, <1>7 DEF RequestKept, JobIs

LEMMA RecordKept ==
  ASSUME LoginsInv, NEW r \in LoginRequests, RecordCredential(r)
  PROVE  RequestKept(r)
<1>1. \/ Replies(r, "ok") /\ UNCHANGED signIn
      \/ Replies(r, "unavailable") /\ signIn' \in {signIn, [signIn EXCEPT !.there = FALSE]}
  BY DEF RecordCredential
<1>2. JobIs(r, "free", 0, NoTokens) /\ RefusalsHaveReasons'
  BY <1>1, AnswerIs DEF Replies
<1>3. signIn'.revision = signIn.revision /\ signIn'.tokens = signIn.tokens
      /\ (signIn'.there => signIn.there)
      /\ signIn' \in [there : BOOLEAN, revision : Nat, tokens : Tokens]
  BY <1>1 DEF LoginsInv, LoginsTyped
<1>4. Keeps(r)
  BY <1>2, <1>3 DEF RecordCredential, LoginsInv, LoginsTyped, Keeps, JobIs, CarriesNewer, JobAt, provider
<1> QED BY <1>2, <1>4, OverKeeps

-----------------------------------------------------------------------------
(* The check of tokens.                                                    *)

LEMMA VerificationsAre ==
  ASSUME LoginsTyped, NEW tokens, NEW v \in Verifications(tokens)
  PROVE  /\ v.keys \in [newest : Nat, cooling : BOOLEAN]
         /\ v.verdict \in {"sound", "unreachable"} \cup Invalid
<1>1. CASE KeyKnown(tokens)
  BY <1>1 DEF LoginsTyped, Verifications, Invalid
<1>2. CASE ~KeyKnown(tokens) /\ Fetches(tokens)
  <2>1. v \in [verdict : {"sound", "expired"}, keys : {[newest |-> idp.key, cooling |-> TRUE]}]
        \/ v \in [verdict : {"unreachable", "misread"}, keys : {keySet}]
    BY <1>2 DEF Verifications
  <2>2. [newest |-> idp.key, cooling |-> TRUE] \in [newest : Nat, cooling : BOOLEAN]
    BY DEF LoginsTyped
  <2> QED BY <2>1, <2>2 DEF LoginsTyped, Invalid
<1>3. CASE ~KeyKnown(tokens) /\ ~Fetches(tokens)
  BY <1>3 DEF LoginsTyped, Verifications, Invalid
<1> QED BY <1>1, <1>2, <1>3

LEMMA VerifyKept ==
  ASSUME LoginsInv, NEW r \in LoginRequests, NEW next \in {"creating", "rotating"},
         job[r].at = (IF next = "creating" THEN "issued" ELSE "renewed"), VerifyIssued(r, next)
  PROVE  RequestKept(r)
<1>0. LoginsTyped /\ JobHolds(r) /\ job[r] \in Jobs
  BY DEF LoginsInv, LoginsTyped
<1>1. PICK v \in Verifications(job[r].tokens) :
        /\ keySet' = v.keys
        /\ \/ v.verdict = "sound" /\ GoesOn(r, next) /\ UNCHANGED <<neverStored>> /\ Silent
           \/ v.verdict = "unreachable" /\ Replies(r, "unavailable") /\ Forgets(r)
           \/ v.verdict \in Invalid /\ RepliesWith(r, "unauthorized", {v.verdict}) /\ Forgets(r)
  BY DEF VerifyIssued
<1>2. keySet' \in [newest : Nat, cooling : BOOLEAN] /\ UNCHANGED <<link, loginStored, signIn, provider>>
  BY <1>0, <1>1, VerificationsAre DEF VerifyIssued
<1>3. CASE v.verdict = "sound" /\ GoesOn(r, next) /\ UNCHANGED <<neverStored>> /\ Silent
  <2>1. JobIs(r, next, job[r].revision, job[r].tokens)
    BY <1>0, <1>3, GoesOnIs DEF LoginPlaces, SessionPlaces
  <2>2. Keeps(r)
    BY <1>0, <1>2, <1>3, <2>1
       DEF LoginsInv, LoginsTyped, Keeps, JobIs, CarriesNewer, RefusalsHaveReasons, Silent, provider
  <2>3. Has(r, next, job[r].revision, job[r].tokens)
    BY <1>0, <1>2, <2>1 DEF Has, JobHolds, LoggingIn, SessionPlaces, LoginPlaces
  <2> QED BY <2>2, <2>3, QuietKeeps
<1>4. CASE /\ Forgets(r)
           /\ \/ Replies(r, "unavailable")
              \/ v.verdict \in Invalid /\ RepliesWith(r, "unauthorized", {v.verdict})
  <2>1. JobIs(r, "free", 0, NoTokens) /\ RefusalsHaveReasons'
    <3>1. CASE Replies(r, "unavailable") BY <3>1, AnswerIs DEF Replies
    <3>2. CASE v.verdict \in Invalid /\ RepliesWith(r, "unauthorized", {v.verdict})
      <4>1. {v.verdict} \subseteq Misjudged
            \/ (FactsFor(r) \cup {v.verdict}) \cap {"noSession", "expired", "over", "behind"} # {}
        BY <3>2 DEF Invalid, Misjudged
      <4> QED BY <3>2, <4>1, AnswerIs
    <3> QED BY <1>4, <3>1, <3>2
  <2>2. Keeps(r)
    BY <1>0, <1>2, <1>4, <2>1 DEF LoginsTyped, Forgets, Keeps, JobIs, provider
  <2> QED BY <2>1, <2>2, OverKeeps
<1> QED BY <1>1, <1>3, <1>4

LEMMA CheckKept ==
  ASSUME LoginsInv, NEW r \in LoginRequests, CheckToken(r)
  PROVE  RequestKept(r)
<1>0. LoginsTyped /\ JobHolds(r) /\ job[r] \in Jobs /\ job[r].at = "checking"
      /\ UNCHANGED <<link, loginStored, signIn, neverStored, provider>>
  BY DEF LoginsInv, LoginsTyped, CheckToken, JobAt
<1>1. PICK v \in Verifications(job[r].tokens) :
        /\ keySet' = v.keys
        /\ \/ v.verdict = "sound" /\ Replies(r, "ok")
           \/ v.verdict = "unreachable" /\ Replies(r, "unavailable")
           \/ /\ v.verdict \in Invalid /\ Proceeds(r, "ending", NoTokens)
              /\ Judged(r, "unauthorized", {v.verdict})
              /\ UNCHANGED leaseTaken
  BY DEF CheckToken
<1>2. keySet' \in [newest : Nat, cooling : BOOLEAN]
  BY <1>0, <1>1, VerificationsAre
<1>3. CASE Replies(r, "ok") \/ Replies(r, "unavailable")
  <2>1. JobIs(r, "free", 0, NoTokens) /\ RefusalsHaveReasons' BY <1>3, AnswerIs DEF Replies
  <2>2. Keeps(r) BY <1>0, <1>2, <2>1 DEF LoginsTyped, Keeps, JobIs, CarriesNewer, provider
  <2> QED BY <2>1, <2>2, OverKeeps
<1>4. CASE v.verdict \in Invalid /\ Proceeds(r, "ending", NoTokens) /\ Judged(r, "unauthorized", {v.verdict})
  <2>1. NoTokens \in Tokens BY DEF NoTokens, Tokens
  <2>2. JobIs(r, "ending", job[r].revision, NoTokens)
    BY <1>0, <1>4, <2>1, ProceedsIs DEF SessionPlaces
  <2>3. {v.verdict} \subseteq Misjudged
        \/ (FactsFor(r) \cup {v.verdict}) \cap {"noSession", "expired", "over", "behind"} # {}
    BY <1>4 DEF Invalid, Misjudged
  <2>4. RefusalsHaveReasons' BY <1>4, <2>3, JudgedIs
  <2>5. Keeps(r) BY <1>0, <1>2, <2>2, <2>4 DEF LoginsTyped, Keeps, JobIs, CarriesNewer, provider
  <2>6. Has(r, "ending", job[r].revision, NoTokens)
    BY <1>0, <2>2 DEF Has, JobHolds, SessionPlaces, LoginPlaces, NoTokens, LoginsTyped
  <2> QED BY <2>5, <2>6, QuietKeeps
<1> QED BY <1>1, <1>3, <1>4

-----------------------------------------------------------------------------
(* The session's requests.                                                 *)

LEMMA LookUpsKept ==
  ASSUME LoginsInv, NEW r \in LoginRequests, LoadSession(r) \/ LookForRefresh(r)
  PROVE  RequestKept(r)
<1>0. LoginsTyped /\ job[r] \in Jobs /\ job[r].at = "free"
      /\ UNCHANGED <<link, loginStored, signIn, keySet, neverStored, provider>>
  BY DEF LoginsInv, LoginsTyped, LoadSession, LookForRefresh, CommandAt, JobAt
<1>1. NoTokens \in Tokens /\ signIn.tokens \in Tokens /\ signIn.tokens.refresh <= idp.refresh
      /\ NoTokens.refresh <= idp.refresh
  BY <1>0 DEF NoTokens, Tokens, LoginsTyped, LoginsInv, SignInHolds
<1>2. PICK revision \in Named :
        \/ IsStored(revision) /\ Begins(r, revision, "checking", signIn.tokens) /\ Silent
        \/ IsStored(revision) /\ Begins(r, revision, "leasing", NoTokens) /\ Silent
        \/ RepliesWith(r, "unauthorized", {"noSession"})
  BY DEF LoadSession, LookForRefresh
<1>3. CASE RepliesWith(r, "unauthorized", {"noSession"})
  <2>1. JobIs(r, "free", 0, NoTokens) /\ RefusalsHaveReasons'
    <3>1. (FactsFor(r) \cup {"noSession"})
           \cap {"noSession", "expired", "over", "behind", "misread", "unknownKey"} # {}
      OBVIOUS
    <3> QED BY <1>3, <3>1, AnswerIs
  <2>2. Keeps(r) BY <1>0, <2>1 DEF LoginsTyped, Keeps, JobIs, CarriesNewer, provider
  <2> QED BY <2>1, <2>2, OverKeeps
<1>4. ASSUME NEW place \in {"checking", "leasing"}, NEW tokens \in Tokens,
             tokens.refresh <= idp.refresh, IsStored(revision), Begins(r, revision, place, tokens), Silent
      PROVE  RequestKept(r)
  <2>1. revision = signIn.revision /\ revision # 0 /\ revision \in Nat
    BY <1>0, <1>4 DEF IsStored, Named, LoginsTyped
  <2>2. JobIs(r, place, revision, tokens)
    BY <1>0, <1>4, <2>1, BeginsIs DEF SessionPlaces
  <2>3. Keeps(r)
    BY <1>0, <1>4, <2>2
       DEF LoginsInv, LoginsTyped, Keeps, JobIs, CarriesNewer, RefusalsHaveReasons, Silent, provider
  <2>4. Has(r, place, revision, tokens)
    BY <1>0, <1>4, <2>1, <2>2 DEF Has, SessionPlaces, LoginPlaces
  <2> QED BY <2>3, <2>4, QuietKeeps
<1> QED BY <1>1, <1>2, <1>3, <1>4

LEMMA LeaseTakenKept ==
  ASSUME LoginsInv, NEW r \in LoginRequests, TakeLease(r)
  PROVE  RequestKept(r)
<1>0. LoginsTyped /\ JobHolds(r) /\ job[r] \in Jobs /\ job[r].at = "leasing"
      /\ UNCHANGED <<link, loginStored, signIn, keySet, neverStored, provider>>
  BY DEF LoginsInv, LoginsTyped, TakeLease, CommandAt, JobAt
<1>1. CASE leaseTaken
  <2>1. JobIs(r, "free", 0, NoTokens) /\ RefusalsHaveReasons'
    BY <1>1, AnswerIs DEF TakeLease, Replies
  <2>2. Keeps(r) BY <1>0, <2>1 DEF LoginsTyped, Keeps, JobIs, CarriesNewer, provider
  <2> QED BY <2>1, <2>2, OverKeeps
<1>2. CASE ~leaseTaken
  <2>1. JobIs(r, "rereading", job[r].revision, job[r].tokens)
    BY <1>0, <1>2, GoesOnIs DEF TakeLease, SessionPlaces
  <2>2. Keeps(r)
    BY <1>0, <1>2, <2>1
       DEF TakeLease, LoginsInv, LoginsTyped, Keeps, JobIs, CarriesNewer, RefusalsHaveReasons, provider
  <2>3. Has(r, "rereading", job[r].revision, job[r].tokens)
    BY <1>0, <2>1 DEF Has, JobHolds, SessionPlaces, LoginPlaces
  <2> QED BY <2>2, <2>3, QuietKeeps
<1> QED BY <1>1, <1>2

LEMMA RereadKept ==
  ASSUME LoginsInv, NEW r \in LoginRequests, Reread(r)
  PROVE  RequestKept(r)
<1>0. LoginsTyped /\ JobHolds(r) /\ job[r] \in Jobs /\ job[r].at = "rereading" /\ job[r].revision # 0
      /\ UNCHANGED <<link, loginStored, signIn, keySet, neverStored, provider>>
  BY DEF LoginsInv, LoginsTyped, Reread, CommandAt, JobAt, JobHolds, SessionPlaces
<1>1. CASE Same(r)
  <2>0. signIn.tokens \in Tokens /\ signIn.tokens.refresh <= idp.refresh /\ job[r].revision = signIn.revision
        /\ signIn.tokens.refresh \in Nat
    BY <1>0, <1>1 DEF LoginsInv, LoginsTyped, SignInHolds, Same, Tokens
  <2>1. JobIs(r, "refreshing", job[r].revision, signIn.tokens)
    BY <1>0, <1>1, <2>0, ProceedsIs DEF Reread, SessionPlaces
  <2>2. Keeps(r)
    BY <1>0, <1>1, <2>1
       DEF Reread, LoginsInv, LoginsTyped, Keeps, JobIs, CarriesNewer, RefusalsHaveReasons, Silent, provider
  <2>3. Has(r, "refreshing", job[r].revision, signIn.tokens)
    BY <1>0, <2>0, <2>1 DEF Has, JobHolds, SessionPlaces, LoginPlaces
  <2> QED BY <2>2, <2>3, QuietKeeps
<1>2. CASE ~Same(r)
  <2>1. "noSession" \in FactsFor(r) BY <1>0, <1>2 DEF FactsFor
  <2>2. JobIs(r, "free", 0, NoTokens) /\ RefusalsHaveReasons'
    BY <1>2, <2>1, AnswerIs DEF Reread, Replies
  <2>3. Keeps(r) BY <1>0, <2>2 DEF LoginsTyped, Keeps, JobIs, CarriesNewer, provider
  <2> QED BY <2>2, <2>3, OverKeeps
<1> QED BY <1>1, <1>2

\* The tokens a refresh was answered with are those of the session, or newer.
LEMMA GrantKept ==
  ASSUME LoginsInv, NEW r \in LoginRequests, RefreshGrant(r)
  PROVE  RequestKept(r)
<1>0. LoginsTyped /\ SignInHolds /\ JobHolds(r) /\ job[r] \in Jobs /\ job[r].at = "refreshing"
      /\ job[r].revision # 0 /\ Accepts(r)
      /\ UNCHANGED <<link, loginStored, signIn, loginCode, keySet, neverStored>>
      /\ unreasoned' = {}
  BY DEF LoginsInv, LoginsTyped, RefreshGrant, JobAt, JobHolds, SessionPlaces, Silent
<1>1. PICK new \in BOOLEAN :
        Issues(new) /\ Proceeds(r, "renewed", NormalizeTokenResult(Issued(new), job[r].tokens))
  BY DEF RefreshGrant
<1> DEFINE answer == NormalizeTokenResult(Issued(new), job[r].tokens)
<1>2. /\ idp' \in [grants : Nat, refresh : Nat, key : Nat, over : BOOLEAN]
      /\ idp'.refresh = IF new THEN idp.refresh + 1 ELSE idp.refresh
  BY <1>0, <1>1, IssuesIs
<1>3. /\ answer \in Tokens /\ answer.refresh = idp'.refresh
  BY <1>0, <1>2 DEF NormalizeTokenResult, Issued, LoginsTyped, Tokens, Jobs, Accepts
<1>4. JobIs(r, "renewed", job[r].revision, answer)
  <2> HIDE DEF answer
  <2> QED BY <1>0, <1>1, <1>3, ProceedsIs DEF SessionPlaces, answer
<1> HIDE DEF answer
<1>5. \A q \in LoginRequests : ~LoggingIn(q)
  BY <1>0 DEF LoginsInv, JobHolds, LoginsTyped, Jobs
<1>6. LoginsTyped' /\ RefusalsHaveReasons' /\ SignInHolds'
  BY <1>0, <1>2, <1>4 DEF LoginsInv, LoginsTyped, SignInHolds, RefusalsHaveReasons, JobIs, Tokens
<1>7. FrameOf(r)
  BY <1>0, <1>2, <1>5 DEF LoginsTyped, FrameOf
<1>8. JobHolds(r)' /\ ~LoggingIn(r)'
  BY <1>0, <1>2, <1>3, <1>4
     DEF JobHolds, JobIs, LoggingIn, SessionPlaces, LoginPlaces, LoginsTyped, SignInHolds, Tokens, Jobs
<1>9. StoredTokensWork'
  <2>1. CASE new
    <3>1. idp'.refresh = idp.refresh + 1 /\ job'[r].tokens.refresh = idp'.refresh
          /\ signIn'.tokens.refresh # idp'.refresh /\ job'[r].at = "renewed"
      BY <1>0, <1>2, <1>3, <1>4, <2>1 DEF LoginsTyped, SignInHolds, Tokens, JobIs
    <3> QED BY <3>1 DEF StoredTokensWork, CarriesNewer
  <2>2. CASE ~new
    BY <1>0, <1>2, <1>4, <2>2, WorkStays DEF JobIs, CarriesNewer
  <2> QED BY <2>1, <2>2
<1> QED BY <1>4, <1>5, <1>6, <1>7, <1>8, <1>9 DEF RequestKept, JobIs

LEMMA GrantFailsKept ==
  ASSUME LoginsInv, NEW r \in LoginRequests, GrantFails(r)
  PROVE  RequestKept(r)
<1>0. LoginsTyped /\ SignInHolds /\ JobHolds(r) /\ job[r] \in Jobs /\ job[r].at = "refreshing"
      /\ job[r].revision # 0
      /\ UNCHANGED <<link, loginStored, signIn, loginCode, keySet>>
  BY DEF LoginsInv, LoginsTyped, GrantFails, JobAt, JobHolds, SessionPlaces
<1>1. PICK failure \in TokenFailures :
        /\ failure = "refused" => ~Accepts(r)
        /\ RepliesWith(r, RefreshFailure(failure), {failure})
        /\ \/ Issues(TRUE) /\ neverStored' = neverStored \cup {idp'.refresh}
           \/ UNCHANGED <<idp, neverStored>>
  BY DEF GrantFails
<1>2. ~Accepts(r) => {"noSession", "over", "behind"} \cap FactsFor(r) # {}
  <2>1. idp.over => "over" \in FactsFor(r) BY DEF FactsFor
  <2>2. ~Same(r) => "noSession" \in FactsFor(r) BY <1>0 DEF FactsFor
  <2>3. Same(r) /\ job[r].tokens.refresh # idp.refresh => "behind" \in FactsFor(r)
    BY <1>0 DEF FactsFor, Same, JobHolds
  <2> QED BY <2>1, <2>2, <2>3 DEF Accepts
<1>3. RefreshFailure(failure) \in {"unavailable", "unauthorized"}
  BY DEF RefreshFailure
<1>4. JobIs(r, "free", 0, NoTokens) /\ RefusalsHaveReasons'
  <2>1. CASE RefreshFailure(failure) = "unavailable" BY <1>1, <2>1, AnswerIs
  <2>2. CASE failure = "refused"
    <3>1. (FactsFor(r) \cup {failure}) \cap {"noSession", "expired", "over", "behind"} # {}
      BY <1>1, <1>2, <2>2
    <3> QED BY <1>1, <1>3, <3>1, AnswerIs
  <2>3. CASE failure \in Misjudged BY <1>1, <2>3, AnswerIs
  <2> QED BY <2>1, <2>2, <2>3, FailuresAre
<1>5. CASE UNCHANGED <<idp, neverStored>>
  <2>1. Keeps(r) BY <1>0, <1>4, <1>5 DEF LoginsTyped, Keeps, JobIs, CarriesNewer
  <2> QED BY <1>4, <2>1, OverKeeps
<1>6. CASE Issues(TRUE) /\ neverStored' = neverStored \cup {idp'.refresh}
  <2>1. /\ idp' \in [grants : Nat, refresh : Nat, key : Nat, over : BOOLEAN]
        /\ idp'.refresh = idp.refresh + 1
    BY <1>0, <1>6, IssuesIs
  <2>2. \A q \in LoginRequests : ~LoggingIn(q)
    BY <1>0 DEF LoginsInv, JobHolds, LoginsTyped, Jobs
  <2>3. LoginsTyped' /\ SignInHolds'
    BY <1>0, <1>4, <2>1 DEF LoginsTyped, SignInHolds, JobIs, Tokens
  <2>4. FrameOf(r)
    BY <1>0, <2>1, <2>2 DEF LoginsTyped, FrameOf
  <2>5. JobHolds(r)' /\ ~LoggingIn(r)'
    BY <1>0, <1>4, <2>1 DEF JobHolds, JobIs, LoggingIn, SessionPlaces, LoginPlaces, LoginsTyped, NoTokens
  <2>6. StoredTokensWork' BY <1>6 DEF StoredTokensWork
  <2> QED BY <1>4, <2>3, <2>4, <2>5, <2>6 DEF RequestKept, JobIs
<1> QED BY <1>1, <1>5, <1>6

\* A session is given tokens that are not older than those it had with this credential, so
\* none that another request still carries is lost by it.
LEMMA RotateKept ==
  ASSUME LoginsInv, NEW r \in LoginRequests, RotateTokens(r)
  PROVE  RequestKept(r)
<1>0. LoginsTyped /\ SignInHolds /\ JobHolds(r) /\ job[r] \in Jobs /\ job[r].at = "rotating"
      /\ job[r].revision # 0
      /\ UNCHANGED <<link, loginStored, keySet, provider>>
  BY DEF LoginsInv, LoginsTyped, RotateTokens, CommandAt, JobAt, JobHolds, SessionPlaces
<1>1. CASE ~Same(r)
  <2>1. "noSession" \in FactsFor(r) BY <1>0, <1>1 DEF FactsFor
  <2>2. Replies(r, "unauthorized") /\ Forgets(r) /\ UNCHANGED signIn
    BY <1>1 DEF RotateTokens
  <2>3. JobIs(r, "free", 0, NoTokens) /\ RefusalsHaveReasons'
    BY <2>1, <2>2, AnswerIs DEF Replies
  <2>4. Keeps(r) BY <1>0, <2>2, <2>3 DEF LoginsTyped, Forgets, Keeps, JobIs, provider
  <2> QED BY <2>3, <2>4, OverKeeps
<1>2. CASE Same(r)
  <2>1. /\ signIn' = [signIn EXCEPT !.revision = @ + 1, !.tokens = job[r].tokens]
        /\ neverStored' = neverStored
        /\ \/ /\ job' = [job EXCEPT ![r] = [at |-> "recording", revision |-> @.revision + 1,
                                            tokens |-> NoTokens]]
              /\ Silent
           \/ Replies(r, "unavailable")
    BY <1>2 DEF RotateTokens
  <2>2. /\ signIn' \in [there : BOOLEAN, revision : Nat, tokens : Tokens]
        /\ signIn'.revision = signIn.revision + 1 /\ signIn'.tokens = job[r].tokens
        /\ signIn.there /\ job[r].revision = signIn.revision
    BY <1>0, <1>2, <2>1, GivenTokens DEF Jobs, Same
  <2>3. /\ JobIs(r, "recording", job[r].revision + 1, NoTokens) \/ JobIs(r, "free", 0, NoTokens)
        /\ RefusalsHaveReasons'
    <3>1. CASE Replies(r, "unavailable") BY <3>1, AnswerIs DEF Replies
    <3>2. CASE job' = [job EXCEPT ![r] = [at |-> "recording", revision |-> @.revision + 1,
                                          tokens |-> NoTokens]] /\ Silent
      <4>1. RefusalsHaveReasons' BY <3>2 DEF LoginsInv, Silent, RefusalsHaveReasons
      <4> QED
        BY <1>0, <3>2, <4>1 DEF LoginsTyped, JobIs, Jobs, NoTokens, Tokens, SessionPlaces
    <3> QED BY <2>1, <3>1, <3>2
  <2>4. \A q \in LoginRequests : ~LoggingIn(q)
    BY <1>0, <2>2 DEF LoginsInv, JobHolds, LoginsTyped, Jobs
  <2>5. LoginsTyped' /\ SignInHolds'
    BY <1>0, <2>2, <2>3 DEF LoginsTyped, SignInHolds, JobHolds, JobIs, provider
  <2>6. FrameOf(r)
    BY <1>0, <2>2, <2>4 DEF LoginsTyped, FrameOf, provider
  <2>7. JobHolds(r)' /\ ~LoggingIn(r)'
    BY <1>0, <2>2, <2>3
       DEF JobHolds, JobIs, LoggingIn, SessionPlaces, LoginPlaces, LoginsTyped, NoTokens, Jobs, provider
  <2>8. StoredTokensWork'
    <3>1. idp' = idp /\ idp.refresh \in Nat /\ job[r].tokens.refresh \in Nat
          /\ job[r].tokens.refresh <= idp.refresh /\ signIn.tokens.refresh <= job[r].tokens.refresh
          /\ signIn.tokens.refresh \in Nat
      BY <1>0, <2>2 DEF provider, LoginsTyped, Jobs, Tokens, JobHolds
    <3>2. \A q \in LoginRequests \ {r} : job'[q] = job[q] BY <2>3 DEF JobIs
    <3>3. CASE signIn.tokens.refresh = idp.refresh
      BY <3>1, <3>3, <2>2 DEF StoredTokensWork
    <3>4. CASE idp.refresh \in neverStored
      BY <3>1, <3>4, <2>1 DEF StoredTokensWork
    <3>5. ASSUME NEW q \in LoginRequests, CarriesNewer(q), job[q].tokens.refresh = idp.refresh
          PROVE  StoredTokensWork'
      <4>1. CASE q = r BY <3>1, <3>5, <4>1, <2>2 DEF StoredTokensWork
      <4>2. CASE q # r BY <3>1, <3>2, <3>5, <4>2, <2>2 DEF StoredTokensWork, CarriesNewer
      <4> QED BY <4>1, <4>2
    <3> QED BY <2>2, <3>3, <3>4, <3>5 DEF LoginsInv, StoredTokensWork
  <2> QED BY <2>3, <2>4, <2>5, <2>6, <2>7, <2>8 DEF RequestKept, JobIs
<1> QED BY <1>1, <1>2

-----------------------------------------------------------------------------
(* The rest.                                                               *)

LEMMA ConnectKeeps ==
  ASSUME LoginsInv, Connect
  PROVE  LoginsInv'
<1>1. /\ job' = [r \in LoginRequests |-> NoJob] /\ keySet' = NoKeys
      /\ neverStored' = neverStored \cup {job[r].tokens.refresh : r \in {q \in LoginRequests : CarriesNewer(q)}}
      /\ unreasoned' = {}
      /\ UNCHANGED <<loginStored, signIn, loginCode, idp>>
  BY DEF Connect, provider, Silent
<1>2. LoginsTyped' /\ SignInHolds' /\ RefusalsHaveReasons'
  BY <1>1 DEF LoginsInv, LoginsTyped, SignInHolds, RefusalsHaveReasons, NoJob, NoKeys, NoTokens, Jobs, Tokens
<1>3. \A r \in LoginRequests : JobHolds(r)' /\ ~LoggingIn(r)'
  <2> TAKE r \in LoginRequests
  <2>1. job'[r].at = "free" /\ job'[r].revision = 0 /\ job'[r].tokens.refresh = 0
    BY <1>1 DEF NoJob, NoTokens
  <2> QED
    BY <1>1, <2>1 DEF LoginsInv, LoginsTyped, JobHolds, LoggingIn, SessionPlaces, LoginPlaces, Tokens
<1>4. StoredTokensWork'
  BY <1>1 DEF LoginsInv, StoredTokensWork
<1> QED BY <1>2, <1>3, <1>4 DEF LoginsInv

LEMMA OutsideKeeps ==
  ASSUME LoginsInv, LinkLost \/ ProviderMoves \/ KeysAge \/ LoginLapses \/ LeaseEnds \/ SignInEnds
  PROVE  LoginsInv'
<1>1. /\ job' = job /\ neverStored' = neverStored /\ unreasoned' = {}
      /\ signIn'.revision = signIn.revision /\ signIn'.tokens = signIn.tokens
      /\ (signIn'.there => signIn.there) /\ idp'.refresh = idp.refresh
      /\ (loginStored' => loginStored) /\ (loginCode # "none" => loginCode' # "none")
  BY DEF LinkLost, ProviderMoves, CodeLapses, GrantEnds, SigningKeyChanges, KeysAge, LoginLapses,
     LeaseEnds, SignInEnds, provider, Silent, LoginsInv, LoginsTyped
<1>2. LoginsTyped'
  <2> USE DEF LoginsInv, LoginsTyped, provider, Silent
  <2>1. CASE LinkLost \/ LoginLapses \/ LeaseEnds
    BY <2>1 DEF LinkLost, LoginLapses, LeaseEnds
  <2>2. CASE SignInEnds
    <3>1. signIn' = [signIn EXCEPT !.there = FALSE] BY <2>2 DEF SignInEnds
    <3>2. signIn' \in [there : BOOLEAN, revision : Nat, tokens : Tokens] BY <3>1
    <3> QED BY <2>2, <3>2 DEF SignInEnds
  <2>3. CASE ProviderMoves
    <3>1. idp' \in [grants : Nat, refresh : Nat, key : Nat, over : BOOLEAN]
      <4>1. CASE CodeLapses BY <4>1 DEF CodeLapses
      <4>2. CASE GrantEnds BY <4>2 DEF GrantEnds
      <4>3. CASE SigningKeyChanges BY <4>3 DEF SigningKeyChanges
      <4> QED BY <2>3, <4>1, <4>2, <4>3 DEF ProviderMoves
    <3> QED BY <2>3, <3>1 DEF ProviderMoves, CodeLapses, GrantEnds, SigningKeyChanges
  <2>4. CASE KeysAge
    <3>1. keySet' = [keySet EXCEPT !.cooling = FALSE] \/ keySet' = NoKeys BY <2>4 DEF KeysAge
    <3>2. keySet' \in [newest : Nat, cooling : BOOLEAN]
      <4>1. CASE keySet' = [keySet EXCEPT !.cooling = FALSE] BY <4>1
      <4>2. CASE keySet' = NoKeys BY <4>2 DEF NoKeys
      <4> QED BY <3>1, <4>1, <4>2
    <3> QED BY <2>4, <3>2 DEF KeysAge
  <2> QED BY <2>1, <2>2, <2>3, <2>4
<1>3. SignInHolds' /\ RefusalsHaveReasons' /\ StoredTokensWork'
  BY <1>1 DEF LoginsInv, SignInHolds, RefusalsHaveReasons, StoredTokensWork, CarriesNewer
<1>4. \A r \in LoginRequests : JobHolds(r)'
  BY <1>1 DEF LoginsInv, JobHolds, LoggingIn
<1>5. \A r, q \in LoginRequests : LoggingIn(r)' /\ LoggingIn(q)' => r = q
  BY <1>1 DEF LoginsInv, LoggingIn
<1> QED BY <1>2, <1>3, <1>4, <1>5 DEF LoginsInv

LEMMA LoginsStay == LoginsSpec => []LoginsAreHonest
<1>1. LoginsInv /\ [LoginsNext]_loginVars => LoginsInv'
  <2> SUFFICES ASSUME LoginsInv, [LoginsNext]_loginVars PROVE LoginsInv'
    OBVIOUS
  <2>1. ASSUME NEW r \in LoginRequests,
               \/ RefuseTarget(r) \/ StoreLogin(r) \/ SendToProvider(r) \/ TakeLoginBack(r)
               \/ ConsumeLogin(r) \/ ExchangeCode(r) \/ ExchangeFails(r)
               \/ JobAt(r, "issued") /\ VerifyIssued(r, "creating")
               \/ CreateSession(r) \/ RecordCredential(r)
               \/ LoadSession(r) \/ CheckToken(r) \/ DropSession(r)
               \/ LookForRefresh(r) \/ TakeLease(r) \/ Reread(r)
               \/ RefreshGrant(r) \/ GrantFails(r)
               \/ JobAt(r, "renewed") /\ VerifyIssued(r, "rotating")
               \/ RotateTokens(r) \/ CommandFails(r)
        PROVE  LoginsInv'
    <3>1. RequestKept(r)
      BY <2>1, AnswersKept, LoginStepsKept, ExchangeKept, CreateKept, RecordKept, VerifyKept, CheckKept,
         LookUpsKept, LeaseTakenKept, RereadKept, GrantKept, GrantFailsKept, RotateKept DEF JobAt
    <3> QED BY <3>1, RequestKeeps
  <2>2. CASE LoginsNext
    BY <2>1, <2>2, ConnectKeeps, OutsideKeeps DEF LoginsNext
  <2>3. CASE UNCHANGED loginVars
    <3>1. LoginsTyped' /\ SignInHolds' /\ StoredTokensWork' /\ RefusalsHaveReasons'
      BY <2>3 DEF loginVars, LoginsInv, LoginsTyped, SignInHolds, StoredTokensWork, CarriesNewer,
         RefusalsHaveReasons
    <3>2. \A r \in LoginRequests : JobHolds(r)' /\ LoggingIn(r)' = LoggingIn(r)
      BY <2>3 DEF loginVars, LoginsInv, JobHolds, LoggingIn
    <3> QED BY <3>1, <3>2 DEF LoginsInv
  <2> QED BY <2>2, <2>3
<1>2. LoginsInv => LoginsAreHonest
  BY DEF LoginsInv, LoginsAreHonest
<1> QED BY <1>1, <1>2, LoginsInitially, PTL DEF LoginsSpec

\* Between rotations file and Keycloak agree, except for a run that died or said it failed or
\* a late update; readers hold secrets that Keycloak confirmed; whoever has the newest key reads
\* every session that lasts; a session's refresh token works or a newer one is on its way or
\* lost, and its refusals have reasons: for any number of runs, processes, browsers, requests.
THEOREM SecretsStaySound ==
  RotationSpec /\ SessionKeysSpec /\ LoginsSpec => []SecretsAreSound
BY RotationStays, KeysStay, LoginsStay, PTL DEF SecretsAreSound

-----------------------------------------------------------------------------
(* Readiness.                                                              *)

LoopStages ==
  {"none", "compatibility", "first", "dependents", "timer", "checking", "draining", "stopped"}

\* An answer that is awaited was asked for after the last outage, since nothing is awaited
\* when one begins; so no flag is an older call's but the one an outage leaves set.
ProbesInv ==
  /\ loop \in LoopStages /\ capable \subseteq Probes
  /\ probing \in [Probes -> {"none", "awaited", "abandoned"}]
  /\ Awaited \cap older = {}
  /\ loop \notin {"dependents", "timer"} => Awaited = {}
  /\ loop \in {"none", "compatibility", "stopped"} => ~healthy /\ capable = {}
  /\ capable \cap stale \subseteq {FileProbe}
  /\ apiClosed => loop = "stopped" /\ ~compatible

LEMMA ProbesKeep ==
  ASSUME ProbesInv, [ProbeNext]_probeVars
  PROVE  ProbesInv'
<1> USE ApiProbesAssumption DEF ProbesInv, LoopStages, Awaited
<1>1. CASE AssertCompatible BY <1>1 DEF AssertCompatible
<1>2. ASSUME CancelStart \/ CloseBindings PROVE ProbesInv'
  <2>1. loop' = "stopped" /\ healthy' = FALSE /\ capable' = {} /\ probing' = Abandoned /\ ~compatible'
    BY <1>2 DEF CancelStart, CloseBindings, StopProbes
  <2>2. probing' \in [Probes -> {"none", "awaited", "abandoned"}]
        /\ \A d \in Probes : probing'[d] # "awaited"
    BY <2>1 DEF Abandoned
  <2> QED BY <2>1, <2>2
<1>3. CASE Started BY <1>3 DEF Started
<1>4. CASE TimerFires BY <1>4 DEF TimerFires
<1>5. CASE HealthAnswers
  <2>1. Awaited = {} /\ ~apiClosed /\ loop' \in {"dependents", "timer"} /\ UNCHANGED <<apiClosed, compatible>>
    BY <1>5 DEF HealthAnswers
  <2>2. CASE ProbeDependencies /\ UNCHANGED <<capable, stale>>
    <3>1. probing' \in [Probes -> {"none", "awaited", "abandoned"}]
          /\ \A d \in Probes : probing'[d] = "awaited" => probing[d] = "none"
      BY <2>1, <2>2 DEF ProbeDependencies
    <3>2. older' = {d \in older : probing[d] # "none"} BY <2>2 DEF ProbeDependencies
    <3> QED BY <2>1, <2>2, <3>1, <3>2
  <2>3. CASE Outage /\ UNCHANGED probing BY <2>1, <2>3 DEF Outage, LeftInOutage
  <2> QED BY <1>5, <2>2, <2>3 DEF HealthAnswers
<1>6. CASE HealthTimesOut BY <1>6 DEF HealthTimesOut, Outage, LeftInOutage
<1>7. CASE HealthSettles BY <1>7 DEF HealthSettles
<1>8. ASSUME NEW d \in Probes, ProbeTimesOut(d) \/ \E answer \in BOOLEAN : ProbeSettles(d, answer)
      PROVE  ProbesInv'
  <2>1. /\ UNCHANGED <<apiClosed, compatible, healthy, loop, older>>
        /\ probing' \in [Probes -> {"none", "awaited", "abandoned"}]
        /\ \A e \in Probes : probing'[e] = "awaited" => probing[e] = "awaited"
    BY <1>8 DEF ProbeTimesOut, ProbeSettles
  <2>2. \/ UNCHANGED <<capable, stale>>
        \/ probing[d] = "awaited" /\ \E answer \in BOOLEAN : PublishesAnswer(d, answer)
    BY <1>8 DEF ProbeTimesOut, ProbeSettles
  <2>3. capable' \subseteq Probes /\ capable' \cap stale' \subseteq {FileProbe}
        /\ (loop \in {"none", "compatibility", "stopped"} => capable' = {})
    <3>1. CASE UNCHANGED <<capable, stale>> BY <3>1
    <3>2. ASSUME probing[d] = "awaited", NEW answer \in BOOLEAN, PublishesAnswer(d, answer)
          PROVE  /\ capable' \subseteq Probes /\ capable' \cap stale' \subseteq {FileProbe}
                 /\ loop \notin {"none", "compatibility", "stopped"}
      <4>1. d \notin older /\ loop \in {"dependents", "timer"} BY <3>2
      <4>2. stale' = stale \ {d} BY <3>2, <4>1 DEF PublishesAnswer
      <4>3. capable' \subseteq capable \cup {d} BY <3>2 DEF PublishesAnswer
      <4> QED BY <4>1, <4>2, <4>3
    <3> QED BY <2>2, <3>1, <3>2
  <2> QED BY <2>1, <2>3
<1>9. ASSUME NEW answer \in BOOLEAN, Compatibility(answer) PROVE ProbesInv'
  BY <1>9 DEF Compatibility
<1>10. CASE UNCHANGED probeVars BY <1>10 DEF probeVars
<1> QED
  BY <1>1, <1>2, <1>3, <1>4, <1>5, <1>6, <1>7, <1>8, <1>9, <1>10 DEF ProbeNext

LEMMA ProbesStay == ProbeSpec => []ReadinessIsEarned
<1>1. ProbeInit => ProbesInv
  BY DEF ProbeInit, ProbesInv, LoopStages, Awaited
<1>2. ProbesInv => ReadinessIsEarned
  BY DEF ProbesInv, ReadinessIsEarned, RecoveryRevalidates, LateAnswersAreIgnored
<1> QED BY <1>1, <1>2, ProbesKeep, PTL DEF ProbeSpec

-----------------------------------------------------------------------------
(* The API process.                                                        *)

Acquiring == {"loading", "sessions", "oidc", "releasing"}

\* Before the start nothing has begun; a start that succeeded was not cancelled, and is
\* stopped by a stop alone; one that failed is cancelled, and what it opened is closed, or
\* could not be, when it is over.
LifeBegins ==
  init = "none" =>
    /\ main \in Acquiring \cup {"over"} /\ nest = "none" /\ hook = "none" /\ stop = "none"
    /\ ~cancelled /\ ~apiReady
    /\ main = "oidc" => open = Resources
    /\ main = "loading" => open = {}
    /\ main \in Acquiring => exit = "none"
    /\ exit = "success" => acquisition = "signal" /\ open = {}

LifeStarts ==
  init # "none" =>
    /\ main \in {"starting", "running", "cleaning", "over"}
    /\ hook \in {"none", "closing"} => open = Resources
    /\ hook = "closed" => open = {}
    /\ main = "starting" => init # "ok" /\ (hook # "none" => cancelled)
    /\ main = "running" => init = "ok"
    /\ main = "cleaning" => cancelled /\ hook # "none"
    /\ main = "over" /\ init # "ok" => cancelled
    /\ init # "ok" => nest # "listening" /\ ~apiReady
    /\ main = "over" /\ cancelled => late \/ (init = "failed" /\ NestIsClosed /\ hook \in Settled)
    /\ main \in {"cleaning", "over"} => nest # "created"

LifeServes ==
  init = "ok" =>
    /\ ~cancelled /\ main \in {"running", "over"}
    /\ nest \in {"listening", "closing", "closed"}
    /\ nest \in {"listening", "closing"} => hook = "none"
    /\ stop = "none" => main = "running" /\ nest = "listening"
    /\ apiReady => stop = "none"
    /\ exit = "success" => stop = "ok" /\ hook = "closed" /\ nest = "closed"

LifeStops ==
  /\ stop = "closing" => init = "ok"
  /\ stop = "waiting" => cancelled
  /\ stop # "none" \/ nest \in {"closing", "closed"} => cancelled \/ init = "ok"
  /\ stop \in {"ok", "failed"} /\ init = "ok" => main = "over"
  /\ exit = "success" /\ init # "none" => stop = "ok" /\ main = "over"

LifeInv ==
  /\ init \in {"none", "compatibility", "creating", "listening", "closing", "ok", "failed"}
  /\ nest \in {"none", "created", "listening", "closing", "closed"}
  /\ hook \in {"none", "closing", "closed", "failed"}
  /\ stop \in {"none", "waiting", "closing", "ok", "failed"}
  /\ LifeBegins /\ LifeStarts /\ LifeServes /\ LifeStops

LEMMA LifeKeeps ==
  ASSUME LifeInv, [ApiNext]_apiVars
  PROVE  LifeInv'
<1> USE DEF LifeInv, LifeBegins, LifeStarts, LifeServes, LifeStops, Acquiring, NestIsClosed, Settled
<1>1. ASSUME NEW cause \in {"signal", "deadline"}, AbortAcquisition(cause) PROVE LifeInv'
  BY <1>1 DEF AbortAcquisition
<1>2. CASE Loaded BY <1>2 DEF Loaded, AcquisitionOver, Aborted
<1>3. CASE Connected BY <1>3 DEF Connected, Aborted
<1>4. CASE Discovered BY <1>4 DEF Discovered
<1>5. CASE Released BY <1>5 DEF Released, AcquisitionOver
<1>6. CASE HookCloses BY <1>6 DEF HookCloses
<1>7. CASE NestCloses BY <1>7 DEF NestCloses, StartHook
<1>8. CASE Compatible BY <1>8 DEF Compatible
<1>9. CASE Created BY <1>9 DEF Created
<1>10. CASE Listening BY <1>10 DEF Listening
<1>11. CASE InitCloses BY <1>11 DEF InitCloses
<1>12. CASE StartFails BY <1>12 DEF StartFails, StartHook, CloseNest
<1>13. CASE CleanupEnds BY <1>13 DEF CleanupEnds
<1>14. CASE Signal BY <1>14 DEF Signal, CloseNest
<1>15. CASE StopFindsNothing BY <1>15 DEF StopFindsNothing, StopEnds
<1>16. CASE StopCloses BY <1>16 DEF StopCloses, StopEnds
<1>17. CASE StopTimesOut BY <1>17 DEF StopTimesOut, StopEnds
<1>18. CASE UNCHANGED apiVars BY <1>18 DEF apiVars
<1> QED
  BY <1>1, <1>2, <1>3, <1>4, <1>5, <1>6, <1>7, <1>8, <1>9, <1>10, <1>11, <1>12, <1>13, <1>14,
     <1>15, <1>16, <1>17, <1>18 DEF ApiNext

LEMMA LifeStays == ApiSpec => []ApiIsHonest
<1>1. ApiInit => LifeInv
  BY DEF ApiInit, LifeInv, LifeBegins, LifeStarts, LifeServes, LifeStops, Acquiring, NestIsClosed, Settled
<1>2. LifeInv => ApiIsHonest
  BY DEF LifeInv, LifeBegins, LifeStarts, LifeServes, LifeStops, Acquiring, NestIsClosed, Settled,
     ApiIsHonest, ReadyIsHonest, ExitIsHonest
<1> QED BY <1>1, <1>2, LifeKeeps, PTL DEF ApiSpec

-----------------------------------------------------------------------------
(* Requests: the plans.                                                    *)

Calls == {"begin", "complete", "principal", "mutation", "rotate", "revoke", "workforce",
          "permission", "find", "decide", "decideOnFile", "serve", "succeed"}

\* Where the calls of a plan are, and whose they are.
PlanIsSound(op, plan) ==
  /\ plan \in Seq(Calls) /\ Len(plan) > 0
  /\ op \in Mutations => plan[1] = "mutation"
  /\ \A i \in 1..Len(plan) :
       /\ plan[i] = "mutation" => op \in Mutations /\ i < Len(plan)
       /\ plan[i] = "principal" =>
            /\ (i = Len(plan)) = (op = "session")
            /\ op \notin {"login", "callback", "refresh", "logout"}
       /\ plan[i] \in {"workforce", "permission", "find", "decide", "decideOnFile"} =>
            op \notin AuthOperations /\ i < Len(plan)
       /\ plan[i] = "decideOnFile" => op \in FileOps
       /\ plan[i] = "serve" =>
            /\ op \notin AuthOperations /\ (i = Len(plan)) = (op \notin FileOps)
            /\ \A j \in i + 1..Len(plan) : plan[j] = "succeed"
            /\ op = "resolveDeepLink" =>
                 \E j, k \in 1..i - 1 : plan[j] = "permission" /\ plan[k] = "decide"
       /\ plan[i] = "succeed" =>
            /\ op \in FileOps /\ i = Len(plan)
            /\ \E j, k \in 1..i - 1 : plan[j] = "serve" /\ (op = "download" => plan[k] = "find")
       /\ plan[i] = "rotate" => op = "refresh" /\ i = Len(plan)
       /\ plan[i] = "revoke" => op = "logout" /\ i = Len(plan)
       /\ plan[i] = "begin" => op = "login" /\ i = Len(plan)
       /\ plan[i] = "complete" => op = "callback" /\ i = Len(plan)

LEMMA PlansAreSound == \A op \in Operations : PlanIsSound(op, Plan[op])
<1> USE DEF PlanIsSound, Mutations, AuthOperations, FileOps
<1>1. PlanIsSound("login", Plan["login"])
  <2>1. Plan["login"] =
              <<"begin">>
    BY DEF Plan
  <2> QED BY <2>1 DEF Calls
<1>2. PlanIsSound("callback", Plan["callback"])
  <2>1. Plan["callback"] =
              <<"complete">>
    BY DEF Plan
  <2> QED BY <2>1 DEF Calls
<1>3. PlanIsSound("session", Plan["session"])
  <2>1. Plan["session"] =
              <<"principal">>
    BY DEF Plan
  <2> QED BY <2>1 DEF Calls
<1>4. PlanIsSound("refresh", Plan["refresh"])
  <2>1. Plan["refresh"] =
              <<"mutation", "rotate">>
    BY DEF Plan
  <2> QED BY <2>1 DEF Calls
<1>5. PlanIsSound("logout", Plan["logout"])
  <2>1. Plan["logout"] =
              <<"mutation", "revoke">>
    BY DEF Plan
  <2> QED BY <2>1 DEF Calls
<1>6. PlanIsSound("loadRegistry", Plan["loadRegistry"])
  <2>1. Plan["loadRegistry"] =
              <<"principal", "workforce", "permission", "serve">>
    BY DEF Plan
  <2> QED BY <2>1 DEF Calls
<1>7. PlanIsSound("resolveDeepLink", Plan["resolveDeepLink"])
  <2>1. Plan["resolveDeepLink"] =
              <<"principal", "workforce", "permission", "find", "decide", "serve">>
    BY DEF Plan
  <2> QED BY <2>1 DEF Calls
<1>8. PlanIsSound("readForm", Plan["readForm"])
  <2>1. Plan["readForm"] =
              <<"principal", "workforce", "permission", "decide", "find", "serve">>
    BY DEF Plan
  <2> QED BY <2>1 DEF Calls
<1>9. PlanIsSound("validateForm", Plan["validateForm"])
  <2>1. Plan["validateForm"] =
              <<"principal", "workforce", "permission", "decide", "find", "serve">>
    BY DEF Plan
  <2> QED BY <2>1 DEF Calls
<1>10. PlanIsSound("createUpload", Plan["createUpload"])
  <2>1. Plan["createUpload"] =
              <<"mutation", "principal", "workforce", "permission", "decide",
                "serve", "succeed">>
    BY DEF Plan
  <2> QED BY <2>1 DEF Calls
<1>11. PlanIsSound("confirmUpload", Plan["confirmUpload"])
  <2>1. Plan["confirmUpload"] =
              <<"mutation", "principal", "workforce", "permission", "decide",
                "find", "decideOnFile", "serve", "succeed">>
    BY DEF Plan
  <2> QED BY <2>1 DEF Calls
<1>12. PlanIsSound("download", Plan["download"])
  <2>1. Plan["download"] =
              <<"principal", "workforce", "permission", "decide", "find", "decide",
                "serve", "succeed">>
    BY DEF Plan
  <2> QED BY <2>1 DEF Calls
<1>13. Operations =
         {"login", "callback", "session", "refresh", "logout", "loadRegistry", "resolveDeepLink",
          "readForm", "validateForm", "createUpload", "confirmUpload", "download"}
  BY DEF Operations, Plan
<1> HIDE DEF PlanIsSound, Mutations, AuthOperations, FileOps
<1> QED
  BY <1>1, <1>2, <1>3, <1>4, <1>5, <1>6, <1>7, <1>8, <1>9, <1>10, <1>11, <1>12, <1>13

-----------------------------------------------------------------------------
(* What a request under way has been told.                                 *)

\* What a call that was passed says of the request, and of what held when it came.
CallPassed(call, r, seen) ==
  /\ call = "mutation" => "stored" \in seen /\ r.browser = "trusted"
  /\ call = "principal" => "session" \in seen
  /\ call = "workforce" => "employed" \in seen
  /\ call = "permission" => "permitted" \in seen /\ (r.op = "resolveDeepLink" => r.body # "unsound")
  /\ call = "find" => "found" \in seen /\ (r.op = "download" => "open" \in seen)
  /\ call = "decide" => (r.op = "resolveDeepLink" => "open" \in seen)
  /\ call = "serve" => (r.op \in FileOps => "free" \in seen /\ r.body # "excessive")

\* What holds outside was seen to hold, and what does not was seen not to.
Seen(o, seen, lapsed) ==
  /\ IF o.session # "ended" THEN "stored" \in seen ELSE "stored" \in lapsed
  /\ IF o.session = "live" THEN "session" \in seen ELSE "session" \in lapsed
  /\ IF o.employed THEN "employed" \in seen ELSE "employed" \in lapsed
  /\ IF o.permitted THEN "permitted" \in seen ELSE "permitted" \in lapsed
  /\ IF o.target # "missing" THEN "found" \in seen ELSE "found" \in lapsed
  /\ IF o.target # "denied" THEN "open" \in seen ELSE "open" \in lapsed
  /\ IF o.target # "conflict" THEN "free" \in seen ELSE "free" \in lapsed

LEMMA FactsAreSeen ==
  ASSUME NEW o, NEW seen, NEW lapsed,
         FactsOf(o) \subseteq seen, AllFacts \ FactsOf(o) \subseteq lapsed
  PROVE  Seen(o, seen, lapsed)
BY DEF FactsOf, AllFacts, Seen

\* What was looked at when the request came.
Admitted(r) ==
  /\ r.key
  /\ r.op \in {"login", "callback"} \/ r.cookie = "good"
  /\ r.body = "sound" \/ r.op = "resolveDeepLink" \/ (r.op = "createUpload" /\ r.body = "excessive")

OutsideTyped ==
  outside \in [session : {"live", "stale", "ended"}, employed : BOOLEAN, permitted : BOOLEAN,
               target : {"ready", "missing", "conflict", "denied"}]

RequestWaits ==
  /\ sent \in HttpRequests /\ waiting \in 1..Len(Plan[sent.op]) /\ response = "none"
  /\ Admitted(sent) /\ Seen(outside, heldOnce, lapsedOnce)
  /\ IF asOf THEN "employed" \in heldOnce ELSE "employed" \in lapsedOnce
  /\ \A i \in 1..waiting - 1 : CallPassed(Plan[sent.op][i], sent, heldOnce)
  /\ effect => Plan[sent.op][waiting] = "succeed"

RequestsInv ==
  /\ OutsideTyped /\ effect \in BOOLEAN /\ waiting \in Nat
  /\ waiting > 0 => RequestWaits
  /\ EffectsAreEarned /\ RefusalsAreTrue

LEMMA RequestIs ==
  ASSUME NEW r \in HttpRequests
  PROVE  /\ r.op \in Operations /\ r.body \in Bodies(r.op) /\ PlanIsSound(r.op, Plan[r.op])
         /\ r.body \in {"sound", "unsound", "excessive"}
         /\ r.op \notin FileOps => r.key
         /\ r.cookie \in {"good", "none", "malformed"}
         /\ r.browser \in {"trusted", "untrusted", "garbled", "foreign"}
BY PlansAreSound DEF HttpRequests

LEMMA OperationsAre ==
  Operations = AuthOperations \cup RegistryOps \cup FormOps \cup FileOps
BY DEF Operations, Plan, AuthOperations, RegistryOps, FormOps, FileOps

LEMMA StatusIs ==
  ASSUME NEW op \in Operations
  PROVE  /\ StatusOf(op, "dependency") = "unavailable"
         /\ StatusOf(op, "session_invalid") = "unauthorized"
         /\ op \notin AuthOperations => /\ StatusOf(op, "not_employed") = "forbidden"
                                        /\ StatusOf(op, "denied") = "forbidden"
                                        /\ StatusOf(op, "invalid_input") = "invalid"
         /\ op \in AuthOperations => /\ StatusOf(op, "callback_invalid") = "invalid"
                                     /\ StatusOf(op, "csrf_rejected") = "forbidden"
                                     /\ StatusOf(op, "refresh_in_progress") = "conflict"
                                     /\ StatusOf(op, "refresh_rejected") = "unauthorized"
         /\ op \in RegistryOps => StatusOf(op, "target_unavailable") = "missing"
         /\ op \in FormOps \cup FileOps => StatusOf(op, "not_found") = "missing"
         /\ op \in FileOps => /\ StatusOf(op, "csrf_rejected") = "forbidden"
                              /\ StatusOf(op, "operation_conflict") = "conflict"
<1>1. CASE op \in AuthOperations
  BY <1>1 DEF StatusOf, AuthStatus, AuthOperations, RegistryOps, FormOps, FileOps
<1>2. CASE op \in RegistryOps
  BY <1>2 DEF StatusOf, RegistryStatus, AuthOperations, RegistryOps, FormOps, FileOps
<1>3. CASE op \in FormOps
  BY <1>3 DEF StatusOf, FormStatus, AuthOperations, RegistryOps, FormOps, FileOps
<1>4. CASE op \in FileOps
  BY <1>4 DEF StatusOf, FileStatus, AuthOperations, RegistryOps, FormOps, FileOps
<1> QED BY <1>1, <1>2, <1>3, <1>4, OperationsAre

\* When a service has served, or a file operation succeeded, what it needs held.
LEMMA NeedsAreMet ==
  ASSUME NEW r \in HttpRequests, NEW seen, NEW n \in 1..Len(Plan[r.op]), Admitted(r),
         \A i \in 1..n : CallPassed(Plan[r.op][i], r, seen),
         Plan[r.op][n] = "succeed" \/ (Plan[r.op][n] = "serve" /\ r.op # "download")
  PROVE  /\ Needs(r.op) \subseteq seen /\ r.body = "sound" /\ r.key
         /\ r.op \in {"login", "callback"} \/ r.cookie = "good"
         /\ r.op \in Mutations => r.browser = "trusted"
<1> DEFINE plan == Plan[r.op]
<1>0. plan \in Seq(Calls) /\ Len(plan) \in Nat /\ DOMAIN plan = 1..Len(plan)
  BY RequestIs DEF PlanIsSound
<1>1. /\ \A i \in 1..Len(plan) : i <= n \/ plan[i] = "succeed"
      /\ r.op \notin AuthOperations
      /\ r.op = "resolveDeepLink" =>
           \E j, k \in 1..n : plan[j] = "permission" /\ plan[k] = "decide"
      /\ r.op = "download" => \E k \in 1..n : plan[k] = "find"
      /\ r.op \in FileOps => \E k \in 1..n : plan[k] = "serve"
      /\ r.op \in Mutations => plan[1] = "mutation"
  <2>1. CASE plan[n] = "serve"
    <3> HIDE DEF plan
    <3>1. /\ r.op \notin AuthOperations /\ \A j \in n + 1..Len(plan) : plan[j] = "succeed"
          /\ r.op = "resolveDeepLink" =>
               \E j, k \in 1..n - 1 : plan[j] = "permission" /\ plan[k] = "decide"
          /\ r.op \in Mutations => plan[1] = "mutation"
      BY <2>1, RequestIs DEF PlanIsSound, plan
    <3>2. r.op # "download" BY <2>1 DEF plan
    <3>3. n \in 1..n /\ (\A j \in 1..n - 1 : j \in 1..n)
          /\ \A i \in 1..Len(plan) : i <= n \/ i \in n + 1..Len(plan)
      BY <1>0 DEF plan
    <3> QED BY <2>1, <3>1, <3>2, <3>3
  <2>2. CASE plan[n] = "succeed"
    <3> HIDE DEF plan
    <3>1. /\ r.op \in FileOps /\ n = Len(plan)
          /\ \E j, k \in 1..n - 1 : plan[j] = "serve" /\ (r.op = "download" => plan[k] = "find")
          /\ r.op \in Mutations => plan[1] = "mutation"
      BY <2>2, RequestIs DEF PlanIsSound, plan
    <3> QED BY <1>0, <3>1 DEF plan, FileOps, AuthOperations
  <2> QED BY <2>1, <2>2
<1>2. \A i \in 1..n : CallPassed(plan[i], r, seen) OBVIOUS
<1> HIDE DEF plan
<1>3. r.op \in FileOps => "free" \in seen /\ r.body # "excessive"
  BY <1>1, <1>2 DEF CallPassed
<1>4. r.op = "resolveDeepLink" => "open" \in seen /\ r.body # "unsound"
  BY <1>1, <1>2 DEF CallPassed
<1>5. r.op = "download" => "open" \in seen BY <1>1, <1>2 DEF CallPassed
<1>6. r.op \in Mutations => "stored" \in seen /\ r.browser = "trusted"
  BY <1>0, <1>1, <1>2 DEF CallPassed
<1>7. \A i \in 1..Len(plan) :
        /\ plan[i] = "principal" => "session" \in seen
        /\ plan[i] = "workforce" => "employed" \in seen
        /\ plan[i] = "permission" => "permitted" \in seen
        /\ plan[i] = "find" => "found" \in seen
  <2> TAKE i \in 1..Len(plan)
  <2>1. CASE plan[i] = "succeed" BY <2>1
  <2>2. CASE i \in 1..n BY <1>2, <2>2 DEF CallPassed
  <2> QED BY <1>0, <1>1, <2>1, <2>2
<1>8. Needs(r.op) \subseteq seen
  <2> SUFFICES ASSUME NEW f \in Needs(r.op) PROVE f \in seen
    OBVIOUS
  <2> QED
    BY <1>0, <1>1, <1>3, <1>4, <1>5, <1>6, <1>7 DEF Needs, plan, AuthOperations, AllFacts
<1>9. r.body = "sound"
  BY <1>1, <1>3, <1>4, RequestIs DEF Admitted, Bodies, FileOps
<1> QED BY <1>1, <1>6, <1>8, <1>9 DEF Admitted

LEMMA NeedsOfSessions ==
  ASSUME NEW op \in AuthOperations, NEW f \in Needs(op)
  PROVE  \/ f = "stored" /\ op \in Mutations
         \/ f = "session" /\ op = "session"
         \/ f \in {"found", "open"} /\ op = "callback"
         \/ f \in {"open", "free"} /\ op = "refresh"
<1>1. op \in Operations /\ PlanIsSound(op, Plan[op]) BY PlansAreSound, OperationsAre
<1>2. /\ \A i \in DOMAIN Plan[op] :
           /\ Plan[op][i] \notin {"workforce", "permission", "find"}
           /\ Plan[op][i] = "principal" => op = "session"
  BY <1>1 DEF PlanIsSound, AuthOperations
<1> QED BY <1>2 DEF Needs, AuthOperations, FileOps, AllFacts

-----------------------------------------------------------------------------
(* A call.                                                                 *)

Earned(r, seen) ==
  /\ r.body = "sound" /\ r.key
  /\ r.op \in {"login", "callback"} \/ r.cookie = "good"
  /\ r.op \in Mutations => r.browser = "trusted"
  /\ Needs(r.op) \subseteq seen

\* The request waits for this call, and watches what holds.
AtItsCall(call) ==
  /\ RequestsInv /\ RequestWaits /\ AtCall(call) /\ sent.op \in Operations
  /\ PlanIsSound(sent.op, Plan[sent.op]) /\ Plan[sent.op][waiting] = call
  /\ sent' = sent /\ failedOnce' = failedOnce /\ misjudged' = misjudged
  /\ heldOnce \subseteq heldOnce' /\ lapsedOnce \subseteq lapsedOnce'
  /\ Seen(outside', heldOnce', lapsedOnce') /\ Seen(outside, heldOnce', lapsedOnce')
  /\ effect => call = "succeed"

LEMMA CallBegins ==
  ASSUME RequestsInv, NEW call, AtCall(call), UNCHANGED <<sent, failedOnce, misjudged>>, Watch
  PROVE  AtItsCall(call)
<1>1. RequestWaits /\ sent \in HttpRequests BY DEF RequestsInv, AtCall, RequestWaits
<1>2. heldOnce \subseteq heldOnce' /\ lapsedOnce \subseteq lapsedOnce' BY DEF Watch
<1>3. \A o : o = outside' => Seen(o, heldOnce', lapsedOnce')
  <2> TAKE o
  <2> HAVE o = outside'
  <2>1. FactsOf(o) \subseteq heldOnce' /\ AllFacts \ FactsOf(o) \subseteq lapsedOnce'
    BY DEF Watch
  <2> QED BY <2>1, FactsAreSeen
<1>4. Seen(outside, heldOnce', lapsedOnce') BY <1>1, <1>2 DEF RequestWaits, Seen
<1> QED BY <1>1, <1>2, <1>3, <1>4, RequestIs DEF AtItsCall, RequestWaits, AtCall

LEMMA Passes ==
  ASSUME NEW call, AtItsCall(call), OutsideTyped', Pass,
         CallPassed(call, sent, heldOnce'),
         asOf' = asOf \/ asOf' = outside'.employed,
         effect' \in BOOLEAN, effect' => Earned(sent, heldOnce'),
         effect' => waiting = Len(Plan[sent.op]) \/ Plan[sent.op][waiting + 1] = "succeed",
         waiting = Len(Plan[sent.op]) => effect'
  PROVE  RequestsInv'
<1> DEFINE plan == Plan[sent.op]
<1>0. /\ sent \in HttpRequests /\ waiting \in 1..Len(plan) /\ Len(plan) \in Nat /\ response = "none"
      /\ Admitted(sent) /\ sent' = sent
      /\ \A i \in 1..waiting - 1 : CallPassed(plan[i], sent, heldOnce)
      /\ IF asOf THEN "employed" \in heldOnce ELSE "employed" \in lapsedOnce
      /\ heldOnce \subseteq heldOnce' /\ lapsedOnce \subseteq lapsedOnce'
      /\ Seen(outside', heldOnce', lapsedOnce')
  BY DEF AtItsCall, RequestWaits, PlanIsSound
<1>1. EffectsAreEarned' BY <1>0 DEF EffectsAreEarned, Earned
<1>2. CASE waiting = Len(plan)
  <2>1. waiting' = 0 /\ response' = "ok" /\ effect' BY <1>2 DEF Pass
  <2> QED BY <1>1, <2>1 DEF RequestsInv, RefusalsAreTrue
<1>3. CASE waiting # Len(plan)
  <2>1. waiting' = waiting + 1 /\ response' = "none" BY <1>0, <1>3 DEF Pass
  <2>2. RefusalsAreTrue' BY <2>1 DEF RefusalsAreTrue
  <2>3. \A i \in 1..waiting : CallPassed(plan[i], sent, heldOnce')
    <3> TAKE i \in 1..waiting
    <3>1. CASE i = waiting BY <3>1 DEF AtItsCall
    <3>2. CASE i # waiting
      <4>1. CallPassed(plan[i], sent, heldOnce) BY <1>0, <3>2
      <4> QED BY <1>0, <4>1 DEF CallPassed
    <3> QED BY <3>1, <3>2
  <2>4. IF asOf' THEN "employed" \in heldOnce' ELSE "employed" \in lapsedOnce'
    BY <1>0 DEF Seen
  <2>5. waiting' - 1 = waiting /\ waiting' \in 1..Len(plan) /\ waiting' \in Nat BY <1>0, <1>3, <2>1
  <2> HIDE DEF plan
  <2>6. RequestWaits'
    BY <1>0, <1>3, <2>1, <2>3, <2>4, <2>5 DEF RequestWaits, plan
  <2> QED BY <1>1, <2>2, <2>5, <2>6 DEF RequestsInv
<1> QED BY <1>2, <1>3

LEMMA Rejects ==
  ASSUME NEW call, AtItsCall(call), OutsideTyped', waiting' = 0, RefusalsAreTrue',
         effect' \in BOOLEAN, effect' => effect \/ Earned(sent, heldOnce')
  PROVE  RequestsInv'
<1>1. EffectsAreEarned'
  BY DEF AtItsCall, RequestsInv, EffectsAreEarned, Earned
<1> QED BY <1>1 DEF RequestsInv

\* A refusal of a request that did nothing, by its reason.
LEMMA RefusedTruly ==
  ASSUME NEW call, AtItsCall(call), call # "succeed", NEW e, Reject(e), OutsideTyped', effect' = effect,
         LET s == StatusOf(sent.op, e) IN
         \/ s = "invalid" /\ \/ sent.body # "sound"
                             \/ sent.op = "callback" /\ {"found", "open"} \cap lapsedOnce' # {}
         \/ s = "unauthorized" /\ \/ "session" \in lapsedOnce'
                                  \/ sent.op \in {"callback", "refresh"} /\ "open" \in lapsedOnce'
         \/ s = "forbidden" /\ (sent.browser # "trusted" \/ {"employed", "permitted", "open"} \cap lapsedOnce' # {})
         \/ s = "missing" /\ "found" \in lapsedOnce'
         \/ s = "conflict" /\ "free" \in lapsedOnce'
         \/ s = "unavailable" /\ (failedOnce' \/ clashed')
  PROVE  RequestsInv'
<1>1. sent' = sent /\ waiting' = 0 /\ ~effect /\ response' = StatusOf(sent.op, e) /\ effect \in BOOLEAN
  BY DEF AtItsCall, Reject, RequestsInv
<1>2. RefusalsAreTrue' BY <1>1 DEF RefusalsAreTrue
<1> QED BY <1>1, <1>2, Rejects

-----------------------------------------------------------------------------
(* The calls, one by one.                                                  *)

LEMMA MutationKeeps ==
  ASSUME RequestsInv, Mutation, UNCHANGED <<sent, failedOnce, misjudged>>, Watch PROVE RequestsInv'
<1>0. AtItsCall("mutation") BY CallBegins DEF Mutation
<1>1. /\ outside' = outside /\ OutsideTyped' /\ effect' = effect /\ ~effect /\ effect \in BOOLEAN
      /\ asOf' = outside'.employed
      /\ Seen(outside, heldOnce', lapsedOnce')
      /\ sent.op \in Mutations /\ waiting # Len(Plan[sent.op])
  BY <1>0 DEF Mutation, AtItsCall, RequestsInv, OutsideTyped, PlanIsSound, RequestWaits
<1>2. CASE outside.session = "ended"
  <2>1. Reject("session_invalid") /\ "session" \in lapsedOnce' BY <1>1, <1>2 DEF Mutation, Seen
  <2>2. StatusOf(sent.op, "session_invalid") = "unauthorized" BY <1>0, StatusIs DEF AtItsCall
  <2> QED BY <1>0, <1>1, <2>1, <2>2, RefusedTruly
<1>3. CASE outside.session # "ended" /\ ~BrowserIsTrusted
  <2>1. Reject("csrf_rejected") /\ sent.browser # "trusted" BY <1>3 DEF Mutation, BrowserIsTrusted
  <2>2. StatusOf(sent.op, "csrf_rejected") = "forbidden"
    BY <1>0, <1>1, StatusIs DEF AtItsCall, Mutations, AuthOperations, FileOps
  <2> QED BY <1>0, <1>1, <2>1, <2>2, RefusedTruly
<1>4. CASE outside.session # "ended" /\ BrowserIsTrusted
  <2>1. Pass BY <1>4 DEF Mutation
  <2>2. CallPassed("mutation", sent, heldOnce')
    BY <1>1, <1>4 DEF CallPassed, Seen, BrowserIsTrusted
  <2> QED BY <1>0, <1>1, <2>1, <2>2, Passes
<1> QED BY <1>2, <1>3, <1>4

LEMMA PrincipalKeeps ==
  ASSUME RequestsInv, Principal, UNCHANGED <<sent, failedOnce, misjudged>>, Watch PROVE RequestsInv'
<1>0. AtItsCall("principal") BY CallBegins DEF Principal
<1>1. /\ OutsideTyped' /\ ~effect /\ effect \in BOOLEAN /\ asOf' = asOf
      /\ Seen(outside, heldOnce', lapsedOnce')
      /\ (waiting = Len(Plan[sent.op])) = (sent.op = "session")
      /\ sent \in HttpRequests /\ Admitted(sent)
  BY <1>0 DEF Principal, AtItsCall, RequestsInv, OutsideTyped, PlanIsSound, RequestWaits
<1>2. CASE outside.session # "live"
  <2>1. Reject("session_invalid") /\ "session" \in lapsedOnce' /\ effect' = effect
    BY <1>1, <1>2 DEF Principal, Seen
  <2>2. StatusOf(sent.op, "session_invalid") = "unauthorized" BY <1>0, StatusIs DEF AtItsCall
  <2> QED BY <1>0, <1>1, <2>1, <2>2, RefusedTruly
<1>3. CASE outside.session = "live"
  <2>1. Pass /\ effect' = (sent.op = "session") BY <1>3 DEF Principal
  <2>2. CallPassed("principal", sent, heldOnce') /\ "session" \in heldOnce'
    BY <1>1, <1>3 DEF CallPassed, Seen
  <2>3. sent.op = "session" => Earned(sent, heldOnce')
    <3> SUFFICES ASSUME sent.op = "session" PROVE Earned(sent, heldOnce')
      OBVIOUS
    <3>1. sent.body = "sound" /\ sent.key /\ sent.cookie = "good" /\ sent.op \notin Mutations
      BY <1>1, RequestIs DEF Admitted, Bodies, Mutations
    <3>2. Needs(sent.op) \subseteq heldOnce'
      BY <2>2, <3>1, NeedsOfSessions DEF AuthOperations
    <3> QED BY <3>1, <3>2 DEF Earned
  <2> QED BY <1>0, <1>1, <2>1, <2>2, <2>3, Passes
<1> QED BY <1>2, <1>3

LEMMA WorkforceKeeps ==
  ASSUME RequestsInv, Workforce, UNCHANGED <<sent, failedOnce, misjudged>>, Watch PROVE RequestsInv'
<1>0. AtItsCall("workforce") BY CallBegins DEF Workforce
<1>1. /\ OutsideTyped' /\ effect' = effect /\ ~effect /\ effect \in BOOLEAN /\ asOf' = asOf
      /\ IF asOf THEN "employed" \in heldOnce' ELSE "employed" \in lapsedOnce'
      /\ sent.op \notin AuthOperations /\ waiting # Len(Plan[sent.op])
  BY <1>0 DEF Workforce, ReadsOnly, AtItsCall, RequestsInv, OutsideTyped, PlanIsSound, RequestWaits
<1>2. CASE ~asOf
  <2>1. Reject("not_employed") /\ "employed" \in lapsedOnce' BY <1>1, <1>2 DEF Workforce
  <2>2. StatusOf(sent.op, "not_employed") = "forbidden" BY <1>0, <1>1, StatusIs DEF AtItsCall
  <2> QED BY <1>0, <1>1, <2>1, <2>2, RefusedTruly
<1>3. CASE asOf
  <2>1. Pass /\ CallPassed("workforce", sent, heldOnce') BY <1>1, <1>3 DEF Workforce, CallPassed
  <2> QED BY <1>0, <1>1, <2>1, Passes
<1> QED BY <1>2, <1>3

LEMMA PermissionKeeps ==
  ASSUME RequestsInv, Permission, UNCHANGED <<sent, failedOnce, misjudged>>, Watch PROVE RequestsInv'
<1>0. AtItsCall("permission") BY CallBegins DEF Permission
<1>1. /\ OutsideTyped' /\ effect' = effect /\ ~effect /\ effect \in BOOLEAN /\ asOf' = asOf
      /\ Seen(outside, heldOnce', lapsedOnce')
      /\ sent.op \notin AuthOperations /\ waiting # Len(Plan[sent.op])
  BY <1>0 DEF Permission, ReadsOnly, AtItsCall, RequestsInv, OutsideTyped, PlanIsSound, RequestWaits
<1>2. CASE ~outside.permitted
  <2>1. Reject("denied") /\ "permitted" \in lapsedOnce' BY <1>1, <1>2 DEF Permission, Seen
  <2>2. StatusOf(sent.op, "denied") = "forbidden" BY <1>0, <1>1, StatusIs DEF AtItsCall
  <2> QED BY <1>0, <1>1, <2>1, <2>2, RefusedTruly
<1>3. CASE outside.permitted /\ LinkIsUnsound
  <2>1. Reject("invalid_input") /\ sent.body # "sound" BY <1>3 DEF Permission, LinkIsUnsound
  <2>2. StatusOf(sent.op, "invalid_input") = "invalid" BY <1>0, <1>1, StatusIs DEF AtItsCall
  <2> QED BY <1>0, <1>1, <2>1, <2>2, RefusedTruly
<1>4. CASE outside.permitted /\ ~LinkIsUnsound
  <2>1. Pass /\ CallPassed("permission", sent, heldOnce')
    BY <1>1, <1>4 DEF Permission, LinkIsUnsound, CallPassed, Seen
  <2> QED BY <1>0, <1>1, <2>1, Passes
<1> QED BY <1>2, <1>3, <1>4

LEMMA DecisionKeeps ==
  ASSUME RequestsInv, AuthorizeCall, UNCHANGED <<sent, failedOnce, misjudged>>, Watch PROVE RequestsInv'
<1>0. PICK call \in {"decide", "decideOnFile"} : AtItsCall(call)
  BY CallBegins DEF AuthorizeCall
<1>1. /\ OutsideTyped' /\ effect' = effect /\ ~effect /\ effect \in BOOLEAN /\ asOf' = asOf
      /\ Seen(outside, heldOnce', lapsedOnce')
      /\ sent.op \notin AuthOperations /\ waiting # Len(Plan[sent.op])
      /\ call = "decideOnFile" => sent.op \in FileOps
  BY <1>0 DEF AuthorizeCall, DecideOnFiles, ReadsOnly, AtItsCall, RequestsInv, OutsideTyped, PlanIsSound,
     RequestWaits
<1>2. StatusOf(sent.op, "denied") = "forbidden" /\ StatusOf(sent.op, "dependency") = "unavailable"
  BY <1>0, <1>1, StatusIs DEF AtItsCall
<1>3. \/ Pass /\ (sent.op = "resolveDeepLink" => outside.target # "denied")
      \/ Reject("denied") /\ (~outside.permitted \/ outside.target = "denied")
      \/ Reject("dependency") /\ clashed'
  <2>1. CASE sent.op \in FileOps
    BY <2>1 DEF AuthorizeCall, DecideOnFiles, FileAllowed, FileOps
  <2>2. CASE sent.op \in FormOps
    BY <2>2 DEF AuthorizeCall, FormAllowed, FormOps, FileOps, RegistryOps
  <2>3. CASE sent.op \in RegistryOps
    BY <2>3 DEF AuthorizeCall, RouteAllowed, FormOps, FileOps, RegistryOps
  <2> QED BY <1>0, <1>1, <2>1, <2>2, <2>3, OperationsAre DEF AtItsCall
<1>4. CASE Pass /\ (sent.op = "resolveDeepLink" => outside.target # "denied")
  <2>1. CallPassed(call, sent, heldOnce') BY <1>0, <1>1, <1>4 DEF CallPassed, Seen
  <2> QED BY <1>0, <1>1, <1>4, <2>1, Passes
<1>5. CASE Reject("denied") /\ (~outside.permitted \/ outside.target = "denied")
  <2>1. "permitted" \in lapsedOnce' \/ "open" \in lapsedOnce' BY <1>1, <1>5 DEF Seen
  <2> QED BY <1>0, <1>1, <1>2, <1>5, <2>1, RefusedTruly
<1>6. CASE Reject("dependency") /\ clashed'
  BY <1>0, <1>1, <1>2, <1>6, RefusedTruly
<1> QED BY <1>3, <1>4, <1>5, <1>6

LEMMA FindKeeps ==
  ASSUME RequestsInv, FindTarget, UNCHANGED <<sent, failedOnce, misjudged>>, Watch PROVE RequestsInv'
<1>0. AtItsCall("find") BY CallBegins DEF FindTarget
<1>1. /\ OutsideTyped' /\ effect' = effect /\ ~effect /\ effect \in BOOLEAN /\ asOf' = asOf
      /\ Seen(outside, heldOnce', lapsedOnce')
      /\ sent.op \notin AuthOperations /\ waiting # Len(Plan[sent.op])
  BY <1>0 DEF FindTarget, AtItsCall, RequestsInv, OutsideTyped, PlanIsSound, RequestWaits
<1>2. CASE outside.target = "missing"
  <2>1. PICK e : /\ Reject(e)
                 /\ e = IF sent.op \in RegistryOps THEN "target_unavailable" ELSE "not_found"
    BY <1>2 DEF FindTarget
  <2>2. StatusOf(sent.op, e) = "missing"
    BY <1>0, <1>1, <2>1, StatusIs, OperationsAre DEF AtItsCall
  <2>3. "found" \in lapsedOnce' BY <1>1, <1>2 DEF Seen
  <2> QED BY <1>0, <1>1, <2>1, <2>2, <2>3, RefusedTruly
<1>3. CASE outside.target # "missing" /\ sent.op = "download" /\ outside.target = "denied"
  <2>1. Reject("denied") \/ (Reject("dependency") /\ clashed') BY <1>3 DEF FindTarget
  <2>2. StatusOf(sent.op, "denied") = "forbidden" /\ StatusOf(sent.op, "dependency") = "unavailable"
    BY <1>0, <1>1, StatusIs DEF AtItsCall
  <2>3. "open" \in lapsedOnce' BY <1>1, <1>3 DEF Seen
  <2> QED BY <1>0, <1>1, <2>1, <2>2, <2>3, RefusedTruly
<1>4. CASE outside.target # "missing" /\ ~(sent.op = "download" /\ outside.target = "denied")
  <2>1. Pass /\ CallPassed("find", sent, heldOnce')
    BY <1>1, <1>4 DEF FindTarget, CallPassed, Seen
  <2> QED BY <1>0, <1>1, <2>1, Passes
<1> QED BY <1>2, <1>3, <1>4

LEMMA EarnedByService ==
  ASSUME NEW call \in {"serve", "succeed"}, AtItsCall(call), CallPassed(call, sent, heldOnce'),
         call = "succeed" \/ sent.op # "download"
  PROVE  Earned(sent, heldOnce')
<1> DEFINE plan == Plan[sent.op]
<1>1. /\ sent \in HttpRequests /\ waiting \in 1..Len(plan) /\ Admitted(sent) /\ plan[waiting] = call
      /\ \A i \in 1..waiting - 1 : CallPassed(plan[i], sent, heldOnce)
      /\ heldOnce \subseteq heldOnce' /\ Len(plan) \in Nat
  BY DEF AtItsCall, RequestWaits, PlanIsSound
<1>2. \A i \in 1..waiting : CallPassed(plan[i], sent, heldOnce')
  <2> TAKE i \in 1..waiting
  <2>1. CASE i = waiting BY <1>1, <2>1
  <2>2. CASE i # waiting
    <3>1. CallPassed(plan[i], sent, heldOnce) BY <1>1, <2>2
    <3> QED BY <1>1, <3>1 DEF CallPassed
  <2> QED BY <2>1, <2>2
<1>3. PICK seen : seen = heldOnce' OBVIOUS
<1> QED BY <1>1, <1>2, <1>3, NeedsAreMet DEF Earned

LEMMA ServeKeeps ==
  ASSUME RequestsInv, Serve, UNCHANGED <<sent, failedOnce, misjudged>>, Watch PROVE RequestsInv'
<1>0. AtItsCall("serve") BY CallBegins DEF Serve
<1>1. /\ OutsideTyped' /\ ~effect /\ effect \in BOOLEAN /\ asOf' = asOf
      /\ Seen(outside, heldOnce', lapsedOnce')
      /\ sent.op \notin AuthOperations /\ waiting \in 1..Len(Plan[sent.op])
      /\ (waiting = Len(Plan[sent.op])) = (sent.op \notin FileOps)
      /\ \A j \in waiting + 1..Len(Plan[sent.op]) : Plan[sent.op][j] = "succeed"
      /\ Len(Plan[sent.op]) \in Nat
  BY <1>0 DEF Serve, AtItsCall, RequestsInv, OutsideTyped, PlanIsSound, RequestWaits
<1>2. CASE sent.op \in FileOps /\ sent.body = "excessive"
  <2>1. Reject("invalid_input") /\ effect' = effect /\ sent.body # "sound" BY <1>2 DEF Serve
  <2>2. StatusOf(sent.op, "invalid_input") = "invalid" BY <1>0, <1>1, StatusIs DEF AtItsCall
  <2> QED BY <1>0, <1>1, <2>1, <2>2, RefusedTruly
<1>3. CASE ~(sent.op \in FileOps /\ sent.body = "excessive")
           /\ sent.op \in FileOps /\ outside.target = "conflict"
  <2>1. Reject("operation_conflict") /\ effect' = effect /\ "free" \in lapsedOnce'
    BY <1>1, <1>3 DEF Serve, Seen
  <2>2. StatusOf(sent.op, "operation_conflict") = "conflict" BY <1>0, <1>3, StatusIs DEF AtItsCall
  <2> QED BY <1>0, <1>1, <2>1, <2>2, RefusedTruly
<1>4. CASE /\ ~(sent.op \in FileOps /\ sent.body = "excessive")
           /\ ~(sent.op \in FileOps /\ outside.target = "conflict")
  <2>1. Pass /\ effect' = (sent.op # "download") BY <1>4 DEF Serve
  <2>2. CallPassed("serve", sent, heldOnce') BY <1>1, <1>4 DEF CallPassed, Seen
  <2>3. effect' => Earned(sent, heldOnce') BY <1>0, <2>1, <2>2, EarnedByService
  <2>4. waiting = Len(Plan[sent.op]) \/ Plan[sent.op][waiting + 1] = "succeed" BY <1>1
  <2>5. waiting = Len(Plan[sent.op]) => effect' BY <1>1, <2>1 DEF FileOps
  <2> QED BY <1>0, <1>1, <2>1, <2>2, <2>3, <2>4, <2>5, Passes
<1> QED BY <1>2, <1>3, <1>4

LEMMA SucceedKeeps ==
  ASSUME RequestsInv, Succeed, UNCHANGED <<sent, failedOnce, misjudged>>, Watch PROVE RequestsInv'
<1>0. AtItsCall("succeed") BY CallBegins DEF Succeed
<1>1. /\ OutsideTyped' /\ effect \in BOOLEAN /\ asOf' = asOf
      /\ sent.op \notin AuthOperations /\ waiting = Len(Plan[sent.op])
  BY <1>0 DEF Succeed, AtItsCall, RequestsInv, OutsideTyped, PlanIsSound, RequestWaits, FileOps,
     AuthOperations
<1>2. CASE Pass /\ effect' = TRUE
  <2>1. CallPassed("succeed", sent, heldOnce') BY DEF CallPassed
  <2>2. Earned(sent, heldOnce') BY <1>0, <2>1, EarnedByService
  <2> QED BY <1>0, <1>1, <1>2, <2>1, <2>2, Passes
<1>3. CASE Reject("dependency") /\ clashed' = TRUE /\ effect' = effect
  <2>1. StatusOf(sent.op, "dependency") = "unavailable" BY <1>0, StatusIs DEF AtItsCall
  <2>2. waiting' = 0 /\ RefusalsAreTrue' BY <1>3, <2>1 DEF Reject, RefusalsAreTrue
  <2> QED BY <1>0, <1>1, <1>3, <2>2, Rejects
<1> QED BY <1>2, <1>3 DEF Succeed

\* What is asked of the session itself is done by the last call.
LEMMA LastOfSession ==
  ASSUME NEW call \in {"rotate", "revoke", "begin", "complete"}, AtItsCall(call), OutsideTyped', Pass,
         asOf' = asOf, effect' = TRUE,
         call \in {"rotate", "complete"} => "open" \in heldOnce',
         call = "rotate" => "free" \in heldOnce',
         call = "complete" => "found" \in heldOnce'
  PROVE  RequestsInv'
<1>1. /\ sent \in HttpRequests /\ waiting = Len(Plan[sent.op]) /\ Admitted(sent)
      /\ sent.op = CASE call = "rotate" -> "refresh" [] call = "revoke" -> "logout"
                     [] call = "begin" -> "login" [] call = "complete" -> "callback"
      /\ sent.op \in Mutations => Plan[sent.op][1] = "mutation"
      /\ \A i \in 1..waiting - 1 : CallPassed(Plan[sent.op][i], sent, heldOnce)
      /\ heldOnce \subseteq heldOnce' /\ waiting \in Nat /\ waiting > 0 /\ Plan[sent.op][waiting] = call
  BY DEF AtItsCall, RequestWaits, PlanIsSound
<1>2. sent.op \in AuthOperations /\ sent.body = "sound" /\ sent.key
      /\ (sent.op \in {"login", "callback"} \/ sent.cookie = "good")
  BY <1>1 DEF AuthOperations, Admitted
<1>3. sent.op \in Mutations => "stored" \in heldOnce' /\ sent.browser = "trusted"
  <2> SUFFICES ASSUME sent.op \in Mutations PROVE "stored" \in heldOnce' /\ sent.browser = "trusted"
    OBVIOUS
  <2>1. waiting # 1 BY <1>1
  <2>2. 1 \in 1..waiting - 1 BY <1>1, <2>1
  <2>3. CallPassed("mutation", sent, heldOnce) BY <1>1, <2>2
  <2> QED BY <1>1, <2>3 DEF CallPassed
<1>4. Needs(sent.op) \subseteq heldOnce'
  <2> SUFFICES ASSUME NEW f \in Needs(sent.op) PROVE f \in heldOnce'
    OBVIOUS
  <2>1. \/ f = "stored" /\ sent.op \in Mutations
        \/ f = "session" /\ sent.op = "session"
        \/ f \in {"found", "open"} /\ sent.op = "callback"
        \/ f \in {"open", "free"} /\ sent.op = "refresh"
    BY <1>2, NeedsOfSessions
  <2> QED BY <1>1, <1>3, <2>1
<1>5. Earned(sent, heldOnce') BY <1>2, <1>3, <1>4 DEF Earned
<1>6. CallPassed(call, sent, heldOnce') BY DEF CallPassed
<1> QED BY <1>1, <1>5, <1>6, Passes

LEMMA SessionCallsKeep ==
  ASSUME RequestsInv, RefreshSession \/ EndSession \/ StartLogin \/ FinishLogin,
         UNCHANGED <<sent, failedOnce, misjudged>>, Watch
  PROVE  RequestsInv'
<1>0. OutsideTyped /\ effect \in BOOLEAN BY DEF RequestsInv
<1>1. CASE RefreshSession
  <2>0. AtItsCall("rotate") BY <1>1, CallBegins DEF RefreshSession
  <2>1. /\ OutsideTyped' /\ asOf' = asOf /\ ~effect /\ Seen(outside, heldOnce', lapsedOnce')
        /\ sent.op = "refresh"
    BY <1>0, <1>1, <2>0 DEF RefreshSession, AtItsCall, OutsideTyped, PlanIsSound, RequestWaits
  <2>2. /\ StatusOf(sent.op, "session_invalid") = "unauthorized"
        /\ StatusOf(sent.op, "refresh_in_progress") = "conflict"
        /\ StatusOf(sent.op, "refresh_rejected") = "unauthorized"
    BY <2>0, <2>1, StatusIs DEF AtItsCall, AuthOperations
  <2>3. CASE outside.session = "ended"
    <3>1. Reject("session_invalid") /\ effect' = effect /\ "session" \in lapsedOnce'
      BY <1>1, <2>1, <2>3 DEF RefreshSession, Seen
    <3> QED BY <2>0, <2>1, <2>2, <3>1, RefusedTruly
  <2>4. CASE outside.session # "ended" /\ outside.target = "conflict"
    <3>1. Reject("refresh_in_progress") /\ effect' = effect /\ "free" \in lapsedOnce'
      BY <1>1, <2>1, <2>4 DEF RefreshSession, Seen
    <3> QED BY <2>0, <2>1, <2>2, <3>1, RefusedTruly
  <2>5. CASE outside.session # "ended" /\ outside.target = "denied"
    <3>1. Reject("refresh_rejected") /\ effect' = effect /\ "open" \in lapsedOnce'
      BY <1>1, <2>1, <2>5 DEF RefreshSession, Seen
    <3> QED BY <2>0, <2>1, <2>2, <3>1, RefusedTruly
  <2>6. CASE outside.session # "ended" /\ outside.target \notin {"conflict", "denied"}
    <3>1. Pass /\ effect' = TRUE /\ "open" \in heldOnce' /\ "free" \in heldOnce'
      BY <1>1, <2>1, <2>6 DEF RefreshSession, Seen
    <3> QED BY <2>0, <2>1, <3>1, LastOfSession
  <2> QED BY <2>3, <2>4, <2>5, <2>6
<1>2. CASE EndSession
  <2>1. AtItsCall("revoke") /\ Pass /\ effect' = TRUE /\ asOf' = asOf BY <1>2, CallBegins DEF EndSession
  <2>2. OutsideTyped' BY <1>0, <1>2 DEF EndSession, OutsideTyped
  <2> QED BY <2>1, <2>2, LastOfSession
<1>3. CASE StartLogin
  <2>1. AtItsCall("begin") /\ Pass /\ effect' = TRUE /\ asOf' = asOf BY <1>3, CallBegins DEF StartLogin
  <2>2. OutsideTyped' BY <1>0, <1>3 DEF StartLogin, OutsideTyped
  <2> QED BY <2>1, <2>2, LastOfSession
<1>4. CASE FinishLogin
  <2>0. AtItsCall("complete") BY <1>4, CallBegins DEF FinishLogin
  <2>1. /\ asOf' = asOf /\ ~effect /\ Seen(outside, heldOnce', lapsedOnce') /\ sent.op = "callback"
    BY <1>4, <2>0 DEF FinishLogin, AtItsCall, PlanIsSound, RequestWaits
  <2>2. OutsideTyped' BY <1>0, <1>4 DEF FinishLogin, OutsideTyped
  <2>3. /\ StatusOf(sent.op, "session_invalid") = "unauthorized"
        /\ StatusOf(sent.op, "callback_invalid") = "invalid"
    BY <2>0, <2>1, StatusIs DEF AtItsCall, AuthOperations
  <2>4. CASE outside.target \in {"missing", "denied"}
    <3>1. /\ Reject("callback_invalid") \/ (Reject("session_invalid") /\ outside.target = "denied")
          /\ effect' = effect
      BY <1>4, <2>4 DEF FinishLogin
    <3>2. IF outside.target = "missing" THEN "found" \in lapsedOnce' ELSE "open" \in lapsedOnce'
      BY <2>1, <2>4 DEF Seen
    <3> QED BY <2>0, <2>1, <2>2, <2>3, <2>4, <3>1, <3>2, RefusedTruly
  <2>5. CASE outside.target \notin {"missing", "denied"}
    <3>1. Pass /\ effect' = TRUE /\ "open" \in heldOnce' /\ "found" \in heldOnce'
      BY <1>4, <2>1, <2>5 DEF FinishLogin, Seen
    <3> QED BY <2>0, <2>1, <2>2, <3>1, LastOfSession
  <2> QED BY <2>4, <2>5
<1> QED BY <1>1, <1>2, <1>3, <1>4

-----------------------------------------------------------------------------
(* What is no call that answers.                                           *)

LEMMA FailKeeps ==
  ASSUME RequestsInv, Fail, failedOnce' = TRUE, sent' = sent, Watch PROVE RequestsInv'
<1>0. RequestWaits /\ OutsideTyped /\ effect \in BOOLEAN /\ sent.op \in Operations
      /\ PlanIsSound(sent.op, Plan[sent.op])
  BY RequestIs DEF RequestsInv, Fail, RequestWaits
<1>1. heldOnce \subseteq heldOnce' BY DEF Watch
<1>2. OutsideTyped'
  <2>1. outside' \in {outside, [outside EXCEPT !.session = "ended"], [outside EXCEPT !.target = "missing"]}
    BY DEF Fail
  <2> QED BY <1>0, <2>1 DEF OutsideTyped
<1>3. waiting' = 0 /\ RefusalsAreTrue'
  <2>1. StatusOf(sent.op, "dependency") = "unavailable" BY <1>0, StatusIs
  <2> QED BY <2>1 DEF Fail, Reject, RefusalsAreTrue
<1>4. effect' \in BOOLEAN BY <1>0 DEF Fail
<1>5. EffectsAreEarned'
  <2>1. CASE effect' = effect
    BY <1>1, <2>1 DEF RequestsInv, EffectsAreEarned
  <2>2. CASE /\ AtCall("serve") /\ sent.op = "createUpload"
             /\ sent.body = "sound" /\ outside.target # "conflict"
    <3>1. CallPassed("serve", sent, heldOnce)
      BY <1>0, <2>2 DEF CallPassed, RequestWaits, Seen
    <3>2. \A i \in 1..waiting : CallPassed(Plan[sent.op][i], sent, heldOnce)
      <4> TAKE i \in 1..waiting
      <4>1. CASE i = waiting BY <2>2, <3>1, <4>1 DEF AtCall
      <4>2. CASE i # waiting BY <1>0, <4>2 DEF RequestWaits, PlanIsSound
      <4> QED BY <4>1, <4>2
    <3>3. Needs(sent.op) \subseteq heldOnce /\ sent.body = "sound" /\ sent.key
          /\ (sent.op \in {"login", "callback"} \/ sent.cookie = "good")
          /\ (sent.op \in Mutations => sent.browser = "trusted")
      BY <1>0, <2>2, <3>2, NeedsAreMet DEF RequestWaits, AtCall
    <3> QED BY <1>1, <3>3 DEF EffectsAreEarned
  <2> QED BY <2>1, <2>2 DEF Fail
<1> QED BY <1>2, <1>3, <1>4, <1>5 DEF RequestsInv

\* A failure that is taken for a refusal is answered so, and changes nothing that is watched
\* but the session or the login it ends.
LEMMA MisjudgeKeeps ==
  ASSUME RequestsInv, Misjudge, misjudged' = TRUE, sent' = sent, Watch PROVE RequestsInv'
<1>0. RequestWaits /\ OutsideTyped /\ effect \in BOOLEAN /\ sent.op \in Operations
      /\ PlanIsSound(sent.op, Plan[sent.op])
  BY RequestIs DEF RequestsInv, Misjudge, AtCall, RequestWaits
<1>1. heldOnce \subseteq heldOnce' /\ effect' = effect /\ waiting' = 0
  BY DEF Watch, Misjudge, Reject
<1>2. OutsideTyped'
  <2>1. outside' \in {outside, [outside EXCEPT !.session = "ended"], [outside EXCEPT !.target = "missing"]}
    BY DEF Misjudge
  <2> QED BY <1>0, <2>1 DEF OutsideTyped
<1>3. ~effect
  BY <1>0 DEF Misjudge, AtCall, RequestWaits
<1>4. \/ response' = "unauthorized"
      \/ response' = "invalid" /\ sent.op = "callback"
  <2>1. StatusOf(sent.op, "session_invalid") = "unauthorized"
    BY <1>0, StatusIs
  <2>2. CASE AtCall("complete") /\ (Reject("callback_invalid") \/ Reject("session_invalid"))
    <3>1. sent.op = "callback" BY <1>0, <2>2 DEF AtCall, PlanIsSound, RequestWaits
    <3>2. StatusOf(sent.op, "callback_invalid") = "invalid"
      BY <1>0, <3>1, StatusIs DEF AuthOperations
    <3> QED BY <2>1, <2>2, <3>1, <3>2 DEF Reject
  <2>3. CASE AtCall("rotate") /\ (Reject("refresh_rejected") \/ Reject("session_invalid"))
    <3>1. sent.op = "refresh" BY <1>0, <2>3 DEF AtCall, PlanIsSound, RequestWaits
    <3>2. StatusOf(sent.op, "refresh_rejected") = "unauthorized"
      BY <1>0, <3>1, StatusIs DEF AuthOperations
    <3> QED BY <2>1, <2>3, <3>2 DEF Reject
  <2>4. CASE Reject("session_invalid") BY <2>1, <2>4 DEF Reject
  <2> QED BY <2>2, <2>3, <2>4 DEF Misjudge
<1>5. EffectsAreEarned' /\ RefusalsAreTrue'
  BY <1>1, <1>3, <1>4 DEF EffectsAreEarned, RefusalsAreTrue
<1> QED BY <1>0, <1>1, <1>2, <1>5 DEF RequestsInv

LEMMA RefusalsAre ==
  ASSUME NEW r \in HttpRequests
  PROVE  /\ \A e \in Refusals(r) :
              \/ StatusOf(r.op, e) = "invalid" /\ (r.body # "sound" \/ ~r.key)
              \/ StatusOf(r.op, e) = "unauthorized" /\ r.cookie # "good" /\ r.op # "callback"
              \/ StatusOf(r.op, e) = "forbidden" /\ r.browser # "trusted"
         /\ Refusals(r) = {} /\ ~AnonymousLogout(r) => Admitted(r)
<1>0. /\ r.op \in Operations /\ r.body \in Bodies(r.op) /\ (r.op \notin FileOps => r.key)
      /\ r.body \in {"sound", "unsound", "excessive"}
      /\ r.cookie \in {"good", "none", "malformed"}
      /\ r.browser \in {"trusted", "untrusted", "garbled", "foreign"}
      /\ r.op \in {"login", "callback"} => r.cookie = "none"
  BY RequestIs DEF HttpRequests
<1>1. CASE r.op \in AuthOperations
  <2>0. DOMAIN AuthStatus = {"callback_invalid", "csrf_rejected", "dependency", "refresh_in_progress",
                             "refresh_rejected", "session_invalid"}
    BY DEF AuthStatus
  <2>1. Refusals(r) = AuthRefusals(r) BY <1>1 DEF Refusals
  <2>2. /\ StatusOf(r.op, "session_invalid") = "unauthorized"
        /\ StatusOf(r.op, "callback_invalid") = "invalid"
        /\ StatusOf(r.op, "csrf_rejected") = "forbidden"
    BY <1>0, <1>1, StatusIs
  <2>3. \A e \in Refusals(r) :
          \/ e = "callback_invalid" /\ r.body = "unsound"
          \/ e = "csrf_rejected" /\ r.browser \in {"garbled", "foreign"}
          \/ e = "session_invalid" /\ (r.cookie = "malformed" \/ (r.op \in {"session", "refresh"} /\ r.cookie = "none"))
    BY <2>1 DEF AuthRefusals
  <2>4. ASSUME Refusals(r) = {}, ~AnonymousLogout(r) PROVE Admitted(r)
    <3>1. r.body # "unsound" /\ r.cookie # "malformed"
          /\ ~(r.op \in {"session", "refresh"} /\ r.cookie = "none")
      BY <2>0, <2>1, <2>4 DEF AuthRefusals
    <3>2. r.body = "sound" BY <1>0, <1>1, <3>1 DEF Bodies, AuthOperations
    <3>3. r.op \in {"login", "callback"} \/ r.cookie = "good"
      BY <1>0, <1>1, <2>4, <3>1 DEF AuthOperations, AnonymousLogout
    <3> QED BY <1>0, <1>1, <3>2, <3>3 DEF Admitted, AuthOperations, FileOps
  <2> QED BY <1>0, <2>2, <2>3, <2>4
<1>2. CASE r.op \notin AuthOperations
  <2>1. /\ StatusOf(r.op, "session_invalid") = "unauthorized"
        /\ StatusOf(r.op, "invalid_input") = "invalid"
    BY <1>0, <1>2, StatusIs
  <2>2. Refusals(r) = IF r.op \notin RegistryOps /\ (r.body = "unsound" \/ ~r.key) THEN {"invalid_input"}
                      ELSE IF r.cookie # "good" THEN {"session_invalid"} ELSE {}
    BY <1>2 DEF Refusals
  <2>3. r.op # "callback" BY <1>2 DEF AuthOperations
  <2>4. ASSUME Refusals(r) = {} PROVE Admitted(r)
    <3>1. r.cookie = "good" /\ (r.op \in RegistryOps \/ (r.body # "unsound" /\ r.key))
      BY <2>2, <2>4
    <3>2. r.key BY <1>0, <3>1 DEF RegistryOps, FileOps
    <3>3. r.body = "sound" \/ r.op = "resolveDeepLink" \/ (r.op = "createUpload" /\ r.body = "excessive")
      BY <1>0, <3>1 DEF Bodies, RegistryOps
    <3> QED BY <3>1, <3>2, <3>3 DEF Admitted
  <2> QED BY <2>1, <2>2, <2>3, <2>4
<1> QED BY <1>1, <1>2

LEMMA ArriveKeeps ==
  ASSUME RequestsInv, NEW r \in HttpRequests, Arrive(r) PROVE RequestsInv'
<1>0. /\ sent' = r /\ effect' = FALSE /\ OutsideTyped' /\ asOf' = outside.employed
      /\ outside' = outside
  BY DEF Arrive, RequestsInv, OutsideTyped
<1>1. EffectsAreEarned' /\ effect' \in BOOLEAN BY <1>0 DEF EffectsAreEarned
<1>2. CASE Refusals(r) # {}
  <2>1. PICK e \in Refusals(r) : waiting' = 0 /\ response' = StatusOf(r.op, e) BY <1>2 DEF Arrive
  <2>2. \/ response' = "invalid" /\ (r.body # "sound" \/ ~r.key)
        \/ response' = "unauthorized" /\ r.cookie # "good" /\ r.op # "callback"
        \/ response' = "forbidden" /\ r.browser # "trusted"
    BY <2>1, RefusalsAre
  <2>3. RefusalsAreTrue' BY <1>0, <2>2 DEF RefusalsAreTrue
  <2> QED BY <1>0, <1>1, <2>1, <2>3 DEF RequestsInv
<1>3. CASE Refusals(r) = {} /\ AnonymousLogout(r)
  <2>1. waiting' = 0 /\ response' = "ok" BY <1>3 DEF Arrive
  <2>2. RefusalsAreTrue' BY <1>0, <1>3, <2>1 DEF RefusalsAreTrue, AnonymousLogout
  <2> QED BY <1>0, <1>1, <2>1, <2>2 DEF RequestsInv
<1>4. CASE Refusals(r) = {} /\ ~AnonymousLogout(r)
  <2>1. waiting' = 1 /\ response' = "none" BY <1>4 DEF Arrive
  <2>2. RefusalsAreTrue' BY <1>0, <2>1 DEF RefusalsAreTrue
  <2>3. Seen(outside, heldOnce', lapsedOnce')
    <3>1. FactsOf(outside) \subseteq heldOnce' /\ AllFacts \ FactsOf(outside) \subseteq lapsedOnce'
      BY DEF Arrive
    <3> QED BY <3>1, FactsAreSeen
  <2>4. IF asOf' THEN "employed" \in heldOnce' ELSE "employed" \in lapsedOnce'
    BY <1>0, <2>3 DEF Seen
  <2>5. Admitted(r) /\ 1 \in 1..Len(Plan[r.op])
    BY <1>4, RefusalsAre, RequestIs DEF PlanIsSound
  <2>6. RequestWaits'
    BY <1>0, <2>1, <2>3, <2>4, <2>5 DEF RequestWaits
  <2> QED BY <1>0, <1>1, <2>1, <2>2, <2>6 DEF RequestsInv
<1> QED BY <1>2, <1>3, <1>4

LEMMA ChangeKeeps ==
  ASSUME RequestsInv, Change, waiting > 0 => Watch, waiting = 0 => UNCHANGED <<heldOnce, lapsedOnce>>
  PROVE  RequestsInv'
<1>0. UNCHANGED <<sent, waiting, keyFact, response, effect, failedOnce, clashed, misjudged>> /\ waiting \in Nat
      /\ (asOf' = asOf \/ asOf' = outside'.employed)
  BY DEF Change, RequestsInv
<1>1. OutsideTyped'
  <2>1. OutsideTyped BY DEF RequestsInv
  <2>2. \/ \E x \in {"stale", "ended"} : outside' = [outside EXCEPT !.session = x]
        \/ outside' = [outside EXCEPT !.employed = ~@]
        \/ outside' = [outside EXCEPT !.permitted = ~@]
        \/ \E t \in {"ready", "missing", "conflict", "denied"} : outside' = [outside EXCEPT !.target = t]
    BY DEF Change
  <2>3. CASE outside' = [outside EXCEPT !.employed = ~@] BY <2>1, <2>3 DEF OutsideTyped
  <2>4. CASE outside' = [outside EXCEPT !.permitted = ~@] BY <2>1, <2>4 DEF OutsideTyped
  <2> QED BY <2>1, <2>2, <2>3, <2>4 DEF OutsideTyped
<1>2. heldOnce \subseteq heldOnce' /\ lapsedOnce \subseteq lapsedOnce' BY <1>0 DEF Watch
<1>3. EffectsAreEarned' /\ RefusalsAreTrue'
  BY <1>0, <1>2 DEF RequestsInv, EffectsAreEarned, RefusalsAreTrue
<1>4. CASE waiting > 0
  <2>1. RequestWaits /\ Watch BY <1>4 DEF RequestsInv
  <2>2. \A o : o = outside' => Seen(o, heldOnce', lapsedOnce')
    <3> TAKE o
    <3> HAVE o = outside'
    <3>1. FactsOf(o) \subseteq heldOnce' /\ AllFacts \ FactsOf(o) \subseteq lapsedOnce'
      BY <2>1 DEF Watch
    <3> QED BY <3>1, FactsAreSeen
  <2>3. Seen(outside', heldOnce', lapsedOnce') BY <2>2
  <2>4. \A i \in 1..waiting - 1 : CallPassed(Plan[sent.op][i], sent, heldOnce')
    BY <1>2, <2>1 DEF RequestWaits, CallPassed
  <2>5. IF asOf' THEN "employed" \in heldOnce' ELSE "employed" \in lapsedOnce'
    BY <1>0, <1>2, <2>1, <2>3 DEF RequestWaits, Seen
  <2>6. RequestWaits'
    BY <1>0, <2>1, <2>3, <2>4, <2>5 DEF RequestWaits
  <2> QED BY <1>0, <1>1, <1>3, <2>6 DEF RequestsInv
<1>5. CASE waiting = 0
  BY <1>0, <1>1, <1>3, <1>5 DEF RequestsInv
<1> QED BY <1>0, <1>4, <1>5

LEMMA RequestsStay == HttpSpec => []RequestsAreHonest
<1>1. HttpInit => RequestsInv
  <2> SUFFICES ASSUME HttpInit PROVE RequestsInv
    OBVIOUS
  <2>1. OutsideTyped BY DEF HttpInit, OutsideTyped
  <2>2. waiting = 0 /\ effect = FALSE /\ response = "none" BY DEF HttpInit
  <2>3. EffectsAreEarned /\ RefusalsAreTrue BY <2>2 DEF EffectsAreEarned, RefusalsAreTrue
  <2>4. waiting \in Nat /\ ~(waiting > 0)
    <3>1. waiting = 0 BY <2>2
    <3> QED BY <3>1
  <2>5. effect \in BOOLEAN BY <2>2, Zenon
  <2> QED BY <2>1, <2>3, <2>4, <2>5 DEF RequestsInv
<1>2. RequestsInv /\ [HttpNext]_httpVars => RequestsInv'
  <2> SUFFICES ASSUME RequestsInv, [HttpNext]_httpVars PROVE RequestsInv'
    OBVIOUS
  <2>1. CASE Call /\ Watch
    <3>1. UNCHANGED <<sent, failedOnce, misjudged>> BY <2>1 DEF Call
    <3> QED
      BY <2>1, <3>1, MutationKeeps, PrincipalKeeps, WorkforceKeeps, PermissionKeeps, DecisionKeeps,
         FindKeeps, ServeKeeps, SucceedKeeps, SessionCallsKeep DEF Call
  <2>2. CASE UNCHANGED httpVars
    <3>1. RequestWaits => RequestWaits'
      BY <2>2 DEF httpVars, RequestWaits
    <3> QED
      BY <2>2, <3>1 DEF httpVars, RequestsInv, OutsideTyped, EffectsAreEarned, RefusalsAreTrue
  <2>3. CASE \E r \in HttpRequests : Arrive(r) BY <2>3, ArriveKeeps
  <2>4. CASE Fail /\ failedOnce' = TRUE /\ UNCHANGED <<sent, misjudged, httpChanges, sends>> /\ Watch
    BY <2>4, FailKeeps
  <2>7. CASE Misjudge /\ misjudged' = TRUE /\ UNCHANGED <<sent, failedOnce, httpChanges, sends>> /\ Watch
    BY <2>7, MisjudgeKeeps
  <2>5. CASE waiting > 0 /\ Change /\ Watch
    <3>1. waiting # 0 BY <2>5 DEF RequestsInv
    <3> QED BY <2>5, <3>1, ChangeKeeps
  <2>6. CASE waiting = 0 /\ Change /\ UNCHANGED <<heldOnce, lapsedOnce>>
    <3>1. ~(waiting > 0) BY <2>6
    <3> QED BY <2>6, <3>1, ChangeKeeps
  <2> QED
    BY <2>1, <2>2, <2>3, <2>4, <2>5, <2>6, <2>7 DEF HttpNext
<1>3. RequestsInv => RequestsAreHonest
  BY DEF RequestsInv, RequestsAreHonest
<1> QED BY <1>1, <1>2, <1>3, PTL DEF HttpSpec

\* What makes the API ready was asked for after the last outage and never comes back after
\* a stop; it says it is ready only while it listens on open resources, and exits with
\* success only for a signal that found, or left, everything closed; and a request does
\* nothing it has not earned and is told what is true: for any probes, failures and changes.
THEOREM ApiStaysSound == ProbeSpec /\ ApiSpec /\ HttpSpec => []ApiIsSound
BY ProbesStay, LifeStays, RequestsStay, PTL DEF ApiIsSound
=============================================================================
