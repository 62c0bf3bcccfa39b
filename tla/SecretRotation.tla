--------------------------- MODULE SecretRotation ---------------------------
(***************************************************************************)
(* The rotation of the client secret the API shares with Keycloak          *)
(* (scripts/bootstrap/rotate-keycloak-client-secret.mjs), and the reading  *)
(* of the secret's file by an API that starts (packages/config/src).       *)
(*                                                                         *)
(* The file and Keycloak change in two steps, and Keycloak's may time out: *)
(* an update nobody waits for any more may still be carried out.  The      *)
(* operator makes one rotation after another, never two at once.           *)
(***************************************************************************)
CONSTANTS
  Rotations,    \* runs of the script; the secret a run makes bears its name
  FirstSecret,  \* the secret before them
  SecretReaders \* APIs that start

ASSUME FirstIsOld == FirstSecret \notin Rotations

VARIABLES
  secretFile,      \* what is at the file's path: its secret, and its mode
  keycloakSecret,  \* the secret Keycloak asks of the client
  updates,         \* the updates sent to Keycloak it has not carried out
  rotation,        \* each run: where it is, the secret it found, what failed
  lastUpdater,     \* the run that last asked Keycloak for an update
  lateUpdate,      \* Keycloak's last update was one its run had given up
  confirmedSecrets,\* the secrets Keycloak has confirmed
  reader           \* each API: where it is, what it has open, the secret it holds

keycloakVars == <<keycloakSecret, updates, lastUpdater, lateUpdate>>
fileVars == <<secretFile, confirmedSecrets, reader>>
rotationVars == <<keycloakVars, fileVars, rotation>>

Secrets == Rotations \cup {FirstSecret}
NoRun == "none"
NoSecret == "no secret"

RotationOver == {"waiting", "rotated", "failed", "died"}
RotationStages ==
  RotationOver \cup {"asking", "writing", "updating", "verifying", "committing", "undoing",
                     "cleaning"}
FileModes == {"restricted", "owned"}  \* 0400 or 0440, and 0600

RotationInit ==
  /\ secretFile = [secret |-> FirstSecret, mode |-> "restricted"]
  /\ keycloakSecret = FirstSecret
  /\ updates = {}
  /\ rotation = [r \in Rotations |-> [at |-> "waiting", old |-> NoSecret, failures |-> {}]]
  /\ lastUpdater = NoRun
  /\ lateUpdate = FALSE
  /\ confirmedSecrets = {FirstSecret}
  /\ reader = [a \in SecretReaders |-> [at |-> "down", open |-> NoSecret, secret |-> NoSecret]]

-----------------------------------------------------------------------------
(* A run of the script, up to its commit.                                  *)

UnderWay(r) == rotation[r].at \notin RotationOver
RotationIdle == \A r \in Rotations : ~UnderWay(r)

GoesTo(r, stage) == rotation' = [rotation EXCEPT ![r].at = stage]
FailsAt(r, what, stage) ==
  rotation' = [rotation EXCEPT ![r].at = stage, ![r].failures = @ \cup {what}]

UpdateOf(r, secret) == [by |-> r, secret |-> secret]

RefusedAtStart(r) ==
  /\ rotation[r].at = "waiting" /\ RotationIdle
  /\ FailsAt(r, "run", "failed")
  /\ UNCHANGED <<keycloakVars, fileVars>>

ReadCurrentSecret(r) ==
  /\ rotation[r].at = "waiting" /\ RotationIdle
  /\ rotation' = [rotation EXCEPT ![r].at = "asking", ![r].old = secretFile.secret]
  /\ UNCHANGED <<keycloakVars, fileVars>>

\* Keycloak gives no token, or not the client, whole and alone.
LookUpFails(r) ==
  /\ rotation[r].at = "asking"
  /\ FailsAt(r, "run", "failed")
  /\ UNCHANGED <<keycloakVars, fileVars>>

OpenTemporary(r) ==
  /\ rotation[r].at = "asking"
  /\ GoesTo(r, "writing")
  /\ UNCHANGED <<keycloakVars, fileVars>>

WriteFails(r) ==
  /\ rotation[r].at = "writing"
  /\ FailsAt(r, "run", "cleaning")
  /\ UNCHANGED <<keycloakVars, fileVars>>

\* The new secret is in the temporary file, whole, before Keycloak is asked to take it.
AskUpdate(r) ==
  /\ rotation[r].at = "writing"
  /\ GoesTo(r, "updating")
  /\ updates' = updates \cup {UpdateOf(r, r)}
  /\ lastUpdater' = r
  /\ UNCHANGED <<fileVars, keycloakSecret, lateUpdate>>

UpdateAnswered(r) ==
  /\ rotation[r].at = "updating" /\ UpdateOf(r, r) \notin updates
  /\ GoesTo(r, "verifying")
  /\ UNCHANGED <<keycloakVars, fileVars>>

-----------------------------------------------------------------------------
(* Failures once Keycloak has been asked: the old secret is put back.      *)

Undo(r, still) ==
  /\ FailsAt(r, "run", "undoing")
  /\ updates' = still \cup {UpdateOf(r, rotation[r].old)}
  /\ UNCHANGED <<fileVars, keycloakSecret, lastUpdater, lateUpdate>>

UpdateRejected(r) ==
  /\ rotation[r].at = "updating" /\ UpdateOf(r, r) \in updates
  /\ Undo(r, updates \ {UpdateOf(r, r)})

\* No answer in time: the update has been carried out, or may yet be.
UpdateUnansweredForgets(r) ==
  /\ rotation[r].at = "updating"
  /\ FailsAt(r, "run", "cleaning")
  /\ UNCHANGED <<keycloakVars, fileVars>>

UpdateUnanswered(r) == rotation[r].at = "updating" /\ Undo(r, updates)

VerifySecret(r) ==
  /\ rotation[r].at = "verifying" /\ keycloakSecret = r
  /\ GoesTo(r, "committing")
  /\ confirmedSecrets' = confirmedSecrets \cup {r}
  /\ UNCHANGED <<keycloakVars, secretFile, reader>>

VerifyFails(r) == rotation[r].at = "verifying" /\ Undo(r, updates)

\* The rename: whoever has the file open keeps what it had.
CommitRotation(r) ==
  /\ rotation[r].at = "committing"
  /\ GoesTo(r, "rotated")
  /\ secretFile' = [secret |-> r, mode |-> "owned"]
  /\ UNCHANGED <<keycloakVars, confirmedSecrets, reader>>

RenameFails(r) == rotation[r].at = "committing" /\ Undo(r, updates)

UndoAnswered(r) ==
  /\ rotation[r].at = "undoing" /\ UpdateOf(r, rotation[r].old) \notin updates
  /\ GoesTo(r, "cleaning")
  /\ UNCHANGED <<keycloakVars, fileVars>>

UndoFails(r) ==
  /\ rotation[r].at = "undoing"
  /\ FailsAt(r, "rollback", "cleaning")
  /\ \/ updates' = updates
     \/ updates' = updates \ {UpdateOf(r, rotation[r].old)}
  /\ UNCHANGED <<fileVars, keycloakSecret, lastUpdater, lateUpdate>>

\* The handle is closed and the temporary file removed, or that fails too.
CleanUp(r) ==
  /\ rotation[r].at = "cleaning"
  /\ \/ GoesTo(r, "failed")
     \/ FailsAt(r, "cleanup", "failed")
  /\ UNCHANGED <<keycloakVars, fileVars>>

ScriptDies(r) ==
  /\ UnderWay(r)
  /\ GoesTo(r, "died")
  /\ UNCHANGED <<keycloakVars, fileVars>>

-----------------------------------------------------------------------------
(* Keycloak, and the readers of the file.                                  *)

UpdateAwaited(u) ==
  \/ rotation[u.by].at = "updating" /\ u.secret = u.by
  \/ rotation[u.by].at = "undoing" /\ u.secret = rotation[u.by].old

CarryOut(u) ==
  /\ u \in updates
  /\ keycloakSecret' = u.secret
  /\ updates' = updates \ {u}
  /\ lateUpdate' = ~UpdateAwaited(u)
  /\ UNCHANGED <<fileVars, rotation, lastUpdater>>

LoseUpdate(u) ==
  /\ u \in updates /\ ~UpdateAwaited(u)
  /\ updates' = updates \ {u}
  /\ UNCHANGED <<fileVars, keycloakSecret, rotation, lastUpdater, lateUpdate>>

OpenSecret(a) ==
  /\ reader[a].at = "down"
  /\ reader' = [reader EXCEPT ![a].at = "opened", ![a].open = secretFile]
  /\ UNCHANGED <<keycloakVars, secretFile, rotation, confirmedSecrets>>

Restricted(file, enforced) == enforced => file.mode = "restricted"

Reads(a, stage, secret) ==
  /\ reader' = [reader EXCEPT ![a] = [at |-> stage, open |-> NoSecret, secret |-> secret]]
  /\ UNCHANGED <<keycloakVars, secretFile, rotation, confirmedSecrets>>

\* In production a file its owner may write is refused.
ReadSecret(a, enforced) ==
  /\ reader[a].at = "opened"
  /\ IF Restricted(reader[a].open, enforced)
     THEN Reads(a, "configuring", reader[a].open.secret)
     ELSE Reads(a, "refused", NoSecret)

\* Any field that cannot be read or is not valid ends the start.
ConfigurationFails(a) ==
  /\ reader[a].at \in {"opened", "configuring"}
  /\ Reads(a, "refused", NoSecret)

\* The client of Keycloak is made, once, with the secret; discovery does not send it.
CreateClient(a) ==
  /\ reader[a].at = "configuring"
  /\ \/ Reads(a, "up", reader[a].secret)
     \/ Reads(a, "refused", NoSecret)

\* A process goes, and its successor reads the file anew.
StopReader(a) ==
  /\ reader[a].at \in {"up", "refused"}
  /\ Reads(a, "down", NoSecret)

RotationNext ==
  \/ \E r \in Rotations :
       \/ RefusedAtStart(r) \/ ReadCurrentSecret(r) \/ LookUpFails(r) \/ OpenTemporary(r)
       \/ WriteFails(r) \/ AskUpdate(r) \/ UpdateAnswered(r) \/ UpdateRejected(r)
       \/ UpdateUnanswered(r) \/ VerifySecret(r) \/ VerifyFails(r) \/ CommitRotation(r)
       \/ RenameFails(r) \/ UndoAnswered(r) \/ UndoFails(r) \/ CleanUp(r) \/ ScriptDies(r)
  \/ \E u \in updates : CarryOut(u) \/ LoseUpdate(u)
  \/ \E a \in SecretReaders :
       \/ OpenSecret(a) \/ ConfigurationFails(a) \/ CreateClient(a) \/ StopReader(a)
       \/ \E enforced \in BOOLEAN : ReadSecret(a, enforced)

RotationSpec == RotationInit /\ [][RotationNext]_rotationVars

-----------------------------------------------------------------------------
(* Properties.                                                             *)

\* Once no run is under way, the file and Keycloak have one secret; unless the run that
\* last touched Keycloak died or said that it could not put the old secret back, or what
\* Keycloak did last is an update its run had given up: an update whose answer is lost is
\* undone all the same (rotate-keycloak-client-secret.mjs:120-140; the rotation's failure
\* boundaries, .handoffs/INF-01.md).
SecretsAgree ==
  RotationIdle =>
    \/ secretFile.secret = keycloakSecret
    \/ lateUpdate
    \/ /\ lastUpdater \in Rotations
       /\ \/ rotation[lastUpdater].at = "died"
          \/ "rollback" \in rotation[lastUpdater].failures

\* A secret an API holds is one that Keycloak confirmed before the API could read it,
\* whichever step of a rotation the API started beside (rename last,
\* rotate-keycloak-client-secret.mjs:122-131; packages/config/src/secret.ts:83-94).
ReadersHoldConfirmed ==
  \A a \in SecretReaders : reader[a].secret \in confirmedSecrets \cup {NoSecret}

SecretsTyped ==
  /\ secretFile \in [secret : Secrets, mode : FileModes]
  /\ keycloakSecret \in Secrets
  /\ updates \subseteq [by : Rotations, secret : Secrets]
  /\ \A r \in Rotations : rotation[r].at \in RotationStages

\* The secret of the API's client, as a whole.
SecretsAreKept == SecretsTyped /\ SecretsAgree /\ ReadersHoldConfirmed

=============================================================================
