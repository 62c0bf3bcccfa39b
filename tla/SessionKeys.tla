---------------------------- MODULE SessionKeys ----------------------------
(***************************************************************************)
(* The rotation of the key that encrypts the tokens of browser sessions    *)
(* (apps/api/src/auth), on several API processes at one Redis.  A process  *)
(* takes its keys when it starts, so the processes change one at a time:   *)
(* first each gets the next key, with the old one still readable, and      *)
(* once no session of the old one can be left, each loses the old one.     *)
(* A key's number is its place in this order.                              *)
(*                                                                         *)
(* Sessions models the credentials, the lease and the audit of the same    *)
(* calls; here a session is its key and its times.                         *)
(***************************************************************************)
EXTENDS Integers

CONSTANTS
  KeyProcesses,  \* the API processes
  Browsers,      \* each with one session at a time
  IdleTtl, AbsoluteTtl,
  LastKey,       \* bound: the last key introduced
  MaxRevision,   \* bound: records a browser's sessions go through
  MaxKeyTime     \* bound: the clock

ASSUME TtlsAreOrdered ==
  /\ IdleTtl \in Nat \ {0} /\ AbsoluteTtl \in Nat /\ AbsoluteTtl >= IdleTtl
  /\ LastKey \in Nat \ {0} /\ MaxRevision \in Nat /\ MaxKeyTime \in Nat

VARIABLES
  keyring,     \* each process: the key it encrypts with, and the one it can also read
  browserSession,  \* the record in Redis of each browser's session
  keyCall,     \* the request each process is working on
  keyTime,
  switchedAt,  \* when the last process took the key in use
  keyLosses    \* sessions ended because their key was not there

keyVars == <<keyring, browserSession, keyCall, keyTime, switchedAt, keyLosses>>

SessionKeysUsed == 1 .. LastKey
NoKey == 0
ProcessDown == [encrypts |-> NoKey, reads |-> NoKey]
FreeProcess == [doing |-> "nothing"]

SessionKeysInit ==
  /\ keyring = [p \in KeyProcesses |-> [encrypts |-> 1, reads |-> NoKey]]
  /\ browserSession =
       [b \in Browsers |-> [on |-> FALSE, key |-> NoKey, until |-> 0, expires |-> 0, revision |-> 0]]
  /\ keyCall = [p \in KeyProcesses |-> FreeProcess]
  /\ keyTime = 0 /\ switchedAt = 0
  /\ keyLosses = {}

LesserOf(x, y) == IF x < y THEN x ELSE y

\* What is left of a session, and no more than the idle time.
RemainingTtl(b, since) == LesserOf(browserSession[b].until - since, IdleTtl)

-----------------------------------------------------------------------------
(* Keyrings.                                                               *)

Up(p) == keyring[p] # ProcessDown

\* A previous key is another key than the current one.
PairIsValid(ring) == ring.reads # ring.encrypts

\* One of the keys to read with is the key to write with, and no key is there twice.
KeyringAccepted(ring) == ring.encrypts # NoKey /\ PairIsValid(ring)

\* The tokens are encrypted with the current key, whose name is in the envelope.
KeyOf(p) == keyring[p].encrypts

\* A process that reads with the current key alone: a mutant.
ReadableNow(ring, key) == key = ring.encrypts

\* The envelope names its key.
Readable(ring, key) == key \in {ring.encrypts, ring.reads}

\* The process is replaced by one with the keyring, which loses its request; or by one
\* that refuses the keyring and does not start.
Starts(p, ring) ==
  /\ keyring' = [keyring EXCEPT ![p] = IF KeyringAccepted(ring) THEN ring ELSE ProcessDown]
  /\ keyCall' = [keyCall EXCEPT ![p] = FreeProcess]

NewestKey == CHOOSE k \in SessionKeysUsed \cup {NoKey} :
               /\ \A p \in KeyProcesses : keyring[p].encrypts <= k
               /\ k = NoKey \/ \E p \in KeyProcesses : keyring[p].encrypts = k

\* Of the processes that are up.
AllSwitched(k) == \A p \in KeyProcesses : Up(p) => keyring[p].encrypts = k
Alone(k) == AllSwitched(k) /\ \A p \in KeyProcesses : keyring[p].reads = NoKey

\* The operator brings a key to the next process; a mistaken overlay names it twice, and
\* is mended before the last process that is up has its turn.
Introduce(p, k) ==
  /\ k > 1 /\ keyring[p].encrypts # k
  /\ NewestKey = k \/ Alone(k - 1)
  /\ \E previous \in {k - 1, k} :
       /\ previous = k => \E q \in KeyProcesses \ {p} : Up(q)
       /\ Starts(p, [encrypts |-> k, reads |-> previous])
  /\ switchedAt' = keyTime
  /\ UNCHANGED <<browserSession, keyTime, keyLosses>>

\* Every process has the key for as long as a session may last: the old one goes.
Retire(p, k) ==
  /\ AllSwitched(k) /\ keyring[p].reads # NoKey
  /\ keyTime >= switchedAt + AbsoluteTtl
  /\ Starts(p, [encrypts |-> k, reads |-> NoKey])
  /\ UNCHANGED <<browserSession, keyTime, switchedAt, keyLosses>>

-----------------------------------------------------------------------------
(* Requests.  Redis forgets a record at its time to live.                  *)

RecordThere(b) == browserSession[b].on /\ keyTime < browserSession[b].expires
SessionLasts(b) == RecordThere(b) /\ keyTime < browserSession[b].until

SignIn(p, b) ==
  /\ Up(p) /\ keyCall[p] = FreeProcess /\ ~SessionLasts(b)
  /\ browserSession[b].revision < MaxRevision
  /\ browserSession' = [browserSession EXCEPT ![b] =
       [on |-> TRUE, key |-> KeyOf(p), until |-> keyTime + AbsoluteTtl,
        expires |-> keyTime + IdleTtl, revision |-> @.revision + 1]]
  /\ UNCHANGED <<keyring, keyCall, keyTime, switchedAt, keyLosses>>

\* touchScript prolongs the record, never past the session's end.
Touch(p, b, doing) ==
  /\ Up(p) /\ keyCall[p] = FreeProcess /\ SessionLasts(b)
  /\ browserSession' = [browserSession EXCEPT
       ![b].expires = keyTime + RemainingTtl(b, keyTime)]
  /\ keyCall' = [keyCall EXCEPT ![p] =
       [doing |-> doing, browser |-> b, key |-> browserSession[b].key,
        revision |-> browserSession[b].revision, since |-> keyTime]]
  /\ UNCHANGED <<keyring, keyTime, switchedAt, keyLosses>>

\* A record past the session's end is deleted by the script that finds it.
TouchLate(p, b) ==
  /\ Up(p) /\ keyCall[p] = FreeProcess /\ RecordThere(b) /\ ~SessionLasts(b)
  /\ browserSession' = [browserSession EXCEPT ![b].on = FALSE]
  /\ UNCHANGED <<keyring, keyCall, keyTime, switchedAt, keyLosses>>

\* The record the request looked up is the one still there.
SameRecord(p) ==
  LET b == keyCall[p].browser
  IN RecordThere(b) /\ browserSession[b].revision = keyCall[p].revision

Working(p, doing) == keyCall[p].doing = doing
Frees(p) == keyCall' = [keyCall EXCEPT ![p] = FreeProcess]

Load(p) ==
  /\ Working(p, "loading") /\ Readable(keyring[p], keyCall[p].key)
  /\ Frees(p)
  /\ UNCHANGED <<keyring, browserSession, keyTime, switchedAt, keyLosses>>

\* Tokens that cannot be read end the session under the credential that was looked up.
LoadUnreadable(p) ==
  /\ Working(p, "loading") /\ ~Readable(keyring[p], keyCall[p].key)
  /\ Frees(p)
  /\ IF SameRecord(p)
     THEN /\ browserSession' = [browserSession EXCEPT ![keyCall[p].browser].on = FALSE]
          /\ keyLosses' = keyLosses \cup {[key |-> keyCall[p].key, at |-> KeyOf(p)]}
     ELSE UNCHANGED <<browserSession, keyLosses>>
  /\ UNCHANGED <<keyring, keyTime, switchedAt>>

\* The refreshed tokens are encrypted with the process's own key under a new credential;
\* the session ends when it would have, and the record's time to live is what was left
\* when the refresh began.
RefreshTokens(p) ==
  LET b == keyCall[p].browser
  IN /\ Working(p, "refreshing") /\ Readable(keyring[p], keyCall[p].key)
     /\ SameRecord(p) /\ browserSession[b].revision < MaxRevision
     /\ browserSession' = [browserSession EXCEPT
          ![b].key = KeyOf(p), ![b].revision = @ + 1,
          ![b].expires = keyTime + RemainingTtl(b, keyCall[p].since)]
     /\ Frees(p)
     /\ UNCHANGED <<keyring, keyTime, switchedAt, keyLosses>>

\* Tokens that cannot be read, a provider that refuses, a credential already replaced:
\* a refresh that fails leaves the session.
RefreshRefused(p) ==
  /\ Working(p, "refreshing")
  /\ Frees(p)
  /\ UNCHANGED <<keyring, browserSession, keyTime, switchedAt, keyLosses>>

KeyTick ==
  /\ keyTime < MaxKeyTime /\ keyTime' = keyTime + 1
  /\ UNCHANGED <<keyring, browserSession, keyCall, switchedAt, keyLosses>>

SessionKeysNext ==
  \/ \E p \in KeyProcesses :
       \/ \E k \in SessionKeysUsed : Introduce(p, k) \/ Retire(p, k)
       \/ \E b \in Browsers :
            \/ SignIn(p, b) \/ TouchLate(p, b)
            \/ \E doing \in {"loading", "refreshing"} : Touch(p, b, doing)
       \/ Load(p) \/ LoadUnreadable(p) \/ RefreshTokens(p) \/ RefreshRefused(p)
  \/ KeyTick

SessionKeysSpec == SessionKeysInit /\ [][SessionKeysNext]_keyVars

-----------------------------------------------------------------------------
(* Properties.                                                             *)

\* A rotation ends a session only at a process that has not got the session's key yet:
\* every process with the newest key can read every session that lasts, through both
\* halves of the rotation (.handoffs/INF-01.md, the previous key is kept for the absolute
\* time to live once every consumer has switched; session-service.ts:227-247).
NewestKeyReadsAll ==
  \A p \in KeyProcesses, b \in Browsers :
    (Up(p) /\ keyring[p].encrypts = NewestKey /\ SessionLasts(b)) =>
      Readable(keyring[p], browserSession[b].key)

LossesAreEarly == \A l \in keyLosses : l.at < l.key

\* Records and requests keep their shape, and a refresh does not put off a session's end.
SessionKeysTyped ==
  /\ \A p \in KeyProcesses : keyring[p] = ProcessDown \/ KeyringAccepted(keyring[p])
  /\ \A b \in Browsers : browserSession[b].until <= keyTime + AbsoluteTtl

\* Sessions through the rotation of their key, as a whole.
KeysAreKept == SessionKeysTyped /\ NewestKeyReadsAll /\ LossesAreEarly

=============================================================================
