-------------------------------- MODULE Logins --------------------------------
(***************************************************************************)
(* The API between a browser and the identity provider: one login, from    *)
(* its redirect to its session, and the refreshes and checks of that       *)
(* session's tokens (apps/api/src/auth/oidc.ts, session-service.ts and     *)
(* session-store.ts, packages/platform-modules/auth-context/src).          *)
(*                                                                         *)
(* The provider numbers the refresh tokens it issues, of which the newest  *)
(* works; an access token has the key that signed it.                      *)
(* Here is what each party knows of them, and how a failure is told from a *)
(* refusal.  Sessions has the credentials, the scripts and the audit of    *)
(* the same calls, for any number of requests; SessionKeys the keys that   *)
(* encrypt the tokens in Redis, and SecretRotation the client's secret at  *)
(* the provider.                                                           *)
(***************************************************************************)
EXTENDS Naturals, SecretRotation, SessionKeys

CONSTANTS
  LoginRequests,
  MaxGrants,       \* bound: times the provider issues tokens
  MaxSigningKeys   \* bound: signing keys the provider has had

ASSUME LoginsAssumption == MaxGrants \in Nat \ {0} /\ MaxSigningKeys \in Nat \ {0}

VARIABLES
  link,         \* the process's connection to Redis
  loginStored,  \* the login transaction is in Redis
  loginCode,    \* the provider's authorization code
  signIn,       \* the session in Redis: there or not, its revision and its tokens
  idp,          \* the provider: grants given, refresh tokens issued, signing key, the grant is over
  keySet,       \* the provider's keys, as the process has them
  leaseTaken,   \* a request has the refresh lease
  job,          \* each request: where it is, the session it found, the tokens it carries
  unreasoned,   \* observation: what the last step refused without a reason for it, if it did
  neverStored   \* observation: refresh tokens issued that no session ever got

loginVars == <<link, loginStored, loginCode, signIn, idp, keySet, leaseTaken, job, unreasoned,
               neverStored>>

NoTokens == [refresh |-> 0, key |-> 0]
NoJob == [at |-> "free", revision |-> 0, tokens |-> NoTokens]
NoKeys == [newest |-> 0, cooling |-> FALSE]

LoginsInit ==
  /\ link = "closed" /\ loginStored = FALSE /\ loginCode = "none"
  /\ signIn = [there |-> FALSE, revision |-> 0, tokens |-> NoTokens]
  /\ idp = [grants |-> 0, refresh |-> 0, key |-> 1, over |-> FALSE]
  /\ keySet = NoKeys /\ leaseTaken = FALSE
  /\ job = [r \in LoginRequests |-> NoJob]
  /\ unreasoned = {}
  /\ neverStored = {}

JobAt(r, place) == job[r].at = place

\* The session the request looked up is still the one stored.
Same(r) == signIn.there /\ signIn.revision = job[r].revision

\* What is so when a request is answered, and it may be refused for.
FactsFor(r) ==
  {f \in {"noLogin", "noCode", "noSession", "over", "behind"} :
     \/ f = "noLogin" /\ JobAt(r, "free") /\ ~loginStored
     \/ f = "noCode" /\ JobAt(r, "exchanging") /\ loginCode # "issued"
     \/ f = "noSession" /\ job[r].revision # 0 /\ ~Same(r)
     \/ f = "over" /\ idp.over
     \/ f = "behind" /\ signIn.there /\ signIn.tokens.refresh # idp.refresh}

Proceeds(r, place, tokens) ==
  job' = [job EXCEPT ![r] = [at |-> place, revision |-> @.revision, tokens |-> tokens]]
GoesOn(r, place) == Proceeds(r, place, job[r].tokens)

\* What a refusal may be for.
ReasonsFor ==
  [callback_invalid |-> {"noLogin", "noCode", "unsound"},
   unauthorized |-> {"noSession", "expired", "over", "behind"}]

\* A refusal without a reason is noted by what it was given for.
Judged(r, kind, fact) ==
  unreasoned' =
    IF kind \in DOMAIN ReasonsFor /\ (FactsFor(r) \cup fact) \cap ReasonsFor[kind] = {}
    THEN IF fact = {} THEN {kind} ELSE fact
    ELSE {}

\* The request is answered.
RepliesWith(r, kind, fact) ==
  /\ job' = [job EXCEPT ![r] = NoJob]
  /\ Judged(r, kind, fact)
  /\ UNCHANGED leaseTaken
Replies(r, kind) == RepliesWith(r, kind, {})

CarriesNewer(r) ==
  job[r].at \in {"renewed", "rotating"} /\ job[r].tokens.refresh # signIn.tokens.refresh
Forgets(r) ==
  neverStored' = neverStored \cup (IF CarriesNewer(r) THEN {job[r].tokens.refresh} ELSE {})

Silent == unreasoned' = {} /\ UNCHANGED leaseTaken
provider == <<loginCode, idp>>

-----------------------------------------------------------------------------
(* The connection to Redis: once lost, a process does not make it again.   *)

LinkLost ==
  /\ link = "ready" /\ link' = "closed"
  /\ UNCHANGED <<loginStored, signIn, keySet, job, neverStored, provider>> /\ Silent

\* A process starts with its connection (or fails, or is aborted, and starts again),
\* after the one that was without; what that one was doing is lost.
Connect ==
  /\ link = "closed" /\ link' = "ready"
  /\ job' = [r \in LoginRequests |-> NoJob]
  /\ neverStored' = neverStored \cup {job[r].tokens.refresh : r \in {q \in LoginRequests : CarriesNewer(q)}}
  /\ keySet' = NoKeys
  /\ UNCHANGED <<loginStored, signIn, provider>> /\ Silent

RedisCommands == {"free", "creating", "leasing", "rereading", "rotating", "ending"}
CommandAt(r, place) == JobAt(r, place) /\ link = "ready"

\* The first command a request gives, of the session its cookie names.
Begins(r, revision, place, tokens) ==
  job' = [job EXCEPT ![r] = [at |-> place, revision |-> revision, tokens |-> tokens]]

\* Without an answer from Redis a dependency has failed, whatever the request was about.
CommandFails(r) ==
  /\ job[r].at \in RedisCommands
  /\ Replies(r, "unavailable") /\ Forgets(r)
  /\ UNCHANGED <<link, loginStored, signIn, keySet, provider>>

-----------------------------------------------------------------------------
(* The provider, and what its answers mean.                                *)

\* What a token call that brings no tokens comes to, as openid-client reports it: the
\* provider could not be reached, or broke off (a TypeError of fetch); it answered 429 or
\* 5xx; its tokens are not whole; it did not answer in time, or the call was aborted (a
\* DOMException as the cause); its answer is not one (no JSON, no access token, a bad ID
\* token); it does not know the client by the secret the process started with; it refuses
\* the code or the refresh token.
TokenFailures == {"unreachable", "overload", "incomplete", "timeout", "unreadable", "client", "refused"}

\* A provider that cannot be reached counts as one that refuses: a mutant.
FailureIfAnswered(failure) == failure \in {"overload", "incomplete"}

\* Only a TypeError, a status of 429 or 5xx and the process's own verdict, four causes
\* deep, say that the provider failed; whatever else it is counts as its refusal.
DependencyFailure(failure) == failure \in {"unreachable", "overload", "incomplete"}

CallbackFailure(failure) == IF DependencyFailure(failure) THEN "unavailable" ELSE "callback_invalid"
RefreshFailure(failure) == IF DependencyFailure(failure) THEN "unavailable" ELSE "unauthorized"

\* The refresh token that was used is kept whatever the answer says: a mutant.
KeepsPrevious(answer, previous) == [answer EXCEPT !.refresh = previous.refresh]

\* An answer without a refresh token leaves the one that was used.
NormalizeTokenResult(answer, previous) ==
  IF answer.refresh # 0 THEN answer ELSE [answer EXCEPT !.refresh = previous.refresh]

\* The tokens of a grant; an answer may come without a refresh token if there was one.
Issues(new) ==
  /\ idp.grants < MaxGrants
  /\ idp' = [idp EXCEPT !.grants = @ + 1, !.refresh = IF new THEN @ + 1 ELSE @]
Issued(new) == [refresh |-> IF new THEN idp.refresh + 1 ELSE 0, key |-> idp.key]

CodeLapses == loginCode = "issued" /\ loginCode' = "spent" /\ UNCHANGED idp
GrantEnds == ~idp.over /\ idp.refresh > 0 /\ idp' = [idp EXCEPT !.over = TRUE] /\ UNCHANGED loginCode
SigningKeyChanges ==
  idp.key < MaxSigningKeys /\ idp' = [idp EXCEPT !.key = @ + 1] /\ UNCHANGED loginCode

ProviderMoves ==
  /\ CodeLapses \/ GrantEnds \/ SigningKeyChanges
  /\ UNCHANGED <<link, loginStored, signIn, keySet, job, neverStored>> /\ Silent

-----------------------------------------------------------------------------
(* The check of an access token against the provider's keys, which are     *)
(* fetched when there are none, or when one is missing and the last fetch  *)
(* is long enough ago.                                                     *)

KeyKnown(tokens) == keySet.newest # 0 /\ tokens.key <= keySet.newest
Fetches(tokens) == ~KeyKnown(tokens) /\ (keySet.newest = 0 \/ ~keySet.cooling)
\* A token may have expired, by the process's clock.  A fetch that times out is the
\* provider's failure; one that is answered with an error counts against the token, and
\* so does a key too new to be fetched yet.
Verifications(tokens) ==
  IF KeyKnown(tokens) THEN [verdict : {"sound", "expired"}, keys : {keySet}]
  ELSE IF Fetches(tokens)
  THEN [verdict : {"sound", "expired"}, keys : {[newest |-> idp.key, cooling |-> TRUE]}]
         \cup [verdict : {"unreachable", "misread"}, keys : {keySet}]
  ELSE [verdict : {"unknownKey"}, keys : {keySet}]

Invalid == {"expired", "misread", "unknownKey"}

\* Tokens that were just issued are checked before they are stored.
VerifyIssued(r, next) ==
  /\ \E v \in Verifications(job[r].tokens) :
       /\ keySet' = v.keys
       /\ \/ v.verdict = "sound" /\ GoesOn(r, next) /\ UNCHANGED <<neverStored>> /\ Silent
          \/ v.verdict = "unreachable" /\ Replies(r, "unavailable") /\ Forgets(r)
          \/ v.verdict \in Invalid /\ RepliesWith(r, "unauthorized", {v.verdict}) /\ Forgets(r)
  /\ UNCHANGED <<link, loginStored, signIn, provider>>

KeysAge ==
  /\ keySet # NoKeys
  /\ keySet' \in {[keySet EXCEPT !.cooling = FALSE], NoKeys} \ {keySet}
  /\ UNCHANGED <<link, loginStored, signIn, job, neverStored, provider>> /\ Silent

-----------------------------------------------------------------------------
(* Login.                                                                  *)

\* Where to return to must be a path of the application.
RefuseTarget(r) ==
  /\ JobAt(r, "free") /\ link = "ready" /\ loginCode = "none" /\ RepliesWith(r, "callback_invalid", {"unsound"})
  /\ UNCHANGED <<link, loginStored, signIn, keySet, neverStored, provider>>

StoreLogin(r) ==
  /\ CommandAt(r, "free") /\ loginCode = "none" /\ ~loginStored
  /\ loginStored' = TRUE /\ GoesOn(r, "offering")
  /\ UNCHANGED <<link, signIn, keySet, neverStored, provider>> /\ Silent

\* The start of the login is recorded, and the browser sent to the provider.
SendToProvider(r) ==
  /\ JobAt(r, "offering") /\ Replies(r, "redirected")
  /\ loginCode' = "issued"
  /\ UNCHANGED <<link, loginStored, signIn, idp, keySet, neverStored>>

\* It cannot be recorded, and the transaction is taken back, if that can be done.
TakeLoginBack(r) ==
  /\ JobAt(r, "offering") /\ Replies(r, "unavailable")
  /\ loginStored' \in (IF link = "ready" THEN {FALSE, loginStored} ELSE {loginStored})
  /\ UNCHANGED <<link, signIn, keySet, neverStored, provider>>

LoginLapses ==
  /\ loginStored /\ loginStored' = FALSE
  /\ UNCHANGED <<link, signIn, keySet, job, neverStored, provider>> /\ Silent

\* The browser comes back, perhaps twice.
ConsumeLogin(r) ==
  /\ CommandAt(r, "free") /\ loginCode \in {"issued", "spent"}
  /\ loginStored' = FALSE
  /\ IF loginStored THEN GoesOn(r, "exchanging") /\ Silent
     ELSE Replies(r, "callback_invalid")
  /\ UNCHANGED <<link, signIn, keySet, neverStored, provider>>

\* The code is worth tokens once.
ExchangeCode(r) ==
  /\ JobAt(r, "exchanging") /\ loginCode = "issued" /\ ~idp.over
  /\ Issues(TRUE) /\ loginCode' = "spent"
  /\ Proceeds(r, "issued", NormalizeTokenResult(Issued(TRUE), NoTokens))
  /\ UNCHANGED <<link, loginStored, signIn, keySet, neverStored>> /\ Silent

\* It brings no tokens, with the code used up or not.
ExchangeFails(r) ==
  /\ JobAt(r, "exchanging")
  /\ \E failure \in TokenFailures :
       /\ failure = "refused" => loginCode # "issued" \/ idp.over
       /\ RepliesWith(r, CallbackFailure(failure), {failure} \cup IF idp.over THEN {"noCode"} ELSE {})
       /\ loginCode' \in {loginCode} \cup IF failure = "client" THEN {} ELSE {"spent"}
  /\ UNCHANGED <<link, loginStored, signIn, idp, keySet, neverStored>>

CreateSession(r) ==
  /\ CommandAt(r, "creating")
  /\ signIn' = [there |-> TRUE, revision |-> 1, tokens |-> job[r].tokens]
  /\ job' = [job EXCEPT ![r] = [NoJob EXCEPT !.at = "recording", !.revision = 1]]
  /\ UNCHANGED <<link, loginStored, keySet, neverStored, provider>> /\ Silent

\* A new credential is recorded; or it cannot be, and its session is deleted, if that can
\* be done.
RecordCredential(r) ==
  /\ JobAt(r, "recording")
  /\ \/ Replies(r, "ok") /\ UNCHANGED signIn
     \/ /\ Replies(r, "unavailable")
        /\ signIn' \in (IF link = "ready" /\ Same(r) THEN {[signIn EXCEPT !.there = FALSE]} ELSE {})
                         \cup {signIn}
  /\ UNCHANGED <<link, loginStored, keySet, neverStored, provider>>

-----------------------------------------------------------------------------
(* A session's tokens are checked ...                                      *)

\* A cookie may name the session, or one it has replaced.
Named == {signIn.revision, signIn.revision - 1} \ {0}
IsStored(revision) == signIn.there /\ signIn.revision = revision

LoadSession(r) ==
  /\ CommandAt(r, "free")
  /\ \E revision \in Named :
       IF IsStored(revision) THEN Begins(r, revision, "checking", signIn.tokens) /\ Silent
       ELSE RepliesWith(r, "unauthorized", {"noSession"})
  /\ UNCHANGED <<link, loginStored, signIn, keySet, neverStored, provider>>

\* Only a provider that cannot be reached leaves the session.
CheckToken(r) ==
  /\ JobAt(r, "checking")
  /\ \E v \in Verifications(job[r].tokens) :
       /\ keySet' = v.keys
       /\ \/ v.verdict = "sound" /\ Replies(r, "ok")
          \/ v.verdict = "unreachable" /\ Replies(r, "unavailable")
          \/ /\ v.verdict \in Invalid /\ Proceeds(r, "ending", NoTokens)
             /\ Judged(r, "unauthorized", {v.verdict})
             /\ UNCHANGED leaseTaken
  /\ UNCHANGED <<link, loginStored, signIn, neverStored, provider>>

DropSession(r) ==
  /\ CommandAt(r, "ending") /\ Replies(r, "ended")
  /\ signIn' = IF Same(r) THEN [signIn EXCEPT !.there = FALSE] ELSE signIn
  /\ UNCHANGED <<link, loginStored, keySet, neverStored, provider>>

-----------------------------------------------------------------------------
(* ... and refreshed.                                                      *)

LookForRefresh(r) ==
  /\ CommandAt(r, "free")
  /\ \E revision \in Named :
       IF IsStored(revision) THEN Begins(r, revision, "leasing", NoTokens) /\ Silent
       ELSE RepliesWith(r, "unauthorized", {"noSession"})
  /\ UNCHANGED <<link, loginStored, signIn, keySet, neverStored, provider>>

TakeLease(r) ==
  /\ CommandAt(r, "leasing")
  /\ IF leaseTaken THEN Replies(r, "conflict")
     ELSE leaseTaken' = TRUE /\ GoesOn(r, "rereading") /\ unreasoned' = {}
  /\ UNCHANGED <<link, loginStored, signIn, keySet, neverStored, provider>>

Reread(r) ==
  /\ CommandAt(r, "rereading")
  /\ IF Same(r) THEN Proceeds(r, "refreshing", signIn.tokens) /\ Silent
     ELSE Replies(r, "unauthorized")
  /\ UNCHANGED <<link, loginStored, signIn, keySet, neverStored, provider>>

Accepts(r) == ~idp.over /\ job[r].tokens.refresh = idp.refresh

\* The provider may issue another refresh token, or go on with the one it has.
RefreshGrant(r) ==
  /\ JobAt(r, "refreshing") /\ Accepts(r)
  /\ \E new \in BOOLEAN :
       /\ Issues(new)
       /\ Proceeds(r, "renewed", NormalizeTokenResult(Issued(new), job[r].tokens))
  /\ UNCHANGED <<link, loginStored, signIn, loginCode, keySet, neverStored>> /\ Silent

\* It brings no tokens, and new ones may be lost with it.
GrantFails(r) ==
  /\ JobAt(r, "refreshing")
  /\ \E failure \in TokenFailures :
       /\ failure = "refused" => ~Accepts(r)
       /\ RepliesWith(r, RefreshFailure(failure), {failure})
       /\ \/ /\ Accepts(r) /\ failure # "client"
             /\ Issues(TRUE) /\ neverStored' = neverStored \cup {idp'.refresh}
          \/ UNCHANGED <<idp, neverStored>>
  /\ UNCHANGED <<link, loginStored, signIn, loginCode, keySet>>

\* The session goes on under its next credential, if it is still the one that was read;
\* the answer of the script may be lost.
RotateTokens(r) ==
  /\ CommandAt(r, "rotating")
  /\ IF Same(r)
     THEN /\ signIn' = [signIn EXCEPT !.revision = @ + 1, !.tokens = job[r].tokens]
          /\ \/ /\ job' = [job EXCEPT ![r] = [at |-> "recording", revision |-> @.revision + 1,
                                              tokens |-> NoTokens]]
                /\ Silent
             \/ Replies(r, "unavailable")
          /\ UNCHANGED neverStored
     ELSE Replies(r, "unauthorized") /\ Forgets(r) /\ UNCHANGED signIn
  /\ UNCHANGED <<link, loginStored, keySet, provider>>

\* The request is done with it, or it runs out.
LeaseEnds ==
  /\ leaseTaken /\ leaseTaken' = FALSE
  /\ UNCHANGED <<link, loginStored, signIn, keySet, job, neverStored, provider>> /\ unreasoned' = {}

\* Its time is over, or the user logs out.
SignInEnds ==
  /\ signIn.there /\ signIn' = [signIn EXCEPT !.there = FALSE]
  /\ UNCHANGED <<link, loginStored, keySet, job, neverStored, provider>> /\ Silent

-----------------------------------------------------------------------------
LoginsNext ==
  \/ Connect \/ LinkLost
  \/ ProviderMoves \/ KeysAge \/ LoginLapses \/ LeaseEnds \/ SignInEnds
  \/ \E r \in LoginRequests :
       \/ RefuseTarget(r) \/ StoreLogin(r) \/ SendToProvider(r) \/ TakeLoginBack(r)
       \/ ConsumeLogin(r) \/ ExchangeCode(r) \/ ExchangeFails(r)
       \/ JobAt(r, "issued") /\ VerifyIssued(r, "creating")
       \/ CreateSession(r) \/ RecordCredential(r)
       \/ LoadSession(r) \/ CheckToken(r) \/ DropSession(r)
       \/ LookForRefresh(r) \/ TakeLease(r) \/ Reread(r)
       \/ RefreshGrant(r) \/ GrantFails(r)
       \/ JobAt(r, "renewed") /\ VerifyIssued(r, "rotating")
       \/ RotateTokens(r) \/ CommandFails(r)

LoginsSpec == LoginsInit /\ [][LoginsNext]_loginVars

-----------------------------------------------------------------------------
(* Properties.                                                             *)

\* A session can go on for as long as the provider lets it: the refresh token it stores is
\* the newest one there is, unless a newer one is on its way to it, or was lost with the
\* answer, the request or the rotation that should have brought it (oidc.ts:76-108,
\* session-service.ts:342-365).
StoredTokensWork ==
  signIn.there =>
    \/ signIn.tokens.refresh = idp.refresh
    \/ idp.refresh \in neverStored
    \/ \E r \in LoginRequests : CarriesNewer(r) /\ job[r].tokens.refresh = idp.refresh

\* Failures of the provider that the code answers like a refusal by it: a token call that
\* ran out of time, an answer that is none, a client secret that was rotated under the
\* process, and signing keys that could not be read, or not be fetched yet.
Misjudged == {"timeout", "unreadable", "client", "misread", "unknownKey"}

\* Who is told that a callback or a session is invalid was too late, or had an unsound
\* request or an expired token, or was refused by the provider, or met with one of the
\* failures in Misjudged.  A Redis that does not answer, a provider that cannot be reached
\* or is overloaded, tokens that are not whole and a lease that another request holds are
\* never taken for a refusal (oidc.ts:107-146, auth-context/src/verifier.ts:48-55,
\* session-service.ts:201-248).
RefusalsHaveReasons == unreasoned \subseteq Misjudged

\* What apps/api/src/auth/oidc.test.ts:167 says of the token endpoint, that its outage is
\* "a closed dependency failure", would be this: no failure of the provider is answered
\* like a refusal.  The code does not keep it (oidc.ts:107-124), and no run asks for it.
OutageIsNoRefusal == unreasoned = {}

\* Logins and their tokens, as a whole.
LoginsAreHonest == StoredTokensWork /\ RefusalsHaveReasons

\* The secrets that change while the API runs: its client's at Keycloak, the key of its
\* sessions, and the tokens they hold (scripts/bootstrap/rotate-keycloak-client-secret.mjs:
\* 113-156, apps/api/src/auth/session-security.ts:112-196, apps/api/src/auth/oidc.ts:76-147).
SecretsAreSound == SecretsAreKept /\ KeysAreKept /\ LoginsAreHonest
=============================================================================
