---------------------------- MODULE Authorization ----------------------------
(***************************************************************************)
(* The authorization core: checks (engine.ts) against the current policy   *)
(* (postgres-persistence.ts), with the optional cache (redis-cache.ts),    *)
(* and the protected publication of policies (policy-publication.ts),      *)
(* whose callers are themselves authorized by a check and whose every      *)
(* outcome is audited.  Publishers retry what they have no answer for.     *)
(*                                                                         *)
(* A policy version is reduced to the times at which its grants allow the  *)
(* one request that checkers and publishers make, its content to a list of *)
(* grants whose order means nothing.  A publication is a command with its  *)
(* id, the version it publishes, the content it gives that version and the *)
(* precondition on the current one.  The audit store, the cache's          *)
(* evictions and the clock are external.  A transaction is one step.       *)
(***************************************************************************)
EXTENDS Naturals, Sequences

CONSTANTS
  PolicyVersions,     \* version identifiers
  Allows,             \* version -> times at which its grants are in effect
  Publications,       \* publication ids in use
  CommandsOf,         \* id -> the commands [version, content, expected] sent under it
  FirstVersion,       \* the policy in force at the start
  FirstContent,       \* what it contains
  AuthorizationCalls, \* concurrent requests
  MaxPolicyTime       \* bound: the clock

AnyVersion == "any"

ASSUME AuthorizationAssumption ==
  /\ FirstVersion \in PolicyVersions
  /\ MaxPolicyTime \in Nat
  /\ \A p \in Publications : \A c \in CommandsOf[p] :
       /\ c = [version |-> c.version, content |-> c.content, expected |-> c.expected]
       /\ c.version \in PolicyVersions /\ c.expected \in PolicyVersions \cup {AnyVersion}
       /\ c.content \in Seq({c.content[i] : i \in DOMAIN c.content})

VARIABLES
  stored,        \* policy_versions: version -> content, immutable
  published,     \* policy_publications: id -> its result
  current,       \* the pointer current_policy
  policyTime,    \* the clock
  checking,      \* call -> where it is
  grantedBy,     \* ghost: id -> the recorded decision it was published under
  policyAudit    \* the publications whose success is in the management audit

authorizationVars == <<stored, published, current, policyTime, checking, grantedBy,
                       policyAudit>>

NotStored == {}
NoVersion == "unavailable"
NothingAsked == [version |-> NoVersion, content |-> <<>>, expected |-> AnyVersion]
Waiting == [at |-> "idle"]

\* Lists that differ in their order alone are one policy.
Canonical(content) == {content[i] : i \in DOMAIN content}
Fingerprint(c) == [c EXCEPT !.content = Canonical(@)]

AuthorizationInit ==
  /\ stored = [v \in PolicyVersions |-> IF v = FirstVersion THEN Canonical(FirstContent) ELSE NotStored]
  /\ published = [p \in {} |-> <<>>]
  /\ current = FirstVersion
  /\ policyTime = 0
  /\ checking = [k \in AuthorizationCalls |-> Waiting]
  /\ grantedBy = [p \in {} |-> <<>>]
  /\ policyAudit = {}

CallAt(k, place) == checking[k].at = place
Ends(k) == checking' = [checking EXCEPT ![k] = Waiting]
policyVars == <<stored, published, current>>
recordVars == <<grantedBy, policyAudit>>
otherVars == <<policyVars, policyTime, recordVars>>

-----------------------------------------------------------------------------
(* A check, alone or as the authorization of a publication.                *)

PolicyTick ==
  /\ policyTime < MaxPolicyTime
  /\ policyTime' = policyTime + 1
  /\ UNCHANGED <<policyVars, checking, recordVars>>

\* A decision reads the clock first.
BeginDecision(k, for, c) ==
  /\ CallAt(k, "idle")
  /\ checking' = [checking EXCEPT ![k] = [at |-> "current", for |-> for, since |-> policyTime,
                                         asked |-> c]]
  /\ UNCHANGED otherVars

\* A check, one of a batch, a protected operation or a data scope: each decides for itself.
AskCheck(k) == BeginDecision(k, "check", NothingAsked)

\* A policy grants something, or is no policy to publish.
Sound(c) == c.content # <<>>

\* A publication's command is copied and checked before anything is waited for, so the
\* caller may go on with the object it passed.
AskToPublish(k, p, c) == Sound(c) /\ BeginDecision(k, p, c)

ReadCurrent(k) ==
  /\ CallAt(k, "current")
  /\ checking' = [checking EXCEPT ![k] = [at |-> "loading", for |-> @.for, asked |-> @.asked,
                                          since |-> @.since, version |-> current]]
  /\ UNCHANGED otherVars

\* A version can be read back, with the content its digest says.
Loadable(version) == stored[version] # NotStored

Evaluation(version, time) == IF time \in Allows[version] THEN "allowed" ELSE "denied"
FreshEvaluation(k) == Evaluation(checking[k].version, checking[k].since)

DecidedAs(k, version, outcome) ==
  checking' = [checking EXCEPT ![k] = [at |-> "recording", for |-> @.for,
                asked |-> @.asked, since |-> @.since, version |-> version, outcome |-> outcome]]

\* The context is invalid, or the pointer or the snapshot cannot be read: denied.
PolicyUnavailable(k) ==
  /\ checking[k].at \in {"current", "loading"}
  /\ DecidedAs(k, NoVersion, "denied")
  /\ UNCHANGED otherVars

\* What Redis answers for a version: an evaluation that some check wrote there, at its
\* own time, or nothing, once that expired, was invalidated or is unreadable.
CacheAnswers(version) == {Evaluation(version, t) : t \in 0 .. policyTime} \cup {"none"}

\* What the cache answers only tells a hit from a miss: the fresh evaluation is taken
\* whether they agree, differ or the cache fails, and is written back unless the policy
\* changes too soon.
TakesFresh(k, cached) == DecidedAs(k, checking[k].version, FreshEvaluation(k))

\* The snapshot is loaded, and evaluated at the time of the call.
Evaluate(k) ==
  /\ CallAt(k, "loading") /\ Loadable(checking[k].version)
  /\ \E cached \in CacheAnswers(checking[k].version) : TakesFresh(k, cached)
  /\ UNCHANGED otherVars

\* What is recorded was decided on a stored version, or denied without one.
Recordable(k) ==
  IF checking[k].version = NoVersion THEN checking[k].outcome = "denied"
  ELSE Loadable(checking[k].version)

\* Only a whole, positive decision lets a publisher go on.
AllowedDecision(k) == checking[k].outcome = "allowed" /\ checking[k].version # NoVersion

\* The decision is recorded before it is told.  A denied publisher's denial is audited,
\* or the caller gets the audit's failure instead.
Decided(k) ==
  /\ CallAt(k, "recording") /\ Recordable(k)
  /\ IF checking[k].for # "check" /\ AllowedDecision(k)
     THEN checking' = [checking EXCEPT ![k].at = "publishing"]
     ELSE Ends(k)
  /\ UNCHANGED otherVars

\* The recorder fails: authorization is unavailable.
RecorderFails(k) ==
  /\ CallAt(k, "recording")
  /\ Ends(k)
  /\ UNCHANGED otherVars

-----------------------------------------------------------------------------
(* The publication: one transaction under the publication lock.            *)

Known(p) == p \in DOMAIN published

\* A new id must agree with a version already stored and find the version it expects.
Publishable(c) ==
  /\ stored[c.version] \in {NotStored, Canonical(c.content)}
  /\ c.expected \in {AnyVersion, current}

Appended(p, c, decision) ==
  /\ published' = [q \in DOMAIN published \cup {p} |->
       IF q = p THEN [command |-> Fingerprint(c), previous |-> current] ELSE published[q]]
  /\ grantedBy' = [q \in DOMAIN grantedBy \cup {p} |->
       IF q = p THEN [asked |-> decision.asked, version |-> decision.version,
                          since |-> decision.since]
       ELSE grantedBy[q]]
  /\ stored' = [stored EXCEPT ![c.version] = Canonical(c.content)]
  /\ current' = c.version

\* A known id is a replay of the same command, and changes nothing.
Replayed(p, c) == Known(p) /\ published[p].command = Fingerprint(c)

\* A defect: a replay points at its version again.
PersistedAgain(p, c, decision) ==
  IF Known(p)
  THEN Replayed(p, c) /\ current' = c.version /\ UNCHANGED <<stored, published, grantedBy>>
  ELSE Publishable(c) /\ Appended(p, c, decision)

Persisted(p, c, decision) ==
  IF Known(p) THEN Replayed(p, c) /\ UNCHANGED <<policyVars, grantedBy>>
  ELSE Publishable(c) /\ Appended(p, c, decision)

\* The commit is answered, or its answer is lost, and a failure is audited instead.
PublishPolicy(k) ==
  /\ CallAt(k, "publishing")
  /\ Persisted(checking[k].for, checking[k].asked, checking[k])
  /\ \/ checking' = [checking EXCEPT ![k] = [at |-> "auditing", for |-> @.for, asked |-> @.asked]]
     \/ Ends(k)
  /\ UNCHANGED <<policyTime, policyAudit>>

\* A conflict, or a transaction that fails: that is audited, or not even that, and
\* whoever asked may ask again.
PublishRefused(k) ==
  /\ CallAt(k, "publishing")
  /\ Ends(k)
  /\ UNCHANGED otherVars

AuditRecord(k) == [publication |-> checking[k].for, version |-> checking[k].asked.version]

\* The success is told after its audit fact; without it the outcome is unknown.
AuditSuccess(k) ==
  /\ CallAt(k, "auditing")
  /\ \/ policyAudit' = policyAudit \cup {AuditRecord(k)}
     \/ UNCHANGED policyAudit
  /\ Ends(k)
  /\ UNCHANGED <<policyVars, policyTime, grantedBy>>

AuthorizationNext ==
  \/ PolicyTick
  \/ \E k \in AuthorizationCalls :
       \/ AskCheck(k) \/ ReadCurrent(k) \/ PolicyUnavailable(k) \/ Evaluate(k)
       \/ \E p \in Publications : \E c \in CommandsOf[p] : AskToPublish(k, p, c)
       \/ Decided(k) \/ RecorderFails(k)
       \/ PublishPolicy(k) \/ PublishRefused(k) \/ AuditSuccess(k)

AuthorizationSpec == AuthorizationInit /\ [][AuthorizationNext]_authorizationVars

-----------------------------------------------------------------------------
(* Properties.                                                             *)

\* A retry of a publication never brings its policy back: the pointer moves
\* only with a new publication, which names the version it replaced and found
\* the one it expected (postgres-persistence.ts:162-199).
RetriesDoNotRollBack ==
  [][current' # current =>
       \E p \in Publications :
         /\ ~Known(p) /\ p \in DOMAIN published'
         /\ published'[p].command.version = current'
         /\ published'[p].previous = current
         /\ published'[p].command.expected \in {AnyVersion, current}]_authorizationVars

\* A publication audited as a success is stored, whatever answers were lost
\* and whichever of its attempts failed; a stored one keeps its content, which is that of
\* the command the decision was made for; and it was published under a decision that a
\* stored policy really gave at the time of the request, whatever the cache held and whatever was published
\* meanwhile (policy-publication.ts:32-62 and 230-263, engine.ts:157-282).
PublicationsAreEarned ==
  /\ \A f \in policyAudit :
       Known(f.publication) /\ published[f.publication].command.version = f.version
  /\ \A p \in DOMAIN published :
       LET decision == grantedBy[p]
           c == published[p].command IN
         /\ stored[c.version] = c.content
         /\ c = Fingerprint(decision.asked)
         /\ decision.version \in PolicyVersions
         /\ stored[decision.version] # NotStored
         /\ decision.since \in Allows[decision.version]

\* Both: what a publication stands for, and that a retry does not undo a later one.
PublicationsAreSound == []PublicationsAreEarned /\ RetriesDoNotRollBack

=============================================================================
