-------------------------- MODULE PolicyEvaluation --------------------------
(***************************************************************************)
(* What a policy says (authorization/src/policy.ts and the evaluation in   *)
(* engine.ts): the validation and normal form of a policy, the decision of *)
(* a check, the scope of resolveDataScope, and how long redis-cache.ts may *)
(* remember either.  Authorization models who asks and who publishes.      *)
(*                                                                         *)
(* Identifiers and their syntax are abstracted; what is kept of a policy   *)
(* is what the evaluation reads.  Lists that the code sorts and rids of    *)
(* repetitions are sets.                                                   *)
(***************************************************************************)
EXTENDS Integers

CONSTANTS
  Permissions,        \* codes resource:action
  Dimensions,         \* of data scopes
  DimensionValues,
  Roles,
  Holders,            \* persons and assignments, as subjects of grants
  PoliciesSent,       \* what publishers send
  Subjects,           \* [person, selected: a set of at most one assignment]
  Asked,              \* requests
  CacheTtl,           \* cacheTtlSeconds
  Second,             \* ticks of the clock in a second
  MaxEvaluationTime   \* bound: the clock

\* A term admits everything, or the values it lists for each dimension "on" it.
Terms == [kind : {"all", "match"}, on : SUBSET Dimensions,
          values : [Dimensions -> SUBSET DimensionValues]]
AllTerm == [kind |-> "all", on |-> {}, values |-> [d \in Dimensions |-> {}]]

Grants == [role : Roles, holder : Holders, from : Nat, ends : BOOLEAN, to : Nat]

\* Permissions declared and their dimensions; the terms each role binds to a permission,
\* none if it does not; and the grants.
RawPolicies ==
  [declared : SUBSET Permissions, dimensions : [Permissions -> SUBSET Dimensions],
   scopes : [Roles -> [Permissions -> SUBSET Terms]], grants : SUBSET Grants]

RequestsAsked ==
  [code : Permissions, given : BOOLEAN, on : SUBSET Dimensions,
   value : [Dimensions -> DimensionValues]]

ASSUME EvaluationAssumption ==
  /\ PoliciesSent \subseteq RawPolicies
  /\ Subjects \subseteq [person : Holders, selected : SUBSET Holders]
  /\ Asked \subseteq RequestsAsked
  /\ CacheTtl \in Nat \ {0} /\ Second \in Nat \ {0} /\ MaxEvaluationTime \in Nat

VARIABLES
  policyInForce,      \* as validatePolicySnapshot returns it
  policySent,         \* ghost: as it was published
  evaluationTime

evaluationVars == <<policyInForce, policySent, evaluationTime>>

-----------------------------------------------------------------------------
(* validatePolicySnapshot.                                                 *)

ValidTerm(t, dimensions) ==
  \/ t = AllTerm
  \/ /\ t.kind = "match" /\ t.on = dimensions /\ dimensions # {}
     /\ \A d \in dimensions : t.values[d] # {}

ExistingRole(policy, role) == \E c \in Permissions : policy.scopes[role][c] # {}

ValidPolicy(policy) ==
  /\ \A role \in Roles, c \in Permissions : policy.scopes[role][c] # {} =>
       /\ c \in policy.declared
       /\ \A t \in policy.scopes[role][c] : ValidTerm(t, policy.dimensions[c])
  /\ \A g \in policy.grants : ExistingRole(policy, g.role) /\ (g.ends => g.from < g.to)

\* A scope that admits everything needs no other term.
NormalScope(terms) == IF \E t \in terms : t.kind = "all" THEN {AllTerm} ELSE terms

NormalPolicy(policy) ==
  [policy EXCEPT !.scopes = [role \in Roles |-> [c \in Permissions |->
                               NormalScope(policy.scopes[role][c])]]]

-----------------------------------------------------------------------------
(* evaluatePolicy.                                                         *)

\* A defect: a grant is in effect until its end, the end included.
ActiveToTheEnd(g, at) == g.from <= at /\ (g.ends => at <= g.to)

Active(g, at) == g.from <= at /\ (g.ends => at < g.to)

Applicable(g, subject, at) ==
  Active(g, at) /\ (g.holder = subject.person \/ g.holder \in subject.selected)

ScopesGranted(policy, subject, code, at) ==
  {policy.scopes[g.role][code] : g \in {h \in policy.grants : Applicable(h, subject, at)}} \ {{}}

Combined(scopes) == NormalScope(UNION scopes)

Admits(t, request) ==
  t.kind = "all" \/ \A d \in t.on : d \in request.on /\ request.value[d] \in t.values[d]

ScopeMatches(scope, request) == \E t \in scope : Admits(t, request)

Denied(why) == [allowed |-> FALSE, reason |-> why, scope |-> {}]

\* What a check refuses before it looks at grants.
ContextMissing(policy, request) ==
  policy.dimensions[request.code] # {} /\ ~request.given
ContextInvalid(policy, request) ==
  request.given /\ request.on # policy.dimensions[request.code]

EvaluatePolicy(policy, subject, request, at, operation) ==
  LET scopes == ScopesGranted(policy, subject, request.code, at) IN
    IF request.code \notin policy.declared THEN Denied("unknown_permission")
    ELSE IF operation = "check" /\ ContextMissing(policy, request)
    THEN Denied("resource_context_required")
    ELSE IF operation = "check" /\ ContextInvalid(policy, request)
    THEN Denied("invalid_context")
    ELSE IF scopes = {} THEN Denied("no_applicable_grant")
    ELSE IF operation = "check" /\ request.given /\ ~ScopeMatches(Combined(scopes), request)
    THEN Denied("scope_mismatch")
    ELSE [allowed |-> TRUE, reason |-> "allowed", scope |-> Combined(scopes)]

-----------------------------------------------------------------------------
(* How long an evaluation is remembered.                                   *)

BoundariesAfter(policy, at) ==
  {b \in {g.from : g \in policy.grants} \cup {g.to : g \in {h \in policy.grants : h.ends}} : b > at}

\* nextPolicyBoundary
NextBoundary(policy, at) ==
  CHOOSE b \in BoundariesAfter(policy, at) : \A c \in BoundariesAfter(policy, at) : b <= c

\* Whole seconds; none, and nothing is remembered, if the boundary is closer than one.
SecondsRemembered(policy, at) ==
  IF BoundariesAfter(policy, at) = {} THEN CacheTtl
  ELSE LET whole == (NextBoundary(policy, at) - at) \div Second IN
         IF whole < CacheTtl THEN whole ELSE CacheTtl

-----------------------------------------------------------------------------
\* No policy grants anything at first.
NoPolicy == [declared |-> {}, dimensions |-> [c \in Permissions |-> {}],
             scopes |-> [role \in Roles |-> [c \in Permissions |-> {}]], grants |-> {}]

EvaluationInit ==
  policyInForce = NormalPolicy(NoPolicy) /\ policySent = NoPolicy /\ evaluationTime = 0

\* A policy is published, if it is valid.
PutInForce(policy) ==
  /\ ValidPolicy(policy)
  /\ policySent' = policy /\ policyInForce' = NormalPolicy(policy)
  /\ UNCHANGED evaluationTime

EvaluationTick ==
  /\ evaluationTime < MaxEvaluationTime
  /\ evaluationTime' = evaluationTime + 1
  /\ UNCHANGED <<policyInForce, policySent>>

EvaluationNext == EvaluationTick \/ \E policy \in PoliciesSent : PutInForce(policy)

EvaluationSpec == EvaluationInit /\ [][EvaluationNext]_evaluationVars

-----------------------------------------------------------------------------
(* Properties.                                                             *)

\* The policy as its publisher meant it: some grant in effect, of the person or of the
\* selected assignment, has a role with a term for the permission that the request meets.
Meant(policy, subject, request, at) ==
  \E g \in policy.grants :
    /\ g.from <= at /\ ~(g.ends /\ g.to <= at)
    /\ g.holder \in {subject.person} \cup subject.selected
    /\ \E t \in policy.scopes[g.role][request.code] :
         \/ t = AllTerm
         \/ \A d \in t.on : request.value[d] \in t.values[d]

\* A request about an object, with the declared context.
About(policy, request) ==
  request.code \in policy.declared /\ request.given
  /\ request.on = policy.dimensions[request.code]

\* A check allows exactly what the policy means, and the scope that resolveDataScope
\* gives for lists admits exactly the objects a check allows, whatever validation
\* normalised and the evaluation combined (policy.ts:58-95, engine.ts:46-114).
ChecksAgreeWithScopes ==
  \A subject \in Subjects, request \in Asked :
    About(policySent, request) =>
      LET check == EvaluatePolicy(policyInForce, subject, request, evaluationTime, "check")
          whole == EvaluatePolicy(policyInForce, subject, request, evaluationTime,
                                  "resolve_data_scope")
      IN /\ check.allowed <=> Meant(policySent, subject, request, evaluationTime)
         /\ check.allowed <=> whole.allowed /\ ScopeMatches(whole.scope, request)

\* Nothing remembered for the time the engine gives it outlives a grant that begins or
\* ends: to the last tick the evaluation is the same (engine.ts:123-127, 204-208).
NothingOutlivesItsGrant ==
  LET last == evaluationTime + SecondsRemembered(policyInForce, evaluationTime) * Second - 1 IN
  \A subject \in Subjects, request \in Asked, operation \in {"check", "resolve_data_scope"} :
    LET now == EvaluatePolicy(policyInForce, subject, request, evaluationTime, operation) IN
      \A later \in evaluationTime .. last :
        EvaluatePolicy(policyInForce, subject, request, later, operation) = now

EvaluationIsSound == ChecksAgreeWithScopes /\ NothingOutlivesItsGrant

=============================================================================
