--------------------------- MODULE DecisionProofs ---------------------------
(***************************************************************************)
(* Proofs about what decides: the policies (PolicyEvaluation), for every   *)
(* set of permissions, roles, policies, subjects and requests, every clock *)
(* and every cache lifetime; the business configuration                    *)
(* (BusinessConfiguration), for every set of commands, callers and scopes; *)
(* the publication of policies (Authorization); and the organization that  *)
(* decisions are scoped by (Organization), for every set of units,         *)
(* commands and callers and every length of time.                          *)
(***************************************************************************)
EXTENDS PolicyEvaluation, BusinessConfiguration, Authorization, Organization,
        FiniteSetTheorems, WellFoundedInduction, TLAPS

-----------------------------------------------------------------------------
(* Policies.                                                               *)

\* The policy in force is the normal form of a valid one.
EvaluationInv ==
  /\ policySent \in RawPolicies /\ ValidPolicy(policySent)
  /\ policyInForce = NormalPolicy(policySent)
  /\ evaluationTime \in Nat

-----------------------------------------------------------------------------
(* The normal form.                                                        *)

\* A normal form is empty when nothing was bound, and admits what was bound.
LEMMA NormalScopeKeeps ==
  ASSUME NEW terms, NEW request
  PROVE  /\ NormalScope(terms) = {} <=> terms = {}
         /\ ScopeMatches(NormalScope(terms), request) <=> ScopeMatches(terms, request)
BY DEF NormalScope, ScopeMatches, Admits, AllTerm

\* Validation keeps everything but the scopes, which it brings to normal form.
LEMMA NormalPolicyKeeps ==
  ASSUME NEW policy \in RawPolicies
  PROVE  /\ NormalPolicy(policy).declared = policy.declared
         /\ NormalPolicy(policy).dimensions = policy.dimensions
         /\ NormalPolicy(policy).grants = policy.grants
         /\ \A role \in Roles, c \in Permissions :
              NormalPolicy(policy).scopes[role][c] = NormalScope(policy.scopes[role][c])
BY DEF NormalPolicy, RawPolicies

\* The scopes a subject is granted match a request exactly if one of its grants in
\* effect has a term that admits it.
LEMMA GrantedScopesMatch ==
  ASSUME NEW policy \in RawPolicies, NEW subject, NEW request \in RequestsAsked, NEW at
  PROVE  LET scopes == ScopesGranted(NormalPolicy(policy), subject, request.code, at) IN
           ScopeMatches(Combined(scopes), request) <=>
             \E g \in policy.grants : /\ Applicable(g, subject, at)
                                      /\ ScopeMatches(policy.scopes[g.role][request.code], request)
<1> DEFINE normal == NormalPolicy(policy)
<1> DEFINE scopes == ScopesGranted(normal, subject, request.code, at)
<1> DEFINE bound(g) == policy.scopes[g.role][request.code]
<1>1. /\ normal.grants = policy.grants
      /\ \A g \in policy.grants : normal.scopes[g.role][request.code] = NormalScope(bound(g))
  BY NormalPolicyKeeps DEF RawPolicies, Grants, RequestsAsked
<1>2. ScopeMatches(Combined(scopes), request) <=> ScopeMatches(UNION scopes, request)
  BY NormalScopeKeeps DEF Combined
<1>3. ScopeMatches(UNION scopes, request) <=>
        \E terms \in scopes : ScopeMatches(terms, request)
  BY DEF ScopeMatches
<1> HIDE DEF normal
<1>4. \A terms : terms \in scopes <=>
        /\ terms # {}
        /\ \E g \in policy.grants : Applicable(g, subject, at) /\ terms = NormalScope(bound(g))
  BY <1>1 DEF ScopesGranted
<1>5. \A terms : ScopeMatches(terms, request) => terms # {}
  BY DEF ScopeMatches
<1>6. \A g : ScopeMatches(NormalScope(bound(g)), request) <=> ScopeMatches(bound(g), request)
  BY NormalScopeKeeps
<1> HIDE DEF scopes, bound
<1>7. (\E terms \in scopes : ScopeMatches(terms, request)) <=>
        \E g \in policy.grants : Applicable(g, subject, at) /\ ScopeMatches(bound(g), request)
  BY <1>4, <1>5, <1>6
<1> QED
  BY <1>2, <1>3, <1>7 DEF bound, scopes, normal

\* A scope that matches something was granted by someone.
LEMMA MatchingScopesAreGranted ==
  ASSUME NEW scopes, NEW request, ScopeMatches(Combined(scopes), request)
  PROVE  scopes # {}
<1>1. ScopeMatches(UNION scopes, request)
  BY NormalScopeKeeps DEF Combined
<1> QED
  BY <1>1 DEF ScopeMatches

\* What the publisher meant, in the terms of the evaluation.
LEMMA MeantIsGranted ==
  ASSUME NEW policy \in RawPolicies, ValidPolicy(policy), NEW subject,
         NEW request \in RequestsAsked, About(policy, request), NEW at \in Nat
  PROVE  Meant(policy, subject, request, at) <=>
           \E g \in policy.grants : /\ Applicable(g, subject, at)
                                    /\ ScopeMatches(policy.scopes[g.role][request.code], request)
<1>1. ASSUME NEW g \in policy.grants
      PROVE  /\ g.from \in Nat /\ g.to \in Nat /\ g.ends \in BOOLEAN
             /\ g.role \in Roles /\ request.code \in Permissions
             /\ policy.scopes[g.role][request.code] \subseteq Terms
  BY DEF RawPolicies, Grants, RequestsAsked
<1>2. ASSUME NEW g \in policy.grants
      PROVE  Applicable(g, subject, at) <=>
               /\ g.from <= at /\ ~(g.ends /\ g.to <= at)
               /\ g.holder \in {subject.person} \cup subject.selected
  BY <1>1 DEF Applicable, Active
<1>3. ASSUME NEW g \in policy.grants, NEW t \in policy.scopes[g.role][request.code]
      PROVE  Admits(t, request) <=>
               \/ t = AllTerm
               \/ \A d \in t.on : request.value[d] \in t.values[d]
  <2>1. ValidTerm(t, policy.dimensions[request.code]) /\ t \in Terms
    BY <1>1 DEF ValidPolicy
  <2>2. CASE t = AllTerm
    BY <2>2 DEF Admits, AllTerm
  <2>3. CASE t # AllTerm
    <3>1. t.kind = "match" /\ t.on = policy.dimensions[request.code] /\ t.on = request.on
      BY <2>1, <2>3 DEF ValidTerm, About
    <3> QED
      BY <2>3, <3>1 DEF Admits
  <2> QED
    BY <2>2, <2>3
<1> QED
  BY <1>2, <1>3 DEF Meant, ScopeMatches

\* A check about an object of the declared dimensions, and the scope for lists of them.
LEMMA CheckIsMeant ==
  ASSUME NEW policy \in RawPolicies, ValidPolicy(policy), NEW subject,
         NEW request \in RequestsAsked, About(policy, request), NEW at \in Nat
  PROVE  LET normal == NormalPolicy(policy)
             check == EvaluatePolicy(normal, subject, request, at, "check")
             whole == EvaluatePolicy(normal, subject, request, at, "resolve_data_scope")
         IN /\ check.allowed <=> Meant(policy, subject, request, at)
            /\ check.allowed <=> whole.allowed /\ ScopeMatches(whole.scope, request)
<1> DEFINE normal == NormalPolicy(policy)
<1> DEFINE scopes == ScopesGranted(normal, subject, request.code, at)
<1> DEFINE check == EvaluatePolicy(normal, subject, request, at, "check")
<1> DEFINE whole == EvaluatePolicy(normal, subject, request, at, "resolve_data_scope")
<1>1. /\ request.code \in normal.declared
      /\ ~ContextMissing(normal, request) /\ ~ContextInvalid(normal, request)
      /\ request.given
  BY NormalPolicyKeeps DEF About, ContextMissing, ContextInvalid
<1>2. ScopeMatches(Combined(scopes), request) <=> Meant(policy, subject, request, at)
  BY GrantedScopesMatch, MeantIsGranted
<1>3. ScopeMatches(Combined(scopes), request) => scopes # {}
  BY MatchingScopesAreGranted
<1> HIDE DEF normal
<1>4. check.allowed <=> scopes # {} /\ ScopeMatches(Combined(scopes), request)
  BY <1>1 DEF EvaluatePolicy, Denied
<1>5. /\ whole.allowed <=> scopes # {}
      /\ scopes # {} => whole.scope = Combined(scopes)
  BY <1>1 DEF EvaluatePolicy, Denied
<1> HIDE DEF scopes, check, whole
<1>6. /\ check.allowed <=> Meant(policy, subject, request, at)
      /\ check.allowed <=> whole.allowed /\ ScopeMatches(whole.scope, request)
  BY <1>2, <1>3, <1>4, <1>5
<1> QED
  BY <1>6 DEF check, whole, normal

-----------------------------------------------------------------------------
(* Time.                                                                   *)

\* The boundaries after a moment are natural numbers, and the next one is the least.
LEMMA NextBoundaryIsNext ==
  ASSUME NEW policy \in RawPolicies, NEW at \in Nat, BoundariesAfter(policy, at) # {}
  PROVE  /\ BoundariesAfter(policy, at) \subseteq Nat
         /\ NextBoundary(policy, at) \in BoundariesAfter(policy, at)
         /\ \A b \in BoundariesAfter(policy, at) : NextBoundary(policy, at) <= b
<1> DEFINE after == BoundariesAfter(policy, at)
<1>1. after \subseteq Nat
  BY DEF BoundariesAfter, RawPolicies, Grants
<1> HIDE DEF after
<1>2. PICK b \in after : \A c \in after : <<c, b>> \notin OpToRel(<, Nat)
  BY <1>1, WFMin, NatLessThanWellFounded DEF after
<1>3. \A c, d \in Nat : c < d => <<c, d>> \in OpToRel(<, Nat)
  BY Zenon DEF OpToRel
<1>4. \A c \in after : ~(c < b)
  BY <1>1, <1>2, <1>3
<1>5. \A c \in after : b <= c
  BY <1>1, <1>4
<1> QED
  BY <1>1, <1>2, <1>5 DEF NextBoundary, after

\* A whole number of seconds, of a distance in ticks, is not longer than the distance.
LEMMA WholeSeconds ==
  ASSUME NEW distance \in Nat
  PROVE  distance \div Second \in Nat /\ (distance \div Second) * Second <= distance
BY EvaluationAssumption

\* What is remembered ends before or with the next boundary.
LEMMA RememberedInTime ==
  ASSUME NEW policy \in RawPolicies, NEW at \in Nat, NEW b \in BoundariesAfter(policy, at)
  PROVE  at + SecondsRemembered(policy, at) * Second <= b
<1> DEFINE next == NextBoundary(policy, at)
<1> DEFINE whole == (next - at) \div Second
<1> DEFINE seconds == SecondsRemembered(policy, at)
<1>1. next \in Nat /\ next > at /\ next <= b /\ b \in Nat
  BY NextBoundaryIsNext DEF BoundariesAfter
<1>2. next - at \in Nat
  BY <1>1
<1>3. whole \in Nat /\ whole * Second <= next - at
  BY <1>2, WholeSeconds
<1>4. seconds = IF whole < CacheTtl THEN whole ELSE CacheTtl
  BY DEF SecondsRemembered
<1> HIDE DEF next, whole, seconds
<1>5. seconds \in Nat /\ seconds <= whole
  BY <1>3, <1>4, EvaluationAssumption
<1>6. seconds * Second <= whole * Second
  BY <1>3, <1>5, EvaluationAssumption
<1>7. seconds * Second \in Nat /\ whole * Second \in Nat
  BY <1>3, <1>5, EvaluationAssumption
<1> QED
  BY <1>1, <1>3, <1>6, <1>7 DEF seconds

\* Until then the same grants apply.
LEMMA SameGrants ==
  ASSUME NEW policy \in RawPolicies, NEW at \in Nat,
         NEW later \in at .. at + SecondsRemembered(policy, at) * Second - 1,
         NEW g \in policy.grants
  PROVE  Active(g, later) <=> Active(g, at)
<1> DEFINE end == at + SecondsRemembered(policy, at) * Second
<1>1. later \in Int /\ at <= later
  OBVIOUS
<1>2. g.from \in Nat /\ g.to \in Nat
  BY DEF RawPolicies, Grants
<1>3. \A b \in Nat : b \in BoundariesAfter(policy, at) => later < b
  <2> SUFFICES ASSUME NEW b \in Nat, b \in BoundariesAfter(policy, at) PROVE later < b
    OBVIOUS
  <2>1. end <= b
    BY RememberedInTime
  <2>2. later <= end - 1 /\ end \in Int
    <3>1. SecondsRemembered(policy, at) \in Int
      <4>1. NextBoundary(policy, at) \in Nat
        BY NextBoundaryIsNext
      <4> QED
        BY <4>1, EvaluationAssumption DEF SecondsRemembered
    <3> QED
      BY <3>1, EvaluationAssumption
  <2> QED
    BY <2>1, <2>2, <1>1
<1>4. g.from > at => g.from > later
  BY <1>2, <1>3 DEF BoundariesAfter
<1>5. g.ends /\ g.to > at => g.to > later
  BY <1>2, <1>3 DEF BoundariesAfter
<1> QED
  BY <1>1, <1>2, <1>4, <1>5 DEF Active

\* And the evaluation is the same.
LEMMA SameEvaluation ==
  ASSUME NEW policy \in RawPolicies, NEW at \in Nat,
         NEW later \in at .. at + SecondsRemembered(policy, at) * Second - 1,
         NEW subject, NEW request, NEW operation
  PROVE  EvaluatePolicy(policy, subject, request, later, operation)
           = EvaluatePolicy(policy, subject, request, at, operation)
<1>1. \A g \in policy.grants : Applicable(g, subject, later) <=> Applicable(g, subject, at)
  BY SameGrants DEF Applicable
<1>2. ScopesGranted(policy, subject, request.code, later)
        = ScopesGranted(policy, subject, request.code, at)
  BY <1>1 DEF ScopesGranted
<1> QED
  BY <1>2 DEF EvaluatePolicy

\* The normal form of a policy is a policy.
LEMMA NormalPolicyIsPolicy ==
  ASSUME NEW policy \in RawPolicies
  PROVE  NormalPolicy(policy) \in RawPolicies
<1>1. AllTerm \in Terms
  BY DEF AllTerm, Terms
<1>2. \A terms \in SUBSET Terms : NormalScope(terms) \in SUBSET Terms
  BY <1>1 DEF NormalScope
<1>3. \A role \in Roles, c \in Permissions : policy.scopes[role][c] \in SUBSET Terms
  BY DEF RawPolicies
<1>4. [role \in Roles |-> [c \in Permissions |-> NormalScope(policy.scopes[role][c])]]
        \in [Roles -> [Permissions -> SUBSET Terms]]
  BY <1>2, <1>3
<1> QED
  BY <1>4 DEF NormalPolicy, RawPolicies

-----------------------------------------------------------------------------
(* The policy in force.                                                    *)

\* At the start and after every publication the policy in force is the normal form of
\* the valid policy that was sent.
THEOREM PolicyInForceIsValid == EvaluationSpec => []EvaluationInv
<1>1. EvaluationInit => EvaluationInv
  BY DEF EvaluationInit, EvaluationInv, NoPolicy, RawPolicies, ValidPolicy
<1>2. EvaluationInv /\ [EvaluationNext]_evaluationVars => EvaluationInv'
  <2> SUFFICES ASSUME EvaluationInv, [EvaluationNext]_evaluationVars PROVE EvaluationInv'
    OBVIOUS
  <2> USE DEF EvaluationInv
  <2>1. CASE EvaluationTick
    BY <2>1 DEF EvaluationTick
  <2>2. ASSUME NEW policy \in PoliciesSent, PutInForce(policy) PROVE EvaluationInv'
    BY <2>2, EvaluationAssumption DEF PutInForce
  <2>3. CASE UNCHANGED evaluationVars
    BY <2>3 DEF evaluationVars
  <2> QED
    BY <2>1, <2>2, <2>3 DEF EvaluationNext
<1> QED
  BY <1>1, <1>2, PTL DEF EvaluationSpec

\* Checks and data scopes agree with what the publisher meant, and nothing remembered
\* outlives a grant, for every policy, subject, request and time.
THEOREM EvaluationsAreSound == EvaluationSpec => []EvaluationIsSound
<1>1. EvaluationInv => ChecksAgreeWithScopes
  <2> SUFFICES ASSUME EvaluationInv, NEW subject \in Subjects, NEW request \in Asked,
                      About(policySent, request)
               PROVE  LET check == EvaluatePolicy(policyInForce, subject, request,
                                                  evaluationTime, "check")
                          whole == EvaluatePolicy(policyInForce, subject, request,
                                                  evaluationTime, "resolve_data_scope")
                      IN /\ check.allowed <=> Meant(policySent, subject, request, evaluationTime)
                         /\ check.allowed <=> whole.allowed /\ ScopeMatches(whole.scope, request)
    BY DEF ChecksAgreeWithScopes
  <2>1. request \in RequestsAsked
    BY EvaluationAssumption
  <2> QED
    BY <2>1, CheckIsMeant DEF EvaluationInv
<1>2. EvaluationInv => NothingOutlivesItsGrant
  <2> SUFFICES ASSUME EvaluationInv PROVE NothingOutlivesItsGrant
    OBVIOUS
  <2>1. policyInForce \in RawPolicies /\ evaluationTime \in Nat
    BY NormalPolicyIsPolicy DEF EvaluationInv
  <2> DEFINE last ==
        evaluationTime + SecondsRemembered(policyInForce, evaluationTime) * Second - 1
  <2>2. ASSUME NEW subject \in Subjects, NEW request \in Asked,
               NEW operation \in {"check", "resolve_data_scope"},
               NEW later \in evaluationTime .. last
        PROVE  EvaluatePolicy(policyInForce, subject, request, later, operation)
                 = EvaluatePolicy(policyInForce, subject, request, evaluationTime, operation)
    BY <2>1, <2>2, SameEvaluation
  <2> HIDE DEF last
  <2> QED
    BY <2>2 DEF NothingOutlivesItsGrant, last
<1> QED
  BY <1>1, <1>2, PolicyInForceIsValid, PTL DEF EvaluationIsSound


-----------------------------------------------------------------------------
(* The business configuration center.                                      *)

\* The end of an activation under given terminations.
EndGiven(ends, a) ==
  LET tos == {t.to : t \in {u \in ends : u.activation = a.id}}
  IN CHOOSE e \in tos \cup {a.to} : \A f \in tos \cup {a.to} : e <= f

LEMMA EndOfIs ==
  /\ \A a : EndOf(a) = EndGiven(terminations, a)
  /\ \A a : EndOf(a)' = EndGiven(terminations', a)
BY DEF EndOf, EndGiven

\* An activation ends when it was to, or when its one termination says.
LEMMA EndGivenIs ==
  ASSUME NEW ends, NEW a, a.to \in Nat,
         \A t \in ends : t.activation = a.id => t.to \in Nat /\ t.to <= a.to,
         \A t, u \in ends : t.activation = u.activation => t = u
  PROVE  /\ (\A t \in ends : t.activation # a.id) => EndGiven(ends, a) = a.to
         /\ \A t \in ends : t.activation = a.id => EndGiven(ends, a) = t.to
         /\ EndGiven(ends, a) \in Nat /\ EndGiven(ends, a) <= a.to
<1> DEFINE tos == {t.to : t \in {u \in ends : u.activation = a.id}}
           all == tos \cup {a.to}
<1>1. EndGiven(ends, a) = CHOOSE e \in all : \A f \in all : e <= f
  BY DEF EndGiven
<1>2. CASE \A t \in ends : t.activation # a.id
  <2>1. tos = {} /\ all = {a.to}
    BY <1>2
  <2> HIDE DEF all
  <2> QED BY <1>1, <1>2, <2>1
<1>3. ASSUME NEW t \in ends, t.activation = a.id
      PROVE  EndGiven(ends, a) = t.to
  <2>1. \A f : f \in all <=> f = t.to \/ f = a.to
    BY <1>3
  <2> HIDE DEF all
  <2>2. t.to \in all /\ \A f \in all : t.to <= f
    BY <1>3, <2>1
  <2>3. \A e \in all : (\A f \in all : e <= f) => e = t.to
    BY <1>3, <2>1, <2>2
  <2> QED BY <1>1, <2>2, <2>3
<1> QED BY <1>2, <1>3

\* Of priorities that are bounded one is the highest.
LEMMA HighestExists ==
  \A T \in SUBSET (0 .. 1000) : T # {} => \E m \in T : \A k \in T : k <= m
<1> SUFFICES ASSUME NEW T \in SUBSET (0 .. 1000), T # {}
             PROVE  \E m \in T : \A k \in T : k <= m
  OBVIOUS
<1> DEFINE all == 0 .. 1000
           above(m) == {x \in all : x > m}
           S == {above(m) : m \in T}
<1>1. IsWellFoundedOn(StrictSubsetOrdering(all), SUBSET all)
  <2>1. IsFiniteSet(all)
    <3> DEFINE low == 0
               high == 1000
    <3>1. low \in Int /\ high \in Int
      OBVIOUS
    <3> HIDE DEF low, high
    <3>2. IsFiniteSet(low .. high)
      BY <3>1, FS_Interval
    <3> QED BY <3>2 DEF low, high
  <2> HIDE DEF all
  <2>2. FiniteSubsetsOf(all) = SUBSET all
    BY <2>1, FS_FiniteSubsetsOfFinite
  <2>3. IsWellFoundedOn(StrictSubsetOrdering(all), FiniteSubsetsOf(all))
    BY FS_StrictSubsetOrderingWellFounded
  <2> QED BY <2>2, <2>3
<1>a. \A m \in T : above(m) \subseteq all
  OBVIOUS
<1>b. \A m, k \in T : k > m => /\ k \in above(m) /\ k \notin above(k)
                              /\ \A x \in above(k) : x \in above(m)
  OBVIOUS
<1> HIDE DEF above, all
<1>2. S \subseteq SUBSET all /\ S # {}
  BY <1>a
<1>3. \E x \in S : \A y \in S : ~(<<y, x>> \in StrictSubsetOrdering(all))
  <2> DEFINE R == StrictSubsetOrdering(all)
             P == SUBSET all
  <2>1. IsWellFoundedOn(R, P) /\ S \subseteq P /\ S # {}
    BY <1>1, <1>2
  <2> HIDE DEF S, R, P
  <2>2. \E x \in S : \A y \in S : ~(<<y, x>> \in R)
    BY <2>1, WFMin
  <2> QED BY <2>2 DEF R
<1>4. PICK m \in T : \A k \in T : ~(<<above(k), above(m)>> \in StrictSubsetOrdering(all))
  BY <1>3
<1>5. \A k \in T : k <= m
  <2> SUFFICES ASSUME NEW k \in T, k > m PROVE FALSE
    OBVIOUS
  <2>1. above(k) \subseteq above(m) /\ above(k) # above(m)
    BY <1>b
  <2>2. <<above(k), above(m)>> \in StrictSubsetOrdering(all)
    BY <1>a, <2>1 DEF StrictSubsetOrdering
  <2> QED BY <1>4, <2>2
<1> QED BY <1>5

ConfigItems == {{}} \cup
  UNION {{c.items : c \in {d \in ConfigCommandsOf[o] : d.kind = "save"}} : o \in ConfigOperations}

ConfigRelease == [items : ConfigItems, revision : Nat]

\* Releases follow the drafts and keep the codes of those before.
DictionaryInv ==
  /\ dictionary.revision \in Nat /\ dictionary.items \in ConfigItems
  /\ releases \in Seq(ConfigRelease)
  /\ \A i \in DOMAIN releases : releases[i].revision <= dictionary.revision
  /\ \A i, j \in DOMAIN releases : i < j => /\ releases[i].items \subseteq releases[j].items
                                            /\ releases[i].revision <= releases[j].revision

ParameterInv ==
  /\ registered \in BOOLEAN /\ values \in Nat
  /\ values > 0 => registered

\* Activations have an identity and last a while; each is ended once at most, and two of
\* one scope never meet.
TimelineInv ==
  /\ \A a \in activations : a.from \in Nat /\ a.to \in Nat /\ a.from < a.to
  /\ \A a, b \in activations : a.id = b.id => a = b
  /\ \A t, u \in terminations : t.activation = u.activation => t = u
  /\ \A t \in terminations : \E a \in activations : a.id = t.activation
  /\ \A t \in terminations : \A a \in activations :
       t.activation = a.id => t.to \in Nat /\ t.to <= a.to /\ a.from < t.to
  /\ \A a, b \in activations : a # b /\ a.scope = b.scope =>
       EndGiven(terminations, a) <= b.from \/ EndGiven(terminations, b) <= a.from

\* A receipt for each operation that was applied, and no operation applied twice.
ReceiptsInv ==
  /\ DOMAIN configApplied = ConfigOperations
  /\ \A p \in receipts : p = [operation |-> p.operation, command |-> p.command]
  /\ \A o \in ConfigOperations : configApplied[o] \in {0, 1}
  /\ \A o \in ConfigOperations : configApplied[o] = 1 => \E p \in receipts : p.operation = o

ConfigFactsInv == DictionaryInv /\ ParameterInv /\ TimelineInv /\ ReceiptsInv

ConfigLocks == {"locked", "checked"}
ConfigPlaces == {"submitted", "stored", "failing"} \cup ConfigLocks
ResolutionPlaces == {"cached", "listed"}

ConfigShaped(request) ==
  /\ "at" \in DOMAIN request
  /\ request.at \in {"idle"} \cup ConfigPlaces \cup ResolutionPlaces
  /\ request.at \in ConfigPlaces =>
       /\ {"operation", "command", "occurred"} \subseteq DOMAIN request
       /\ request.operation \in ConfigOperations
       /\ request.command \in ConfigCommandsOf[request.operation]
  /\ request.at \in ResolutionPlaces =>
       /\ {"time", "cached", "result", "ended", "lasting"} \subseteq DOMAIN request
       /\ request.time \in ConfigAsked

\* What a command holds at each place: its locks, what it has checked under them, and its
\* receipt.
CommandHolds(request) ==
  /\ request.at \in ConfigLocks => \A p \in receipts : p.operation # request.operation
  /\ request.at = "checked" => PassesConfig(request.command, request.occurred)
  /\ request.at = "stored" =>
       [operation |-> request.operation, command |-> request.command] \in receipts

\* What was listed stays true though more is activated and terminated: an activation is
\* answered with the end it has, or with the one it was given unless it had been terminated
\* before the question.
AnswerHolds(result, time, ended, lasting) ==
  /\ result.source = "activation" => \E a \in activations :
       /\ a.id = result.id /\ a.from <= time /\ time < result.to
       /\ \/ result.to = EndGiven(terminations, a)
          \/ result.to = a.to /\ a.id \notin ended
  /\ \A a \in activations :
       (/\ a.scope \in DOMAIN ConfigPriority /\ a.id \in lasting
        /\ a.from <= time /\ time < EndGiven(terminations, a)) =>
          /\ result.source = "activation"
          /\ ConfigPriority[a.scope] <= ConfigPriority[result.scope]

ResolutionHolds(request) ==
  /\ request.at \in ResolutionPlaces =>
       /\ \A i \in request.ended : \E t \in terminations : t.activation = i
       /\ \A i \in request.lasting : \E a \in activations : a.id = i
  /\ request.at = "listed" =>
       AnswerHolds(request.result, request.time, request.ended, request.lasting)

\* Two commands that may not both be past their checks: each takes the lock of what the
\* other reads.
MeetGiven(known, c, d) ==
  \/ {c.kind, d.kind} \subseteq {"save", "publish"}
  \/ {c.kind, d.kind} \subseteq {"register", "value"}
  \/ c.kind = "activate" /\ d.kind = "activate" /\ (c.scope = d.scope \/ c.id = d.id)
  \/ c.kind = "activate" /\ d.kind = "terminate" /\
       \E a \in known : a.id = d.activation /\ a.scope = c.scope
  \/ d.kind = "activate" /\ c.kind = "terminate" /\
       \E a \in known : a.id = c.activation /\ a.scope = d.scope
  \/ c.kind = "terminate" /\ d.kind = "terminate" /\ c.activation = d.activation

Meet(c, d) == MeetGiven(activations, c, d)

ConfigApart ==
  \A q, r \in ConfigCallers : q # r =>
    /\ configCalls[q].at \in ConfigLocks /\ configCalls[r].at \in ConfigLocks =>
         configCalls[q].operation # configCalls[r].operation
    /\ configCalls[q].at = "checked" /\ configCalls[r].at = "checked" =>
         ~Meet(configCalls[q].command, configCalls[r].command)

ConfigHolds(request) == ConfigShaped(request) /\ CommandHolds(request) /\ ResolutionHolds(request)

ConfigInv ==
  /\ ConfigFactsInv /\ ConfigApart
  /\ configTime \in Nat
  /\ DOMAIN configCalls = ConfigCallers
  /\ \A r \in ConfigCallers : ConfigHolds(configCalls[r])

-----------------------------------------------------------------------------

\* What the invariant says of the ends.
LEMMA EndsAre ==
  ASSUME TimelineInv, NEW a \in activations
  PROVE  /\ (\A t \in terminations : t.activation # a.id) => EndGiven(terminations, a) = a.to
         /\ \A t \in terminations : t.activation = a.id => EndGiven(terminations, a) = t.to
         /\ EndGiven(terminations, a) \in Nat /\ EndGiven(terminations, a) <= a.to
         /\ a.from < EndGiven(terminations, a)
<1>1. /\ a.to \in Nat /\ a.from \in Nat /\ a.from < a.to
      /\ \A t \in terminations : t.activation = a.id =>
           t.to \in Nat /\ t.to <= a.to /\ a.from < t.to
      /\ \A t, u \in terminations : t.activation = u.activation => t = u
  BY DEF TimelineInv
<1>2. /\ (\A t \in terminations : t.activation # a.id) => EndGiven(terminations, a) = a.to
      /\ \A t \in terminations : t.activation = a.id => EndGiven(terminations, a) = t.to
      /\ EndGiven(terminations, a) \in Nat /\ EndGiven(terminations, a) <= a.to
  BY <1>1, EndGivenIs
<1> QED BY <1>1, <1>2

\* A termination of another activation leaves an end as it is.
LEMMA EndsStay ==
  ASSUME NEW ends, NEW a, NEW t, t.activation # a.id
  PROVE  EndGiven(ends \cup {t}, a) = EndGiven(ends, a)
<1>1. {u \in ends \cup {t} : u.activation = a.id} = {u \in ends : u.activation = a.id}
  OBVIOUS
<1> QED BY <1>1 DEF EndGiven

-----------------------------------------------------------------------------
(* A request moves.                                                        *)

LEMMA ConfigGoesTo ==
  ASSUME NEW request, ConfigShaped(request), request.at \in ConfigPlaces, NEW to \in ConfigPlaces
  PROVE  /\ [request EXCEPT !.at = to].at = to
         /\ [request EXCEPT !.at = to].operation = request.operation
         /\ [request EXCEPT !.at = to].command = request.command
         /\ [request EXCEPT !.at = to].occurred = request.occurred
         /\ ConfigShaped([request EXCEPT !.at = to])
BY DEF ConfigShaped, ConfigPlaces, ConfigLocks, ResolutionPlaces

\* One command goes on; the other requests stay where they are.
LEMMA ConfigMoves ==
  ASSUME ConfigInv, NEW r \in ConfigCallers, configCalls[r].at \in ConfigPlaces,
         NEW to \in ConfigPlaces, ConfigGoes(r, to)
  PROVE  /\ DOMAIN configCalls' = ConfigCallers
         /\ \A q \in ConfigCallers : q # r => configCalls'[q] = configCalls[q]
         /\ ConfigShaped(configCalls'[r])
         /\ configCalls'[r].at = to /\ configCalls'[r].operation = configCalls[r].operation
         /\ configCalls'[r].command = configCalls[r].command
         /\ configCalls'[r].occurred = configCalls[r].occurred
<1> DEFINE next == [configCalls[r] EXCEPT !.at = to]
<1>1. ConfigShaped(configCalls[r]) /\ DOMAIN configCalls = ConfigCallers
  BY DEF ConfigInv, ConfigHolds
<1>2. configCalls' = [configCalls EXCEPT ![r] = next]
  BY DEF ConfigGoes
<1>3. /\ next.at = to /\ next.operation = configCalls[r].operation
      /\ next.command = configCalls[r].command /\ next.occurred = configCalls[r].occurred
      /\ ConfigShaped(next)
  BY <1>1, ConfigGoesTo
<1> HIDE DEF next
<1>4. /\ DOMAIN configCalls' = ConfigCallers /\ configCalls'[r] = next
      /\ \A q \in ConfigCallers : q # r => configCalls'[q] = configCalls[q]
  BY <1>1, <1>2
<1> QED BY <1>3, <1>4

\* With the facts and the receipts as they are, the others hold what they held.
LEMMA ConfigRests ==
  ASSUME ConfigInv, UNCHANGED <<configFacts, receipts>>, NEW q \in ConfigCallers,
         configCalls'[q] = configCalls[q]
  PROVE  ConfigHolds(configCalls[q])'
<1>1. ConfigShaped(configCalls[q])'
  BY DEF ConfigInv, ConfigHolds, ConfigShaped
<1>2. CommandHolds(configCalls[q])'
  <2>1. PassesConfig(configCalls[q].command, configCalls[q].occurred) <=>
        PassesConfig(configCalls[q].command, configCalls[q].occurred)'
    BY DEF PassesConfig, KeepsCodes, EndOf, configFacts
  <2>2. CommandHolds(configCalls[q])
    BY DEF ConfigInv, ConfigHolds
  <2> QED BY <2>1, <2>2 DEF CommandHolds
<1>3. ResolutionHolds(configCalls[q])'
  BY DEF ConfigInv, ConfigHolds, ResolutionHolds, AnswerHolds, configFacts
<1> QED BY <1>1, <1>2, <1>3 DEF ConfigHolds

LEMMA FactsRest ==
  ASSUME ConfigFactsInv, UNCHANGED <<configFacts, receipts, configApplied>>
  PROVE  ConfigFactsInv' /\ \A c, d : Meet(c, d)' <=> Meet(c, d)
BY DEF ConfigFactsInv, DictionaryInv, ParameterInv, TimelineInv, ReceiptsInv, Meet, MeetGiven, configFacts

\* A step of one request that stores nothing.
LEMMA ConfigMovesOn ==
  ASSUME ConfigInv, NEW r \in ConfigCallers, UNCHANGED <<configFacts, receipts, configApplied, configTime>>,
         DOMAIN configCalls' = ConfigCallers,
         \A q \in ConfigCallers : q # r => configCalls'[q] = configCalls[q],
         ConfigHolds(configCalls[r])',
         configCalls'[r].at \in ConfigLocks => \A q \in ConfigCallers \ {r} :
           configCalls[q].at \in ConfigLocks => configCalls[q].operation # configCalls'[r].operation,
         configCalls'[r].at = "checked" => \A q \in ConfigCallers \ {r} :
           configCalls[q].at = "checked" => ~Meet(configCalls[q].command, configCalls'[r].command)
  PROVE  ConfigInv'
<1>1. \A q \in ConfigCallers : ConfigHolds(configCalls[q])'
  <2> SUFFICES ASSUME NEW q \in ConfigCallers, q # r PROVE ConfigHolds(configCalls[q])'
    OBVIOUS
  <2> QED BY ConfigRests
<1>2. ConfigFactsInv' /\ \A c, d : Meet(c, d)' <=> Meet(c, d)
  BY FactsRest DEF ConfigInv
<1>3. \A c, d : Meet(c, d) <=> Meet(d, c)
  BY DEF Meet, MeetGiven
<1>4. ConfigApart'
  <2> SUFFICES ASSUME NEW p \in ConfigCallers, NEW q \in ConfigCallers, p # q
               PROVE  /\ configCalls'[p].at \in ConfigLocks /\ configCalls'[q].at \in ConfigLocks =>
                           configCalls'[p].operation # configCalls'[q].operation
                      /\ configCalls'[p].at = "checked" /\ configCalls'[q].at = "checked" =>
                           ~Meet(configCalls'[p].command, configCalls'[q].command)
    BY <1>2 DEF ConfigApart, Meet, MeetGiven, configFacts
  <2>1. CASE p = r
    <3>1. configCalls'[q] = configCalls[q]
      BY <2>1
    <3> QED BY <1>3, <2>1, <3>1
  <2>2. CASE q = r
    <3>1. configCalls'[p] = configCalls[p]
      BY <2>2
    <3> QED BY <2>2, <3>1
  <2>3. CASE p # r /\ q # r
    <3>1. configCalls'[p] = configCalls[p] /\ configCalls'[q] = configCalls[q]
      BY <2>3
    <3> QED BY <3>1 DEF ConfigInv, ConfigApart
  <2> QED BY <2>1, <2>2, <2>3
<1> QED BY <1>1, <1>2, <1>4 DEF ConfigInv

-----------------------------------------------------------------------------
(* The steps that store nothing.                                           *)

\* What the invariant says of one request.
LEMMA ConfigRequestIs ==
  ASSUME ConfigInv, NEW r \in ConfigCallers
  PROVE  /\ ConfigHolds(configCalls[r]) /\ ConfigShaped(configCalls[r])
         /\ CommandHolds(configCalls[r]) /\ ResolutionHolds(configCalls[r])
BY DEF ConfigInv, ConfigHolds

LEMMA SubmitConfigKeeps ==
  ASSUME ConfigInv, NEW r \in ConfigCallers, NEW o \in ConfigOperations,
         NEW c \in ConfigCommandsOf[o], SubmitConfig(r, o, c)
  PROVE  ConfigInv'
<1> DEFINE next == [at |-> "submitted", operation |-> o, command |-> c, occurred |-> configTime]
<1>1. /\ UNCHANGED <<configFacts, receipts, configApplied, configTime>>
      /\ DOMAIN configCalls' = ConfigCallers /\ configCalls'[r] = next
      /\ \A q \in ConfigCallers : q # r => configCalls'[q] = configCalls[q]
  BY DEF SubmitConfig, ConfigInv
<1>2. ConfigHolds(configCalls[r])'
  BY <1>1 DEF ConfigHolds, ConfigShaped, CommandHolds, ResolutionHolds, ConfigPlaces, ConfigLocks,
              ResolutionPlaces
<1>3. configCalls'[r].at \notin ConfigLocks /\ configCalls'[r].at # "checked"
  BY <1>1 DEF ConfigLocks
<1> QED BY <1>1, <1>2, <1>3, ConfigMovesOn

\* The request leaves, with or without an answer.
LEMMA LeavingKeeps ==
  ASSUME ConfigInv, NEW r \in ConfigCallers,
         configCalls' = [configCalls EXCEPT ![r] = NoConfigCall],
         UNCHANGED <<configFacts, receipts, configApplied, configTime>>
  PROVE  ConfigInv'
<1>1. /\ DOMAIN configCalls' = ConfigCallers /\ configCalls'[r] = NoConfigCall
      /\ \A q \in ConfigCallers : q # r => configCalls'[q] = configCalls[q]
  BY DEF ConfigInv
<1>2. ConfigHolds(configCalls[r])'
  BY <1>1 DEF ConfigHolds, ConfigShaped, CommandHolds, ResolutionHolds, ConfigPlaces, ConfigLocks,
              ResolutionPlaces, NoConfigCall
<1>3. configCalls'[r].at \notin ConfigLocks /\ configCalls'[r].at # "checked"
  BY <1>1 DEF ConfigLocks, NoConfigCall
<1> QED BY <1>1, <1>2, <1>3, ConfigMovesOn

\* A command goes on without storing: to its lock, to its receipt or to an error.
LEMMA GoingKeeps ==
  ASSUME ConfigInv, NEW r \in ConfigCallers, configCalls[r].at \in ConfigPlaces,
         NEW to \in ConfigPlaces, ConfigGoes(r, to),
         UNCHANGED <<configFacts, receipts, configApplied, configTime>>,
         to \in ConfigLocks =>
           /\ \A p \in receipts : p.operation # configCalls[r].operation
           /\ \A q \in ConfigCallers \ {r} : configCalls[q].at \in ConfigLocks =>
                configCalls[q].operation # configCalls[r].operation,
         to = "checked" =>
           /\ PassesConfig(configCalls[r].command, configCalls[r].occurred)
           /\ \A q \in ConfigCallers \ {r} : configCalls[q].at = "checked" =>
                ~Meet(configCalls[q].command, configCalls[r].command),
         to = "stored" =>
           [operation |-> configCalls[r].operation, command |-> configCalls[r].command] \in receipts
  PROVE  ConfigInv'
<1>1. /\ DOMAIN configCalls' = ConfigCallers
      /\ \A q \in ConfigCallers : q # r => configCalls'[q] = configCalls[q]
      /\ ConfigShaped(configCalls'[r])
      /\ configCalls'[r].at = to /\ configCalls'[r].operation = configCalls[r].operation
      /\ configCalls'[r].command = configCalls[r].command
      /\ configCalls'[r].occurred = configCalls[r].occurred
  BY ConfigMoves
<1>2. ConfigHolds(configCalls[r])'
  <2>1. ConfigShaped(configCalls[r])'
    BY <1>1 DEF ConfigShaped
  <2>2. CommandHolds(configCalls[r])'
    <3>1. PassesConfig(configCalls[r].command, configCalls[r].occurred) =>
          PassesConfig(configCalls[r].command, configCalls[r].occurred)'
      BY <1>1 DEF PassesConfig, KeepsCodes, EndOf, configFacts
    <3> QED BY <1>1, <3>1 DEF CommandHolds
  <2>3. ResolutionHolds(configCalls[r])'
    BY <1>1 DEF ResolutionHolds, ResolutionPlaces, ConfigPlaces, ConfigLocks
  <2> QED BY <2>1, <2>2, <2>3 DEF ConfigHolds
<1> QED BY <1>1, <1>2, ConfigMovesOn

LEMMA BeginConfigKeeps ==
  ASSUME ConfigInv, NEW r \in ConfigCallers, BeginConfig(r)
  PROVE  ConfigInv'
<1> DEFINE to == IF ReceiptOf(configCalls[r].operation) = {} THEN "locked"
                 ELSE IF \E p \in ReceiptOf(configCalls[r].operation) : p.command = ConfigCommand(r)
                 THEN "stored" ELSE "failing"
<1>1. /\ configCalls[r].at = "submitted" /\ ConfigGoes(r, to)
      /\ ~OperationLocked(configCalls[r].operation)
      /\ UNCHANGED <<configFacts, receipts, configApplied, configTime>>
  BY DEF BeginConfig, ConfigAt
<1>2. to \in ConfigPlaces /\ to # "checked" /\ configCalls[r].at \in ConfigPlaces
  BY <1>1 DEF ConfigPlaces, ConfigLocks
<1>3. to \in ConfigLocks =>
        /\ \A p \in receipts : p.operation # configCalls[r].operation
        /\ \A q \in ConfigCallers \ {r} : configCalls[q].at \in ConfigLocks =>
             configCalls[q].operation # configCalls[r].operation
  BY <1>1 DEF ConfigLocks, ReceiptOf, OperationLocked
<1>4. to = "stored" =>
        [operation |-> configCalls[r].operation, command |-> configCalls[r].command] \in receipts
  <2>1. \A p \in receipts : p = [operation |-> p.operation, command |-> p.command]
    BY DEF ConfigInv, ConfigFactsInv, ReceiptsInv
  <2> SUFFICES ASSUME NEW p \in receipts, p.operation = configCalls[r].operation,
                      p.command = configCalls[r].command
               PROVE  [operation |-> p.operation, command |-> p.command] \in receipts
    BY DEF ReceiptOf, ConfigCommand
  <2> QED BY <2>1
<1> HIDE DEF to
<1> QED BY <1>1, <1>2, <1>3, <1>4, GoingKeeps

LEMMA KindsAre ==
  ASSUME ConfigInv, NEW r \in ConfigCallers, configCalls[r].at \in ConfigPlaces
  PROVE  LET c == configCalls[r].command IN
         /\ c.kind \in ConfigKinds
         /\ c.kind = "save" => c.expected \in Nat
         /\ c.kind = "publish" => c.expected \in Nat \ {0}
         /\ c.kind = "activate" => c.from \in Nat /\ c.to \in Nat /\ c.from < c.to
         /\ c.kind = "terminate" => c.to \in Nat
<1>1. /\ configCalls[r].operation \in ConfigOperations
      /\ configCalls[r].command \in ConfigCommandsOf[configCalls[r].operation]
  BY ConfigRequestIs DEF ConfigShaped
<1>2. MaxConfigTime \in Nat /\ Unbounded \in Nat
  BY BusinessConfigurationAssumption DEF Unbounded
<1> QED BY <1>1, <1>2, BusinessConfigurationAssumption

\* Commands that may not both be past their checks take the same lock or insert the same key.
LEMMA ResourcesMeet ==
  ASSUME TimelineInv, NEW c, NEW d, c.kind \in ConfigKinds, d.kind \in ConfigKinds,
         c.kind = "terminate" => \E a \in activations : a.id = c.activation,
         d.kind = "terminate" => \E a \in activations : a.id = d.activation,
         Meet(d, c)
  PROVE  \/ ResourceOf(d) = ResourceOf(c)
         \/ c.kind = "activate" /\ d.kind = "activate" /\ c.id = d.id
<1>1. \A x : x.kind \in {"save", "publish"} => ResourceOf(x) = <<"dictionary">>
  BY DEF ResourceOf
<1>2. \A x : x.kind \in {"register", "value"} => ResourceOf(x) = <<"parameter">>
  BY DEF ResourceOf
<1>3. \A x : x.kind = "activate" => ResourceOf(x) = <<"activation", x.scope>>
  BY DEF ResourceOf
<1>4. \A x : \A a \in activations : x.kind = "terminate" /\ a.id = x.activation =>
        ResourceOf(x) = <<"activation", a.scope>>
  <2> SUFFICES ASSUME NEW x, NEW a \in activations, x.kind = "terminate", a.id = x.activation
               PROVE  ResourceOf(x) = <<"activation", a.scope>>
    OBVIOUS
  <2>1. (CHOOSE b \in activations : b.id = x.activation) = a
    BY DEF TimelineInv
  <2>2. ResourceOf(x) = <<"activation", (CHOOSE b \in activations : b.id = x.activation).scope>>
    BY DEF ResourceOf
  <2> QED BY <2>1, <2>2
<1>5. CASE {d.kind, c.kind} \subseteq {"save", "publish"}
  BY <1>1, <1>5
<1>6. CASE {d.kind, c.kind} \subseteq {"register", "value"}
  BY <1>2, <1>6
<1>7. CASE d.kind = "activate" /\ c.kind = "activate" /\ (d.scope = c.scope \/ d.id = c.id)
  BY <1>3, <1>7
<1>8. CASE d.kind = "activate" /\ c.kind = "terminate" /\
             \E a \in activations : a.id = c.activation /\ a.scope = d.scope
  BY <1>3, <1>4, <1>8
<1>9. CASE c.kind = "activate" /\ d.kind = "terminate" /\
             \E a \in activations : a.id = d.activation /\ a.scope = c.scope
  BY <1>3, <1>4, <1>9
<1>10. CASE d.kind = "terminate" /\ c.kind = "terminate" /\ d.activation = c.activation
  <2>1. PICK a \in activations : a.id = c.activation
    BY <1>10
  <2> QED BY <1>4, <1>10, <2>1
<1> QED BY <1>5, <1>6, <1>7, <1>8, <1>9, <1>10 DEF Meet, MeetGiven

LEMMA CheckConfigKeeps ==
  ASSUME ConfigInv, NEW r \in ConfigCallers, CheckConfig(r)
  PROVE  ConfigInv'
<1> DEFINE c == configCalls[r].command
           passes == Locks(c) /\ PassesConfig(c, configCalls[r].occurred)
           to == IF passes THEN "checked" ELSE "failing"
<1>1. /\ configCalls[r].at = "locked" /\ ConfigGoes(r, to)
      /\ Locks(c) => ~ResourceLocked(c)
      /\ UNCHANGED <<configFacts, receipts, configApplied, configTime>>
  BY DEF CheckConfig, ConfigAt, ConfigCommand
<1>2. to \in ConfigPlaces /\ to # "stored" /\ configCalls[r].at \in ConfigLocks
      /\ configCalls[r].at \in ConfigPlaces
  BY <1>1 DEF ConfigPlaces, ConfigLocks
<1>3. /\ \A p \in receipts : p.operation # configCalls[r].operation
      /\ \A q \in ConfigCallers \ {r} : configCalls[q].at \in ConfigLocks =>
           configCalls[q].operation # configCalls[r].operation
  BY <1>2, ConfigRequestIs DEF CommandHolds, ConfigInv, ConfigApart
<1>4. ASSUME passes, NEW q \in ConfigCallers \ {r}, configCalls[q].at = "checked"
      PROVE  ~Meet(configCalls[q].command, c)
  <2> DEFINE d == configCalls[q].command
  <2>1. TimelineInv /\ c.kind \in ConfigKinds
    BY <1>2, KindsAre DEF ConfigInv, ConfigFactsInv
  <2>2. d.kind \in ConfigKinds
    BY <1>4, KindsAre DEF ConfigPlaces, ConfigLocks
  <2>3. PassesConfig(d, configCalls[q].occurred)
    BY <1>4, ConfigRequestIs DEF CommandHolds
  <2>4. d.kind = "terminate" => \E a \in activations : a.id = d.activation
    BY <2>3 DEF PassesConfig
  <2>5. c.kind = "terminate" => \E a \in activations : a.id = c.activation
    BY <1>4 DEF Locks
  <2>6. /\ ResourceOf(d) # ResourceOf(c)
        /\ ~(c.kind = "activate" /\ d.kind = "activate" /\ c.id = d.id)
    BY <1>1, <1>4 DEF ResourceLocked, ConfigAt, ConfigCommand
  <2> HIDE DEF c, d
  <2>7. ~Meet(d, c)
    BY <2>1, <2>2, <2>4, <2>5, <2>6, ResourcesMeet
  <2> QED BY <2>7 DEF d
<1>5. to = "checked" => passes
  OBVIOUS
<1> HIDE DEF to
<1> QED BY <1>1, <1>2, <1>3, <1>4, <1>5, GoingKeeps

LEMMA ConfigTickKeeps ==
  ASSUME ConfigInv, ConfigTick
  PROVE  ConfigInv'
<1>1. UNCHANGED <<configFacts, receipts, configCalls, configApplied>> /\ configTime' = configTime + 1
  BY DEF ConfigTick
<1>2. ConfigFactsInv' /\ \A c, d : Meet(c, d)' <=> Meet(c, d)
  BY <1>1, FactsRest DEF ConfigInv
<1>3. \A q \in ConfigCallers : ConfigHolds(configCalls[q])'
  BY <1>1, ConfigRests
<1>4. ConfigApart'
  BY <1>1 DEF ConfigInv, ConfigApart, Meet, MeetGiven, configFacts
<1> QED BY <1>1, <1>2, <1>3, <1>4 DEF ConfigInv

-----------------------------------------------------------------------------
(* A resolution.                                                           *)

\* A resolution goes on: nothing is stored, and no command is concerned.
LEMMA ResolvingKeeps ==
  ASSUME ConfigInv, NEW r \in ConfigCallers, NEW next,
         configCalls' = [configCalls EXCEPT ![r] = next],
         UNCHANGED <<configFacts, receipts, configApplied, configTime>>,
         next.at \in ResolutionPlaces, ConfigShaped(next), ResolutionHolds(next)
  PROVE  ConfigInv'
<1>1. /\ DOMAIN configCalls' = ConfigCallers /\ configCalls'[r] = next
      /\ \A q \in ConfigCallers : q # r => configCalls'[q] = configCalls[q]
  BY DEF ConfigInv
<1>2. next.at \notin ConfigLocks /\ next.at # "checked" /\ next.at # "stored"
  BY DEF ConfigLocks, ResolutionPlaces
<1>3. ConfigHolds(configCalls[r])'
  <2>1. ConfigShaped(configCalls[r])'
    BY <1>1 DEF ConfigShaped
  <2>2. CommandHolds(configCalls[r])'
    BY <1>1, <1>2 DEF CommandHolds
  <2>3. ResolutionHolds(configCalls[r])'
    BY <1>1 DEF ResolutionHolds, AnswerHolds, configFacts
  <2> QED BY <2>1, <2>2, <2>3 DEF ConfigHolds
<1> QED BY <1>1, <1>2, <1>3, ConfigMovesOn

LEMMA AskResolutionKeeps ==
  ASSUME ConfigInv, NEW r \in ConfigCallers, NEW at \in ConfigAsked, AskResolution(r, at),
         UNCHANGED <<configFacts, receipts, configTime, configApplied>>
  PROVE  ConfigInv'
<1>1. PICK entry : configCalls' = [configCalls EXCEPT ![r] = [at |-> "cached", time |-> at,
            cached |-> entry, result |-> NoResolution,
            ended |-> {u.activation : u \in terminations},
            lasting |-> {a.id : a \in InForceAt(at)}]]
  BY DEF AskResolution
<1> DEFINE next == [at |-> "cached", time |-> at, cached |-> entry, result |-> NoResolution,
                    ended |-> {u.activation : u \in terminations},
                    lasting |-> {a.id : a \in InForceAt(at)}]
<1>2. ConfigShaped(next) /\ next.at = "cached"
  BY DEF ConfigShaped, ConfigPlaces, ConfigLocks, ResolutionPlaces
<1>3. InForceAt(at) \subseteq activations
  BY DEF InForceAt, EffectiveAt
<1>4. ResolutionHolds(next)
  BY <1>3 DEF ResolutionHolds
<1>5. configCalls' = [configCalls EXCEPT ![r] = next]
  BY <1>1
<1>6. next.at \in ResolutionPlaces
  BY DEF ResolutionPlaces
<1> HIDE DEF next
<1> QED BY <1>2, <1>4, <1>5, <1>6, ResolvingKeeps

\* What the database says is in force, and nothing of a higher scope is.
LEMMA ResolvedIs ==
  ASSUME TimelineInv, NEW time, NEW ended, NEW lasting
  PROVE  AnswerHolds(ResolvedAt(time), time, ended, lasting)
<1> DEFINE force == InForceAt(time)
<1>1. \A a : a \in force <=> /\ a \in activations /\ a.scope \in DOMAIN ConfigPriority
                             /\ a.from <= time /\ time < EndGiven(terminations, a)
  BY EndOfIs DEF InForceAt, EffectiveAt
<1>2. CASE force = {}
  <2>1. ResolvedAt(time).source = "default"
    BY <1>2 DEF ResolvedAt
  <2> QED BY <1>1, <1>2, <2>1 DEF AnswerHolds
<1>3. CASE force # {}
  <2> DEFINE best(b) == \A c \in force : ConfigPriority[c.scope] <= ConfigPriority[b.scope]
             a == CHOOSE b \in force : best(b)
             T == {ConfigPriority[c.scope] : c \in force}
  <2>a. ConfigPriority \in [DOMAIN ConfigPriority -> 0 .. 1000]
    BY BusinessConfigurationAssumption
  <2>b. \A c \in force : ConfigPriority[c.scope] \in 0 .. 1000
    BY <1>1, <2>a
  <2>1. T \subseteq 0 .. 1000 /\ T # {}
    <3> HIDE DEF force
    <3> QED BY <1>3, <2>b
  <2>2. \E m \in T : \A k \in T : k <= m
    <3> HIDE DEF T
    <3>1. T \in SUBSET (0 .. 1000)
      BY <2>1
    <3> QED BY <2>1, <3>1, HighestExists
  <2>3. \E b \in force : best(b)
    BY <2>2
  <2>4. a \in force /\ best(a)
    <3> HIDE DEF force, best
    <3> QED BY <2>3
  <2>5. ResolvedAt(time) = [source |-> "activation", id |-> a.id, scope |-> a.scope,
                            to |-> EndGiven(terminations, a), value |-> a.value]
    BY <1>3, EndOfIs DEF ResolvedAt
  <2> HIDE DEF a, force
  <2>6. /\ a \in activations /\ a.from <= time /\ time < EndGiven(terminations, a)
        /\ ResolvedAt(time).source = "activation" /\ ResolvedAt(time).id = a.id
        /\ ResolvedAt(time).scope = a.scope /\ ResolvedAt(time).to = EndGiven(terminations, a)
    BY <1>1, <2>4, <2>5
  <2>7. \A b \in activations : b.scope \in DOMAIN ConfigPriority /\ b.from <= time
          /\ time < EndGiven(terminations, b) => ConfigPriority[b.scope] <= ConfigPriority[a.scope]
    BY <1>1, <2>4
  <2> QED BY <2>6, <2>7 DEF AnswerHolds
<1> QED BY <1>2, <1>3

LEMMA ListActivationsKeeps ==
  ASSUME ConfigInv, NEW r \in ConfigCallers, ListActivations(r),
         UNCHANGED <<configFacts, receipts, configTime, configApplied>>
  PROVE  ConfigInv'
<1> DEFINE call == configCalls[r]
           answer == ResolvedAt(call.time)
           next == [call EXCEPT !.at = "listed", !.result = answer]
<1>1. call.at = "cached" /\ configCalls' = [configCalls EXCEPT ![r] = next]
  BY DEF ListActivations, ConfigAt, ConfigInv
<1>2. ConfigShaped(call) /\ ResolutionHolds(call) /\ TimelineInv
  BY ConfigRequestIs DEF ConfigInv, ConfigFactsInv
<1>3. AnswerHolds(answer, call.time, call.ended, call.lasting)
  BY <1>2, ResolvedIs
<1> HIDE DEF answer, call
<1>4. /\ next.at = "listed" /\ next.result = answer /\ next.time = call.time
      /\ next.ended = call.ended /\ next.lasting = call.lasting /\ DOMAIN next = DOMAIN call
  BY <1>1, <1>2 DEF ConfigShaped, ResolutionPlaces
<1> HIDE DEF next
<1>5. next.at \in ResolutionPlaces
  BY <1>4 DEF ResolutionPlaces
<1>6. ConfigShaped(next)
  BY <1>1, <1>2, <1>4 DEF ConfigShaped, ResolutionPlaces, ConfigPlaces, ConfigLocks
<1>7. ResolutionHolds(next)
  BY <1>1, <1>2, <1>3, <1>4 DEF ResolutionHolds, ResolutionPlaces
<1> QED BY <1>1, <1>5, <1>6, <1>7, ResolvingKeeps

LEMMA ResolutionKeeps ==
  ASSUME ConfigInv, Resolution
  PROVE  ConfigInv'
<1>1. UNCHANGED <<configFacts, receipts, configTime, configApplied>>
  BY DEF Resolution
<1>2. ASSUME NEW at \in ConfigAsked, LoseEntry(at)
      PROVE  ConfigInv'
  <2>1. UNCHANGED configCalls
    BY <1>2 DEF LoseEntry
  <2>2. ConfigFactsInv' /\ \A c, d : Meet(c, d)' <=> Meet(c, d)
    BY <1>1, FactsRest DEF ConfigInv
  <2>3. \A q \in ConfigCallers : ConfigHolds(configCalls[q])'
    BY <1>1, <2>1, ConfigRests
  <2>4. ConfigApart'
    BY <1>1, <2>1 DEF ConfigInv, ConfigApart, Meet, MeetGiven, configFacts
  <2> QED BY <1>1, <2>1, <2>2, <2>3, <2>4 DEF ConfigInv
<1>3. ASSUME NEW r \in ConfigCallers, EndResolution(r)
      PROVE  ConfigInv'
  <2>1. configCalls' = [configCalls EXCEPT ![r] = NoConfigCall]
    BY <1>3 DEF EndResolution
  <2> QED BY <1>1, <2>1, LeavingKeeps
<1>4. \/ \E at \in ConfigAsked : LoseEntry(at)
      \/ \E r \in ConfigCallers :
           \/ \E at \in ConfigAsked : AskResolution(r, at)
           \/ ListActivations(r) \/ EndResolution(r)
  BY DEF Resolution
<1> QED BY <1>1, <1>2, <1>3, <1>4, AskResolutionKeeps, ListActivationsKeeps

-----------------------------------------------------------------------------
(* A commit.                                                               *)

\* What a command has checked, by its kind.
LEMMA PassesIs ==
  ASSUME NEW c, NEW x, PassesConfig(c, x)
  PROVE  /\ c.kind = "save" => dictionary.revision = c.expected
         /\ c.kind = "publish" => dictionary.revision = c.expected /\ KeepsCodes(dictionary.items)
         /\ c.kind = "register" => ~registered
         /\ c.kind = "value" => registered
         /\ c.kind = "activate" =>
              /\ \A a \in activations : a.scope = c.scope =>
                   EndGiven(terminations, a) <= c.from \/ c.to <= a.from
              /\ \A a \in activations : a.id # c.id
              /\ c.value \in 1 .. values
         /\ c.kind = "terminate" => \E a \in activations :
              /\ a.id = c.activation /\ c.to >= x /\ c.to > a.from /\ c.to <= a.to
              /\ \A t \in terminations : t.activation # a.id
<1>1. CASE c.kind = "save"
  BY <1>1 DEF PassesConfig
<1>2. CASE c.kind = "publish"
  BY <1>2 DEF PassesConfig
<1>3. CASE c.kind = "register"
  BY <1>3 DEF PassesConfig
<1>4. CASE c.kind = "value"
  BY <1>4 DEF PassesConfig
<1>5. CASE c.kind = "activate"
  BY <1>5, EndOfIs DEF PassesConfig
<1>6. CASE c.kind = "terminate"
  BY <1>6 DEF PassesConfig
<1> QED BY <1>1, <1>2, <1>3, <1>4, <1>5, <1>6

\* A command past its checks stores its facts.
Storing(r) == configCalls[r].at = "checked" /\ StoresConfig(r)

LEMMA StoringIs ==
  ASSUME ConfigInv, NEW r \in ConfigCallers, Storing(r)
  PROVE  LET c == configCalls[r].command IN
         /\ ConfigFactsInv /\ CommandHolds(configCalls[r])
         /\ PassesConfig(c, configCalls[r].occurred) /\ c.kind \in ConfigKinds
         /\ configCalls[r].operation \in ConfigOperations
         /\ c \in ConfigCommandsOf[configCalls[r].operation]
<1>1. ConfigHolds(configCalls[r]) /\ configCalls[r].at \in ConfigPlaces /\ configCalls[r].at = "checked"
  BY ConfigRequestIs DEF Storing, ConfigPlaces, ConfigLocks
<1> QED BY <1>1, KindsAre DEF ConfigHolds, CommandHolds, ConfigShaped, ConfigInv

LEMMA StoringDictionary ==
  ASSUME ConfigInv, NEW r \in ConfigCallers, Storing(r)
  PROVE  DictionaryInv'
<1> DEFINE c == configCalls[r].command
<1>1. /\ DictionaryInv /\ PassesConfig(c, configCalls[r].occurred)
      /\ configCalls[r].operation \in ConfigOperations
      /\ c \in ConfigCommandsOf[configCalls[r].operation]
  BY StoringIs DEF ConfigFactsInv
<1>2. /\ dictionary' = IF c.kind = "save" THEN [revision |-> c.expected + 1, items |-> c.items]
                       ELSE dictionary
      /\ releases' = IF c.kind = "publish"
                     THEN Append(releases, [items |-> dictionary.items, revision |-> c.expected])
                     ELSE releases
  BY DEF Storing, StoresConfig, ConfigCommand
<1>3. c.kind \in {"save", "publish"} => c.expected \in Nat
  BY KindsAre DEF Storing, ConfigPlaces, ConfigLocks
<1>4. c.kind = "save" => c.items \in ConfigItems
  BY <1>1 DEF ConfigItems
<1>5. /\ c.kind = "save" => dictionary.revision = c.expected
      /\ c.kind = "publish" => dictionary.revision = c.expected /\ KeepsCodes(dictionary.items)
  BY <1>1, PassesIs
<1> HIDE DEF c
<1>6. CASE c.kind = "save"
  <2>1. /\ dictionary'.revision = c.expected + 1 /\ dictionary'.items = c.items
        /\ releases' = releases
    BY <1>2, <1>6
  <2>2. \A i \in DOMAIN releases : releases[i].revision \in Nat
    <3>1. \A i \in DOMAIN releases : releases[i] \in ConfigRelease
      BY <1>1 DEF DictionaryInv
    <3> QED BY <3>1 DEF ConfigRelease
  <2> QED BY <1>1, <1>3, <1>4, <1>5, <1>6, <2>1, <2>2 DEF DictionaryInv
<1>7. CASE c.kind = "publish"
  <2> DEFINE new == [items |-> dictionary.items, revision |-> c.expected]
  <2>1. releases' = Append(releases, new) /\ dictionary' = dictionary
    BY <1>2, <1>7
  <2>2. /\ new.items = dictionary.items /\ new.revision = dictionary.revision
        /\ new \in ConfigRelease
    BY <1>1, <1>3, <1>5, <1>7 DEF DictionaryInv, ConfigRelease
  <2>3. \A i \in DOMAIN releases : releases[i].items \subseteq dictionary.items
    BY <1>5, <1>7 DEF KeepsCodes
  <2> HIDE DEF new
  <2>4. releases \in Seq(ConfigRelease)
    BY <1>1 DEF DictionaryInv
  <2>5. /\ releases' \in Seq(ConfigRelease) /\ DOMAIN releases' = 1 .. Len(releases) + 1
        /\ DOMAIN releases = 1 .. Len(releases)
        /\ \A i \in DOMAIN releases : releases'[i] = releases[i]
        /\ releases'[Len(releases) + 1] = new
    BY <2>1, <2>2, <2>4
  <2>6. \A i \in DOMAIN releases' : i = Len(releases) + 1 \/ i \in DOMAIN releases
    BY <2>5
  <2>7. \A i, j \in DOMAIN releases' : i < j => i \in DOMAIN releases
    BY <2>4, <2>5
  <2>8. \A i \in DOMAIN releases' : releases'[i].revision <= dictionary.revision
    BY <1>1, <2>2, <2>5, <2>6 DEF DictionaryInv
  <2>9. \A i, j \in DOMAIN releases' : i < j => /\ releases'[i].items \subseteq releases'[j].items
                                                /\ releases'[i].revision <= releases'[j].revision
    <3> SUFFICES ASSUME NEW i \in DOMAIN releases', NEW j \in DOMAIN releases', i < j
                 PROVE  /\ releases'[i].items \subseteq releases'[j].items
                        /\ releases'[i].revision <= releases'[j].revision
      OBVIOUS
    <3>1. i \in DOMAIN releases /\ releases'[i] = releases[i]
      BY <2>5, <2>7
    <3>2. CASE j \in DOMAIN releases
      BY <1>1, <2>5, <3>1, <3>2 DEF DictionaryInv
    <3>3. CASE j = Len(releases) + 1
      BY <1>1, <2>2, <2>3, <2>5, <3>1, <3>3 DEF DictionaryInv
    <3> QED BY <2>6, <3>2, <3>3
  <2> QED BY <1>1, <2>1, <2>5, <2>8, <2>9 DEF DictionaryInv
<1>8. CASE c.kind \notin {"save", "publish"}
  BY <1>1, <1>2, <1>8 DEF DictionaryInv
<1> QED BY <1>6, <1>7, <1>8

LEMMA StoringParameter ==
  ASSUME ConfigInv, NEW r \in ConfigCallers, Storing(r)
  PROVE  ParameterInv'
<1> DEFINE c == configCalls[r].command
<1>1. ParameterInv /\ PassesConfig(c, configCalls[r].occurred)
  BY StoringIs DEF ConfigFactsInv
<1>2. /\ registered' = (registered \/ c.kind = "register")
      /\ values' = IF c.kind = "value" THEN values + 1 ELSE values
  BY DEF Storing, StoresConfig, ConfigCommand
<1>3. c.kind = "value" => registered
  BY <1>1, PassesIs
<1> HIDE DEF c
<1>4. registered' \in BOOLEAN /\ (registered => registered')
  BY <1>1, <1>2 DEF ParameterInv
<1>5. values' \in Nat /\ (values' > 0 => values > 0 \/ c.kind = "value")
  BY <1>1, <1>2 DEF ParameterInv
<1>6. values > 0 => registered
  BY <1>1 DEF ParameterInv
<1> QED BY <1>3, <1>4, <1>5, <1>6 DEF ParameterInv

LEMMA StoringReceipts ==
  ASSUME ConfigInv, NEW r \in ConfigCallers, Storing(r)
  PROVE  ReceiptsInv'
<1> DEFINE o == configCalls[r].operation
           receipt == [operation |-> o, command |-> configCalls[r].command]
<1>1. ReceiptsInv /\ \A p \in receipts : p.operation # o
  BY StoringIs DEF ConfigFactsInv, CommandHolds, Storing, ConfigLocks
<1>2. receipts' = receipts \cup {receipt} /\ configApplied' = [configApplied EXCEPT ![o] = @ + 1]
  BY DEF Storing, StoresConfig, ConfigCommand
<1>3. o \in ConfigOperations /\ configApplied[o] = 0
  BY <1>1, StoringIs DEF ReceiptsInv
<1>4. receipt = [operation |-> receipt.operation, command |-> receipt.command] /\ receipt.operation = o
  OBVIOUS
<1> HIDE DEF o, receipt
<1>5. /\ DOMAIN configApplied' = ConfigOperations /\ configApplied'[o] = 1
      /\ \A p \in ConfigOperations : p # o => configApplied'[p] = configApplied[p]
  BY <1>1, <1>2, <1>3 DEF ReceiptsInv
<1> QED BY <1>1, <1>2, <1>4, <1>5 DEF ReceiptsInv

\* A new activation is fresh, and its end is its own.
LEMMA ActivateIs ==
  ASSUME ConfigInv, NEW r \in ConfigCallers, Storing(r), configCalls[r].command.kind = "activate"
  PROVE  \E n : LET c == configCalls[r].command IN
           /\ activations' = activations \cup {n} /\ terminations' = terminations
           /\ n.id = c.id /\ n.scope = c.scope /\ n.from = c.from /\ n.to = c.to
           /\ n.from \in Nat /\ n.to \in Nat /\ n.from < n.to
           /\ \A a \in activations : a.id # n.id
           /\ \A t \in terminations : t.activation # n.id
           /\ EndGiven(terminations, n) = n.to
           /\ \A a \in activations : a.scope = n.scope =>
                EndGiven(terminations, a) <= n.from \/ n.to <= a.from
<1> DEFINE c == configCalls[r].command
           n == [id |-> c.id, scope |-> c.scope, from |-> c.from, to |-> c.to, value |-> c.value]
<1>1. TimelineInv /\ PassesConfig(c, configCalls[r].occurred)
  BY StoringIs DEF ConfigFactsInv
<1>2. activations' = activations \cup {n} /\ terminations' = terminations
  BY DEF Storing, StoresConfig, ConfigCommand
<1>3. c.from \in Nat /\ c.to \in Nat /\ c.from < c.to
  BY KindsAre DEF Storing, ConfigPlaces, ConfigLocks
<1>4. /\ \A a \in activations : a.scope = c.scope =>
           EndGiven(terminations, a) <= c.from \/ c.to <= a.from
      /\ \A a \in activations : a.id # c.id
  BY <1>1, PassesIs
<1>5. n.id = c.id /\ n.scope = c.scope /\ n.from = c.from /\ n.to = c.to
  OBVIOUS
<1>6. \A t \in terminations : t.activation # c.id
  BY <1>1, <1>4 DEF TimelineInv
<1> HIDE DEF n
<1>7. EndGiven(terminations, n) = n.to
  <2>1. n.to \in Nat /\ \A t \in terminations : t.activation # n.id
    BY <1>3, <1>5, <1>6
  <2>2. \A t, u \in terminations : t.activation = u.activation => t = u
    BY <1>1 DEF TimelineInv
  <2> QED BY <2>1, <2>2, EndGivenIs
<1> HIDE DEF c
<1> QED BY <1>2, <1>3, <1>4, <1>5, <1>6, <1>7 DEF c

\* A termination ends one activation, which had none, between its begin and its end.
LEMMA TerminateIs ==
  ASSUME ConfigInv, NEW r \in ConfigCallers, Storing(r), configCalls[r].command.kind = "terminate"
  PROVE  \E t : \E a \in activations : LET c == configCalls[r].command IN
           /\ terminations' = terminations \cup {t} /\ activations' = activations
           /\ t.activation = a.id /\ t.activation = c.activation
           /\ t.to \in Nat /\ t.to <= a.to /\ a.from < t.to
           /\ \A u \in terminations : u.activation # a.id
           /\ EndGiven(terminations, a) = a.to /\ EndGiven(terminations', a) = t.to
           /\ \A b \in activations : b # a => EndGiven(terminations', b) = EndGiven(terminations, b)
<1> DEFINE c == configCalls[r].command
           t == [activation |-> c.activation, to |-> c.to]
<1>1. TimelineInv /\ PassesConfig(c, configCalls[r].occurred)
  BY StoringIs DEF ConfigFactsInv
<1>2. terminations' = terminations \cup {t} /\ activations' = activations
  BY DEF Storing, StoresConfig, ConfigCommand
<1>3. c.to \in Nat
  BY KindsAre DEF Storing, ConfigPlaces, ConfigLocks
<1>4. PICK a \in activations : /\ a.id = c.activation /\ c.to > a.from /\ c.to <= a.to
                               /\ \A u \in terminations : u.activation # a.id
  BY <1>1, PassesIs
<1>5. t.activation = a.id /\ t.activation = c.activation /\ t.to = c.to
  BY <1>4
<1>a. a.from \in Nat /\ a.to \in Nat
  BY <1>1 DEF TimelineInv
<1> HIDE DEF t, c
<1>b. t.to \in Nat /\ t.to <= a.to /\ a.from < t.to
  BY <1>3, <1>4, <1>5, <1>a
<1>6. EndGiven(terminations, a) = a.to
  BY <1>1, <1>4, EndsAre
<1>7. EndGiven(terminations', a) = t.to
  <2> DEFINE ends == terminations \cup {t}
  <2>1. \A u \in ends : u.activation = a.id => u.to \in Nat /\ u.to <= a.to
    BY <1>1, <1>4, <1>5, <1>b DEF TimelineInv
  <2>2. \A u, v \in ends : u.activation = v.activation => u = v
    BY <1>1, <1>4, <1>5 DEF TimelineInv
  <2>3. t \in ends /\ a.to \in Nat
    BY <1>a
  <2> HIDE DEF ends
  <2>4. \A u \in ends : u.activation = a.id => EndGiven(ends, a) = u.to
    BY ONLY <2>1, <2>2, <2>3, EndGivenIs
  <2>5. EndGiven(ends, a) = t.to
    BY <1>5, <2>3, <2>4
  <2> QED BY <1>2, <2>5 DEF ends
<1>8. \A b \in activations : b # a => EndGiven(terminations', b) = EndGiven(terminations, b)
  <2> SUFFICES ASSUME NEW b \in activations, b # a
               PROVE  EndGiven(terminations', b) = EndGiven(terminations, b)
    OBVIOUS
  <2>1. t.activation # b.id
    BY <1>1, <1>5 DEF TimelineInv
  <2> QED BY <1>2, <2>1, EndsStay
<1> QED BY <1>2, <1>4, <1>5, <1>6, <1>7, <1>8, <1>b DEF c

LEMMA StoringTimeline ==
  ASSUME ConfigInv, NEW r \in ConfigCallers, Storing(r)
  PROVE  TimelineInv'
<1> DEFINE c == configCalls[r].command
<1>1. TimelineInv
  BY StoringIs DEF ConfigFactsInv
<1>2. CASE c.kind = "activate"
  <2>1. PICK n :
           /\ activations' = activations \cup {n} /\ terminations' = terminations
           /\ n.from \in Nat /\ n.to \in Nat /\ n.from < n.to
           /\ \A a \in activations : a.id # n.id
           /\ \A t \in terminations : t.activation # n.id
           /\ EndGiven(terminations, n) = n.to
           /\ \A a \in activations : a.scope = n.scope =>
                EndGiven(terminations, a) <= n.from \/ n.to <= a.from
    BY <1>2, ActivateIs
  <2>2. \A a, b \in activations' : a # b /\ a.scope = b.scope =>
          EndGiven(terminations, a) <= b.from \/ EndGiven(terminations, b) <= a.from
    BY <1>1, <2>1 DEF TimelineInv
  <2>3. /\ \A a \in activations' : a.from \in Nat /\ a.to \in Nat /\ a.from < a.to
        /\ \A a, b \in activations' : a.id = b.id => a = b
        /\ \A t \in terminations : \E a \in activations' : a.id = t.activation
        /\ \A t \in terminations : \A a \in activations' :
             t.activation = a.id => t.to \in Nat /\ t.to <= a.to /\ a.from < t.to
    BY <1>1, <2>1 DEF TimelineInv
  <2> QED BY <1>1, <2>1, <2>2, <2>3 DEF TimelineInv
<1>3. CASE c.kind = "terminate"
  <2>1. PICK t : \E a \in activations :
           /\ terminations' = terminations \cup {t} /\ activations' = activations
           /\ t.activation = a.id
           /\ t.to \in Nat /\ t.to <= a.to /\ a.from < t.to
           /\ \A u \in terminations : u.activation # a.id
           /\ EndGiven(terminations, a) = a.to /\ EndGiven(terminations', a) = t.to
           /\ \A b \in activations : b # a => EndGiven(terminations', b) = EndGiven(terminations, b)
    BY <1>3, TerminateIs
  <2>2. PICK a \in activations :
           /\ terminations' = terminations \cup {t} /\ activations' = activations
           /\ t.activation = a.id
           /\ t.to \in Nat /\ t.to <= a.to /\ a.from < t.to
           /\ \A u \in terminations : u.activation # a.id
           /\ EndGiven(terminations, a) = a.to /\ EndGiven(terminations', a) = t.to
           /\ \A b \in activations : b # a => EndGiven(terminations', b) = EndGiven(terminations, b)
    BY <2>1
  <2>3. \A b \in activations : /\ EndGiven(terminations', b) \in Nat
                               /\ EndGiven(terminations, b) \in Nat
                               /\ EndGiven(terminations', b) <= EndGiven(terminations, b)
    <3> SUFFICES ASSUME NEW b \in activations
                 PROVE  /\ EndGiven(terminations', b) \in Nat
                        /\ EndGiven(terminations, b) \in Nat
                        /\ EndGiven(terminations', b) <= EndGiven(terminations, b)
      OBVIOUS
    <3>1. EndGiven(terminations, b) \in Nat
      BY <1>1, EndsAre
    <3>2. CASE b = a
      BY <2>2, <3>1, <3>2
    <3>3. CASE b # a
      <4>1. EndGiven(terminations', b) = EndGiven(terminations, b)
        BY <2>2, <3>3
      <4> QED BY <3>1, <4>1
    <3> QED BY <3>2, <3>3
  <2>4. \A x, y \in activations : x # y /\ x.scope = y.scope =>
          EndGiven(terminations', x) <= y.from \/ EndGiven(terminations', y) <= x.from
    BY <1>1, <2>3 DEF TimelineInv
  <2>5. /\ \A u, v \in terminations' : u.activation = v.activation => u = v
        /\ \A u \in terminations' : \E x \in activations : x.id = u.activation
    BY <1>1, <2>2 DEF TimelineInv
  <2>6. \A u \in terminations' : \A x \in activations :
          u.activation = x.id => u.to \in Nat /\ u.to <= x.to /\ x.from < u.to
    BY <1>1, <2>2 DEF TimelineInv
  <2>7. /\ \A x \in activations : x.from \in Nat /\ x.to \in Nat /\ x.from < x.to
        /\ \A x, y \in activations : x.id = y.id => x = y
    BY <1>1 DEF TimelineInv
  <2> QED BY <2>2, <2>4, <2>5, <2>6, <2>7 DEF TimelineInv
<1>4. CASE c.kind \notin {"activate", "terminate"}
  <2>1. activations' = activations /\ terminations' = terminations
    BY <1>4 DEF Storing, StoresConfig, ConfigCommand
  <2> QED BY <1>1, <2>1 DEF TimelineInv
<1> QED BY <1>2, <1>3, <1>4

\* What another command has checked stays true: it holds the lock of what it read.
LEMMA PassesStays ==
  ASSUME ConfigInv, NEW r \in ConfigCallers, Storing(r), NEW d, NEW x, d.kind \in ConfigKinds,
         PassesConfig(d, x), ~Meet(configCalls[r].command, d)
  PROVE  PassesConfig(d, x)'
<1> DEFINE c == configCalls[r].command
<1>1. TimelineInv /\ ParameterInv
  BY StoringIs DEF ConfigFactsInv
<1>2. ~Meet(c, d)
  OBVIOUS
<1>3. StoresConfig(r) /\ c.kind \in ConfigKinds
  BY StoringIs DEF Storing
<1>4. CASE d.kind \in {"save", "publish"}
  <2>1. c.kind \notin {"save", "publish"}
    BY <1>2, <1>4 DEF Meet, MeetGiven
  <2>2. dictionary' = dictionary /\ releases' = releases
    BY <1>3, <2>1 DEF StoresConfig, ConfigCommand
  <2> QED BY <1>4, <2>2 DEF PassesConfig, KeepsCodes
<1>5. CASE d.kind \in {"register", "value"}
  <2>1. c.kind \notin {"register", "value"}
    BY <1>2, <1>5 DEF Meet, MeetGiven
  <2>2. registered' <=> registered
    BY <1>3, <2>1 DEF StoresConfig, ConfigCommand
  <2> QED BY <1>5, <2>2 DEF PassesConfig
<1>6. CASE d.kind = "activate"
  <2>1. /\ \A a \in activations : a.scope = d.scope =>
             EndGiven(terminations, a) <= d.from \/ d.to <= a.from
        /\ \A a \in activations : a.id # d.id
        /\ d.value \in 1 .. values
    BY <1>6, PassesIs
  <2>2. d.value \in 1 .. values'
    <3>1. values' \in {values, values + 1} /\ values \in Nat
      BY <1>1, <1>3 DEF StoresConfig, ConfigCommand, ParameterInv
    <3> QED BY <2>1, <3>1
  <2>3. /\ \A a \in activations' : a.scope = d.scope =>
             EndGiven(terminations', a) <= d.from \/ d.to <= a.from
        /\ \A a \in activations' : a.id # d.id
    <3>1. CASE c.kind = "activate"
      <4>1. c.scope # d.scope /\ c.id # d.id
        BY <1>2, <1>6, <3>1 DEF Meet, MeetGiven
      <4>2. PICK n : /\ activations' = activations \cup {n} /\ terminations' = terminations
                     /\ n.id = c.id /\ n.scope = c.scope
        BY <3>1, ActivateIs
      <4> QED BY <2>1, <4>1, <4>2
    <3>2. CASE c.kind = "terminate"
      <4>1. \E a \in activations :
              /\ activations' = activations /\ a.id = c.activation
              /\ \A b \in activations : b # a => EndGiven(terminations', b) = EndGiven(terminations, b)
        BY <3>2, TerminateIs
      <4>2. PICK a \in activations :
              /\ activations' = activations /\ a.id = c.activation
              /\ \A b \in activations : b # a => EndGiven(terminations', b) = EndGiven(terminations, b)
        BY <4>1
      <4>3. a.scope # d.scope
        BY <1>2, <1>6, <3>2, <4>2 DEF Meet, MeetGiven
      <4> QED BY <2>1, <4>2, <4>3
    <3>3. CASE c.kind \notin {"activate", "terminate"}
      <4>1. activations' = activations /\ terminations' = terminations
        BY <1>3, <3>3 DEF StoresConfig, ConfigCommand
      <4> QED BY <2>1, <4>1
    <3> QED BY <3>1, <3>2, <3>3
  <2> HIDE DEF c
  <2> QED BY <1>6, <2>2, <2>3, EndOfIs DEF PassesConfig
<1>7. CASE d.kind = "terminate"
  <2>1. PICK a \in activations :
              /\ a.id = d.activation /\ d.to >= x /\ d.to > a.from /\ d.to <= a.to
              /\ \A t \in terminations : t.activation # a.id
    BY <1>7, PassesIs
  <2>2. a \in activations' /\ \A t \in terminations' : t.activation # a.id
    <3>1. CASE c.kind = "terminate"
      <4>1. c.activation # d.activation
        BY <1>2, <1>7, <3>1 DEF Meet, MeetGiven
      <4>2. activations' = activations
            /\ \E t : terminations' = terminations \cup {t} /\ t.activation = c.activation
        BY <3>1, TerminateIs
      <4> QED BY <2>1, <4>1, <4>2
    <3>2. CASE c.kind # "terminate"
      <4>1. activations \subseteq activations' /\ terminations' = terminations
        BY <1>3, <3>2 DEF StoresConfig, ConfigCommand
      <4> QED BY <2>1, <4>1
    <3> QED BY <3>1, <3>2
  <2> QED BY <1>7, <2>1, <2>2 DEF PassesConfig
<1> QED BY <1>4, <1>5, <1>6, <1>7 DEF ConfigKinds

\* Storing leaves every other answer true.
LEMMA AnswersStay ==
  ASSUME ConfigInv, NEW r \in ConfigCallers, Storing(r), NEW q \in ConfigCallers
  PROVE  /\ ResolutionHolds(configCalls[q])
         /\ configCalls'[q] = configCalls[q] => ResolutionHolds(configCalls[q])'
<1> SUFFICES ASSUME configCalls'[q] = configCalls[q] PROVE ResolutionHolds(configCalls[q])'
  BY ConfigRequestIs
<1> DEFINE c == configCalls[r].command
           s == configCalls[q]
<1>1. TimelineInv /\ ResolutionHolds(s)
  BY StoringIs, ConfigRequestIs DEF ConfigFactsInv
<1>2. StoresConfig(r)
  BY DEF Storing
<1>3. activations \subseteq activations' /\ terminations \subseteq terminations'
  BY <1>2 DEF StoresConfig
<1>4. s.at \in ResolutionPlaces => /\ \A i \in s.ended : \E t \in terminations' : t.activation = i
                                   /\ \A i \in s.lasting : \E a \in activations' : a.id = i
  BY <1>1, <1>3 DEF ResolutionHolds
<1>a. s.at = "listed" => s.time \in Nat
  BY ConfigRequestIs, BusinessConfigurationAssumption DEF ConfigShaped, ResolutionPlaces
<1>5. ASSUME s.at = "listed"
      PROVE  AnswerHolds(s.result, s.time, s.ended, s.lasting)'
  <2> DEFINE result == s.result
             time == s.time
             ended == s.ended
             lasting == s.lasting
  <2>1. /\ AnswerHolds(result, time, ended, lasting)
        /\ \A i \in ended : \E t \in terminations : t.activation = i
        /\ \A i \in lasting : \E a \in activations : a.id = i
        /\ time \in Nat
    BY <1>1, <1>5, <1>a DEF ResolutionHolds, ResolutionPlaces
  <2>2. s' = s
    OBVIOUS
  <2> HIDE DEF s
  <2> SUFFICES /\ result.source = "activation" => \E a \in activations' :
                    /\ a.id = result.id /\ a.from <= time /\ time < result.to
                    /\ \/ result.to = EndGiven(terminations', a)
                       \/ result.to = a.to /\ a.id \notin ended
               /\ \A a \in activations' :
                    (/\ a.scope \in DOMAIN ConfigPriority /\ a.id \in lasting
                     /\ a.from <= time /\ time < EndGiven(terminations', a)) =>
                       /\ result.source = "activation"
                       /\ ConfigPriority[a.scope] <= ConfigPriority[result.scope]
    BY <2>2 DEF AnswerHolds
  <2> HIDE DEF result, time, ended, lasting
  <2>3. CASE c.kind = "activate"
    <3>1. PICK n : /\ activations' = activations \cup {n} /\ terminations' = terminations
                   /\ \A a \in activations : a.id # n.id
      BY <2>3, ActivateIs
    <3> QED BY <2>1, <3>1 DEF AnswerHolds
  <2>4. CASE c.kind = "terminate"
    <3>1. \E a \in activations :
            /\ activations' = activations
            /\ \A u \in terminations : u.activation # a.id
            /\ EndGiven(terminations, a) = a.to /\ EndGiven(terminations', a) \in Nat
            /\ EndGiven(terminations', a) <= a.to
            /\ \A b \in activations : b # a => EndGiven(terminations', b) = EndGiven(terminations, b)
      <4>1. \E t : \E a \in activations :
            /\ activations' = activations /\ t.to \in Nat /\ t.to <= a.to
            /\ \A u \in terminations : u.activation # a.id
            /\ EndGiven(terminations, a) = a.to /\ EndGiven(terminations', a) = t.to
            /\ \A b \in activations : b # a => EndGiven(terminations', b) = EndGiven(terminations, b)
        BY <2>4, TerminateIs
      <4> QED BY <4>1
    <3>2. PICK a \in activations :
            /\ activations' = activations
            /\ \A u \in terminations : u.activation # a.id
            /\ EndGiven(terminations, a) = a.to /\ EndGiven(terminations', a) \in Nat
            /\ EndGiven(terminations', a) <= a.to
            /\ \A b \in activations : b # a => EndGiven(terminations', b) = EndGiven(terminations, b)
      BY <3>1
    <3>3. a.id \notin ended
      BY <2>1, <3>2
    <3>4. result.source = "activation" => \E b \in activations :
                    /\ b.id = result.id /\ b.from <= time /\ time < result.to
                    /\ \/ result.to = EndGiven(terminations', b)
                       \/ result.to = b.to /\ b.id \notin ended
      <4> SUFFICES ASSUME result.source = "activation"
                   PROVE  \E b \in activations :
                    /\ b.id = result.id /\ b.from <= time /\ time < result.to
                    /\ \/ result.to = EndGiven(terminations', b)
                       \/ result.to = b.to /\ b.id \notin ended
        OBVIOUS
      <4>1. PICK b \in activations :
                    /\ b.id = result.id /\ b.from <= time /\ time < result.to
                    /\ \/ result.to = EndGiven(terminations, b)
                       \/ result.to = b.to /\ b.id \notin ended
        BY <2>1 DEF AnswerHolds
      <4>2. CASE b = a
        BY <3>2, <3>3, <4>1, <4>2
      <4>3. CASE b # a
        <5>1. EndGiven(terminations', b) = EndGiven(terminations, b)
          BY <3>2, <4>3
        <5> QED BY <4>1, <5>1
      <4> QED BY <4>2, <4>3
    <3>5. ASSUME NEW b \in activations, b.scope \in DOMAIN ConfigPriority, b.id \in lasting,
                 b.from <= time, time < EndGiven(terminations', b)
          PROVE  /\ result.source = "activation"
                 /\ ConfigPriority[b.scope] <= ConfigPriority[result.scope]
      <4>1. time < EndGiven(terminations, b)
        <5>1. CASE b = a
          <6>1. EndGiven(terminations, a) \in Nat
            BY <1>1, EndsAre
          <6>2. EndGiven(terminations', a) \in Nat /\ EndGiven(terminations', a) <= EndGiven(terminations, a)
            BY <3>2
          <6>3. time < EndGiven(terminations', a)
            BY <3>5, <5>1
          <6> QED BY <2>1, <5>1, <6>1, <6>2, <6>3
        <5>2. CASE b # a
          <6>1. EndGiven(terminations', b) = EndGiven(terminations, b)
            BY <3>2, <5>2
          <6> QED BY <3>5, <6>1
        <5> QED BY <5>1, <5>2
      <4> QED BY <2>1, <3>5, <4>1 DEF AnswerHolds
    <3>6. activations' = activations
      BY <3>2
    <3> QED BY <3>4, <3>5, <3>6
  <2>5. CASE c.kind \notin {"activate", "terminate"}
    <3>1. activations' = activations /\ terminations' = terminations
      BY <1>2, <2>5 DEF StoresConfig, ConfigCommand
    <3> QED BY <2>1, <3>1 DEF AnswerHolds
  <2> QED BY <2>3, <2>4, <2>5
<1> QED BY <1>4, <1>5 DEF ResolutionHolds

LEMMA CommandsStay ==
  ASSUME ConfigInv, NEW r \in ConfigCallers, Storing(r), NEW q \in ConfigCallers \ {r},
         configCalls'[q] = configCalls[q]
  PROVE  CommandHolds(configCalls[q])'
<1> DEFINE s == configCalls[q]
           o == configCalls[r].operation
<1>1. CommandHolds(s)
  BY ConfigRequestIs
<1>2. receipts' = receipts \cup {[operation |-> o, command |-> configCalls[r].command]}
  BY DEF Storing, StoresConfig, ConfigCommand
<1>3. s.at \in ConfigLocks => s.operation # o
  BY DEF Storing, ConfigInv, ConfigApart, ConfigLocks
<1>4. ASSUME s.at = "checked"
      PROVE  PassesConfig(s.command, s.occurred)'
  <2>1. ~Meet(configCalls[r].command, s.command)
    BY <1>4 DEF Storing, ConfigInv, ConfigApart
  <2>2. s.command.kind \in ConfigKinds
    BY <1>4, KindsAre DEF ConfigPlaces, ConfigLocks
  <2>3. PassesConfig(s.command, s.occurred)
    BY <1>1, <1>4 DEF CommandHolds
  <2>4. PICK d, x : d = s.command /\ x = s.occurred
    OBVIOUS
  <2>5. PassesConfig(d, x)'
    BY <2>1, <2>2, <2>3, <2>4, PassesStays
  <2>6. s.command' = d /\ s.occurred' = x
    BY <2>4
  <2> HIDE DEF s
  <2> QED BY <2>5, <2>6 DEF PassesConfig, KeepsCodes, EndOf
<1> QED BY <1>1, <1>2, <1>3, <1>4 DEF CommandHolds

\* Two commands that could not meet before the commit do not after it.
LEMMA MeetStays ==
  ASSUME ConfigInv, NEW r \in ConfigCallers, Storing(r), NEW c, NEW d, NEW x, NEW y,
         PassesConfig(c, x), PassesConfig(d, y), ~Meet(c, d)
  PROVE  ~MeetGiven(activations', c, d)
<1> DEFINE k == configCalls[r].command
<1>1. \A e, z : e.kind = "terminate" /\ PassesConfig(e, z) =>
        \E a \in activations : a.id = e.activation
  BY PassesIs
<1>2. CASE k.kind = "activate"
  <2>1. PICK n : activations' = activations \cup {n} /\ \A a \in activations : a.id # n.id
    BY <1>2, ActivateIs
  <2> QED BY <1>1, <2>1 DEF Meet, MeetGiven
<1>3. CASE k.kind # "activate"
  <2>1. activations' = activations
    BY <1>3 DEF Storing, StoresConfig, ConfigCommand
  <2> QED BY <2>1 DEF Meet, MeetGiven
<1> QED BY <1>2, <1>3

LEMMA StoringKeeps ==
  ASSUME ConfigInv, NEW r \in ConfigCallers, Storing(r), UNCHANGED configTime,
         NEW to \in {"stored", "failing"}, ConfigGoes(r, to)
  PROVE  ConfigInv'
<1>1. ConfigFactsInv'
  BY StoringDictionary, StoringParameter, StoringTimeline, StoringReceipts DEF ConfigFactsInv
<1>2. /\ DOMAIN configCalls' = ConfigCallers
      /\ \A q \in ConfigCallers : q # r => configCalls'[q] = configCalls[q]
      /\ ConfigShaped(configCalls'[r])
      /\ configCalls'[r].at = to /\ configCalls'[r].operation = configCalls[r].operation
      /\ configCalls'[r].command = configCalls[r].command
  <2>1. configCalls[r].at \in ConfigPlaces /\ to \in ConfigPlaces
    BY DEF Storing, ConfigPlaces, ConfigLocks
  <2> QED BY <2>1, ConfigMoves
<1>3. ConfigHolds(configCalls[r])'
  <2>1. receipts' = receipts \cup
          {[operation |-> configCalls[r].operation, command |-> configCalls[r].command]}
    BY DEF Storing, StoresConfig, ConfigCommand
  <2>2. ConfigShaped(configCalls[r])'
    BY <1>2 DEF ConfigShaped
  <2>3. CommandHolds(configCalls[r])'
    BY <1>2, <2>1 DEF CommandHolds, ConfigLocks
  <2>4. ResolutionHolds(configCalls[r])'
    BY <1>2 DEF ResolutionHolds, ResolutionPlaces
  <2> QED BY <2>2, <2>3, <2>4 DEF ConfigHolds
<1>4. ASSUME NEW q \in ConfigCallers, q # r
      PROVE  ConfigHolds(configCalls[q])'
  <2>1. ConfigShaped(configCalls[q])'
    BY <1>2, <1>4, ConfigRequestIs DEF ConfigShaped
  <2>2. CommandHolds(configCalls[q])'
    BY <1>2, <1>4, CommandsStay
  <2>3. ResolutionHolds(configCalls[q])'
    BY <1>2, <1>4, AnswersStay
  <2> QED BY <2>1, <2>2, <2>3 DEF ConfigHolds
<1>5. ConfigApart'
  <2> SUFFICES ASSUME NEW p \in ConfigCallers, NEW q \in ConfigCallers, p # q
               PROVE  /\ configCalls'[p].at \in ConfigLocks /\ configCalls'[q].at \in ConfigLocks =>
                           configCalls'[p].operation # configCalls'[q].operation
                      /\ configCalls'[p].at = "checked" /\ configCalls'[q].at = "checked" =>
                           ~MeetGiven(activations', configCalls'[p].command, configCalls'[q].command)
    BY DEF ConfigApart, Meet, MeetGiven
  <2>1. configCalls'[r].at \notin ConfigLocks /\ configCalls'[r].at # "checked"
    BY <1>2 DEF ConfigLocks
  <2>2. CASE p # r /\ q # r
    <3>1. configCalls'[p] = configCalls[p] /\ configCalls'[q] = configCalls[q]
      BY <1>2, <2>2
    <3>2. configCalls[p].at \in ConfigLocks /\ configCalls[q].at \in ConfigLocks =>
            configCalls[p].operation # configCalls[q].operation
      BY DEF ConfigInv, ConfigApart
    <3>3. ASSUME configCalls[p].at = "checked", configCalls[q].at = "checked"
          PROVE  ~MeetGiven(activations', configCalls[p].command, configCalls[q].command)
      <4>1. ~Meet(configCalls[p].command, configCalls[q].command)
        BY <3>3 DEF ConfigInv, ConfigApart
      <4>2. /\ PassesConfig(configCalls[p].command, configCalls[p].occurred)
            /\ PassesConfig(configCalls[q].command, configCalls[q].occurred)
        BY <3>3, ConfigRequestIs DEF CommandHolds
      <4> QED BY <4>1, <4>2, MeetStays
    <3> QED BY <3>1, <3>2, <3>3
  <2>3. CASE p = r \/ q = r
    BY <2>1, <2>3
  <2> QED BY <2>2, <2>3
<1>6. configTime' \in Nat
  BY DEF ConfigInv
<1> QED BY <1>1, <1>2, <1>3, <1>4, <1>5, <1>6 DEF ConfigInv

LEMMA CommitConfigKeeps ==
  ASSUME ConfigInv, NEW r \in ConfigCallers, CommitConfig(r)
  PROVE  ConfigInv'
<1>1. Storing(r) /\ UNCHANGED configTime /\ ConfigGoes(r, "stored")
  BY DEF CommitConfig, Storing, ConfigAt
<1> QED BY <1>1, StoringKeeps

\* Without its facts or with them, the request ends in an error.
LEMMA CommitConfigFailsKeeps ==
  ASSUME ConfigInv, NEW r \in ConfigCallers, CommitConfigFails(r)
  PROVE  ConfigInv'
<1>1. /\ configCalls[r].at \in ConfigPlaces /\ UNCHANGED configTime /\ ConfigGoes(r, "failing")
      /\ Storing(r) \/ UNCHANGED <<configFacts, receipts, configApplied>>
  BY DEF CommitConfigFails, Storing, ConfigAt, ConfigPlaces, ConfigLocks
<1>2. CASE Storing(r)
  BY <1>1, <1>2, StoringKeeps
<1>3. CASE UNCHANGED <<configFacts, receipts, configApplied>>
  <2>1. "failing" \in ConfigPlaces /\ "failing" \notin ConfigLocks
    BY DEF ConfigPlaces, ConfigLocks
  <2> QED BY <1>1, <1>3, <2>1, GoingKeeps
<1> QED BY <1>1, <1>2, <1>3

LEMMA ConfigInitially == ConfigInit => ConfigInv
<1> SUFFICES ASSUME ConfigInit PROVE ConfigInv
  OBVIOUS
<1>1. DictionaryInv
  <2>1. releases = <<>> /\ dictionary = [revision |-> 0, items |-> {}]
    BY DEF ConfigInit
  <2>2. {} \in ConfigItems
    BY DEF ConfigItems
  <2>3. dictionary.revision = 0 /\ dictionary.items = {}
    BY <2>1
  <2>4. releases \in Seq(ConfigRelease) /\ DOMAIN releases = {}
    BY <2>1
  <2> QED BY <2>2, <2>3, <2>4 DEF DictionaryInv
<1>2. ParameterInv
  <2>1. registered = FALSE /\ values = 0
    BY DEF ConfigInit
  <2>2. registered \in BOOLEAN
    BY <2>1
  <2>3. values \in Nat /\ ~(values > 0)
    BY <2>1
  <2> QED BY <2>2, <2>3 DEF ParameterInv
<1>3. TimelineInv
  BY DEF ConfigInit, TimelineInv
<1>4. ReceiptsInv
  BY DEF ConfigInit, ReceiptsInv
<1>5. DOMAIN configCalls = ConfigCallers /\ \A r \in ConfigCallers : configCalls[r] = NoConfigCall
  BY DEF ConfigInit
<1>6. \A r \in ConfigCallers : ConfigHolds(configCalls[r])
  BY <1>5 DEF ConfigHolds, ConfigShaped, CommandHolds, ResolutionHolds, ConfigPlaces, ConfigLocks,
              ResolutionPlaces, NoConfigCall
<1>7. ConfigApart
  BY <1>5 DEF ConfigApart, ConfigLocks, NoConfigCall
<1>8. configTime \in Nat
  BY DEF ConfigInit
<1> QED BY <1>1, <1>2, <1>3, <1>4, <1>5, <1>6, <1>7, <1>8 DEF ConfigInv, ConfigFactsInv

LEMMA ConfigSteps == ConfigInv /\ [ConfigNext]_configVars => ConfigInv'
<1> SUFFICES ASSUME ConfigInv, [ConfigNext]_configVars PROVE ConfigInv'
  OBVIOUS
<1>1. ASSUME NEW r \in ConfigCallers, FailConfig(r) \/ FinishConfig(r)
      PROVE  ConfigInv'
  <2>1. /\ configCalls' = [configCalls EXCEPT ![r] = NoConfigCall]
        /\ UNCHANGED <<configFacts, receipts, configApplied, configTime>>
    BY <1>1 DEF FailConfig, FinishConfig
  <2> QED BY <2>1, LeavingKeeps
<1>2. CASE UNCHANGED configVars
  <2>1. UNCHANGED <<configFacts, receipts, configCalls, configApplied, configTime>>
    BY <1>2 DEF configVars, configFacts
  <2>2. ConfigFactsInv' /\ \A q \in ConfigCallers : ConfigHolds(configCalls[q])'
    BY <2>1, FactsRest, ConfigRests DEF ConfigInv
  <2>3. ConfigApart'
    BY <2>1 DEF ConfigInv, ConfigApart, Meet, MeetGiven, configFacts
  <2> QED BY <2>1, <2>2, <2>3 DEF ConfigInv
<1> QED BY <1>1, <1>2, ConfigTickKeeps, ResolutionKeeps, SubmitConfigKeeps, BeginConfigKeeps,
           CheckConfigKeeps, CommitConfigKeeps, CommitConfigFailsKeeps DEF ConfigNext

-----------------------------------------------------------------------------
(* What follows.                                                           *)

LEMMA InvOneActivation == ConfigInv => OneActivation
<1> SUFFICES ASSUME ConfigInv, NEW s, NEW t \in 0 .. MaxConfigTime + 1
             PROVE  Cardinality(EffectiveAt(s, t)) <= 1
  BY DEF OneActivation
<1> DEFINE E == EffectiveAt(s, t)
<1>1. TimelineInv
  BY DEF ConfigInv, ConfigFactsInv
<1>2. t \in Nat
  BY BusinessConfigurationAssumption
<1>3. \A a \in E : a \in activations /\ a.scope = s /\ a.from <= t /\ t < EndGiven(terminations, a)
  BY EndOfIs DEF EffectiveAt
<1>4. ASSUME NEW a \in E, NEW b \in E, a # b
      PROVE  FALSE
  <2>1. /\ EndGiven(terminations, a) \in Nat /\ EndGiven(terminations, b) \in Nat
        /\ a.from \in Nat /\ b.from \in Nat
    BY <1>1, <1>3, EndsAre DEF TimelineInv
  <2>2. EndGiven(terminations, a) <= b.from \/ EndGiven(terminations, b) <= a.from
    BY <1>1, <1>3, <1>4 DEF TimelineInv
  <2> QED BY <1>2, <1>3, <2>1, <2>2
<1> HIDE DEF E
<1>5. Cardinality(E) <= 1
  <2>1. CASE E = {}
    <3>1. Cardinality(E) = 0
      BY <2>1, FS_EmptySet
    <3> QED BY <3>1
  <2>2. CASE E # {}
    <3>1. PICK a : a \in E
      BY <2>2
    <3>2. E = {a}
      BY <1>4, <3>1
    <3>3. Cardinality({a}) = 1
      BY FS_Singleton
    <3> QED BY <3>2, <3>3
  <2> QED BY <2>1, <2>2
<1> QED BY <1>5 DEF E

LEMMA InvExact == ConfigInv => ConfigurationIsExact
<1> SUFFICES ASSUME ConfigInv PROVE ConfigurationIsExact
  OBVIOUS
<1>1. \A r \in ConfigCallers : CommandHolds(configCalls[r])
  BY ConfigRequestIs
<1> QED BY <1>1 DEF ConfigurationIsExact, ConfigInv, ConfigFactsInv, DictionaryInv, ReceiptsInv,
                    CommandHolds, ConfigAt, ConfigCommand

LEMMA InvLikeMemoryStore == ConfigInv => CommitsLikeMemoryStore
<1> SUFFICES ASSUME ConfigInv, NEW r \in ConfigCallers, configCalls[r].at = "checked"
             PROVE  /\ ReceiptOf(configCalls[r].operation) = {}
                    /\ MemoryAllows(configCalls[r].command, configCalls[r].occurred)
  BY DEF CommitsLikeMemoryStore, ConfigAt, ConfigCommand
<1> DEFINE c == configCalls[r].command
           x == configCalls[r].occurred
<1>1. ReceiptOf(configCalls[r].operation) = {} /\ PassesConfig(c, x)
  BY ConfigRequestIs DEF CommandHolds, ConfigLocks, ReceiptOf
<1>2. /\ c.kind \in ConfigKinds
      /\ c.kind = "activate" => c.from \in Nat /\ c.to \in Nat
  BY KindsAre DEF ConfigPlaces, ConfigLocks
<1>3. TimelineInv /\ ParameterInv
  BY DEF ConfigInv, ConfigFactsInv
<1> HIDE DEF c, x
<1>4. MemoryAllows(c, x)
  <2>1. CASE c.kind = "save"
    BY <1>1, <2>1, PassesIs DEF MemoryAllows
  <2>2. CASE c.kind = "publish"
    <3>1. dictionary.revision = c.expected /\ KeepsCodes(dictionary.items)
      BY <1>1, <2>2, PassesIs
    <3>2. UNION {releases[i].items : i \in DOMAIN releases} \subseteq dictionary.items
      BY <3>1 DEF KeepsCodes
    <3> QED BY <2>2, <3>1, <3>2 DEF MemoryAllows
  <2>3. CASE c.kind = "register"
    BY <1>1, <2>3, PassesIs DEF MemoryAllows
  <2>4. CASE c.kind = "value"
    BY <1>1, <2>4, PassesIs DEF MemoryAllows
  <2>5. CASE c.kind = "activate"
    <3>1. /\ \A a \in activations : a.scope = c.scope =>
               EndGiven(terminations, a) <= c.from \/ c.to <= a.from
          /\ c.value \in 1 .. values
      BY <1>1, <2>5, PassesIs
    <3>2. registered /\ c.value <= values
      BY <1>3, <3>1 DEF ParameterInv
    <3>3. \A a \in activations : a.from \in Nat /\ EndGiven(terminations, a) \in Nat
      BY <1>3, EndsAre DEF TimelineInv
    <3>4. ~\E a \in activations :
             a.scope = c.scope /\ a.from < c.to /\ c.from < EndGiven(terminations, a)
      BY <1>2, <2>5, <3>1, <3>3
    <3> QED BY <2>5, <3>2, <3>4, EndOfIs DEF MemoryAllows
  <2>6. CASE c.kind = "terminate"
    <3>1. PICK a \in activations :
                /\ a.id = c.activation /\ c.to >= x /\ c.to > a.from /\ c.to <= a.to
                /\ \A t \in terminations : t.activation # a.id
      BY <1>1, <2>6, PassesIs
    <3>2. c.activation \in {b.id : b \in {d \in activations : d.from < c.to /\ c.to <= d.to}}
      BY <3>1
    <3>3. c.activation \notin {u.activation : u \in terminations} /\ x <= c.to
      BY <3>1
    <3> QED BY <2>6, <3>2, <3>3 DEF MemoryAllows
  <2> QED BY <1>2, <2>1, <2>2, <2>3, <2>4, <2>5, <2>6 DEF ConfigKinds
<1> QED BY <1>1, <1>4 DEF c, x

LEMMA InvFresh == ConfigInv => ResolutionsAreFresh
<1> SUFFICES ASSUME ConfigInv, NEW r \in ConfigCallers, configCalls[r].at = "listed"
             PROVE  LET answer == configCalls[r].result
                        at == configCalls[r].time
                    IN /\ answer.source = "activation" =>
                            \E a \in activations :
                              /\ a.id = answer.id /\ a.from <= at /\ at < answer.to
                              /\ answer.to \in {a.to, EndOf(a)}
                              /\ a.id \in configCalls[r].ended => answer.to = EndOf(a)
                       /\ \A a \in InForceAt(at) : a.id \in configCalls[r].lasting =>
                            /\ answer.source = "activation"
                            /\ ConfigPriority[a.scope] <= ConfigPriority[answer.scope]
  <2>1. \A q \in ConfigCallers : ResolutionAnswered(configCalls[q]) = configCalls[q].result
    BY DEF ResolutionAnswered
  <2> QED BY <2>1 DEF ResolutionsAreFresh, ConfigAt
<1> DEFINE answer == configCalls[r].result
           at == configCalls[r].time
           ended == configCalls[r].ended
           lasting == configCalls[r].lasting
<1>1. AnswerHolds(answer, at, ended, lasting)
  BY ConfigRequestIs DEF ResolutionHolds
<1>2. \A a \in InForceAt(at) : /\ a \in activations /\ a.scope \in DOMAIN ConfigPriority
                               /\ a.from <= at /\ at < EndGiven(terminations, a)
  BY EndOfIs DEF InForceAt, EffectiveAt
<1> HIDE DEF answer, at, ended, lasting
<1>3. answer.source = "activation" =>
        \E a \in activations :
          /\ a.id = answer.id /\ a.from <= at /\ at < answer.to
          /\ answer.to \in {a.to, EndOf(a)}
          /\ a.id \in ended => answer.to = EndOf(a)
  BY <1>1, EndOfIs DEF AnswerHolds
<1>4. \A a \in InForceAt(at) : a.id \in lasting =>
        /\ answer.source = "activation"
        /\ ConfigPriority[a.scope] <= ConfigPriority[answer.scope]
  BY <1>1, <1>2 DEF AnswerHolds
<1> QED BY <1>3, <1>4 DEF answer, at, ended, lasting

\* Whatever requests race, fail or repeat, the releases keep their codes, one activation is in
\* force in a scope, a command is committed once, only as it would be alone, and a resolution
\* answers what the database said after it was asked for.
THEOREM ConfigurationStaysSound == ConfigSpec => []ConfigurationIsSound
<1>1. ConfigInv => ConfigurationIsSound
  BY InvOneActivation, InvExact, InvLikeMemoryStore, InvFresh DEF ConfigurationIsSound
<1> QED BY <1>1, ConfigInitially, ConfigSteps, PTL DEF ConfigSpec

-----------------------------------------------------------------------------
(* The publication of policies.                                            *)

DecidingPlaces == {"current", "loading", "recording", "publishing", "auditing"}

\* A decision a stored policy gave at the time of the request.
EarnedIn(kept, version, since) ==
  version \in PolicyVersions /\ kept[version] # NotStored /\ since \in Allows[version]

Earned(version, since) == EarnedIn(stored, version, since)

\* What a call knows: the command it was asked, that what allows it was earned, and that
\* what it audits is published.
DecisionHolds(call) ==
  /\ call.at \in {"idle"} \cup DecidingPlaces
  /\ call.at \in DecidingPlaces => /\ {"for", "asked"} \subseteq DOMAIN call
                                   /\ call.for # "check" =>
                                        /\ call.for \in Publications
                                        /\ call.asked \in CommandsOf[call.for] /\ Sound(call.asked)
  /\ call.at \in {"current", "loading", "recording", "publishing"} => "since" \in DOMAIN call
  /\ call.at = "loading" => "version" \in DOMAIN call /\ call.version \in PolicyVersions
  /\ call.at = "recording" =>
       /\ {"version", "outcome"} \subseteq DOMAIN call
       /\ call.outcome = "allowed" /\ call.version # NoVersion => Earned(call.version, call.since)
  /\ call.at = "publishing" => /\ "version" \in DOMAIN call
                               /\ call.for # "check" /\ Earned(call.version, call.since)
  /\ call.at = "auditing" => /\ call.for # "check" /\ Known(call.for)
                             /\ published[call.for].command.version = call.asked.version

\* A publication gave its version the content it has, and that is not empty.
PublishedInv ==
  /\ DOMAIN grantedBy = DOMAIN published
  /\ \A p \in DOMAIN published : LET c == published[p].command IN
       /\ c.version \in PolicyVersions /\ c.content # NotStored
       /\ stored[c.version] = c.content /\ c = Fingerprint(grantedBy[p].asked)
       /\ Earned(grantedBy[p].version, grantedBy[p].since)
  /\ \A f \in policyAudit : Known(f.publication) /\ published[f.publication].command.version = f.version

PublicationInv ==
  /\ DOMAIN stored = PolicyVersions /\ current \in PolicyVersions
  /\ DOMAIN checking = AuthorizationCalls
  /\ PublishedInv
  /\ \A k \in AuthorizationCalls : DecisionHolds(checking[k])

\* The command that is stored keeps all but the order of its content.
LEMMA FingerprintIs ==
  ASSUME NEW p \in Publications, NEW c \in CommandsOf[p], Sound(c)
  PROVE  /\ Fingerprint(c).version = c.version /\ Fingerprint(c).expected = c.expected
         /\ Fingerprint(c).content = Canonical(c.content)
         /\ Canonical(c.content) # NotStored
         /\ c.version \in PolicyVersions /\ c.expected \in PolicyVersions \cup {AnyVersion}
<1> DEFINE grants == {c.content[i] : i \in DOMAIN c.content}
<1>1. /\ c = [version |-> c.version, content |-> c.content, expected |-> c.expected]
      /\ c.version \in PolicyVersions /\ c.expected \in PolicyVersions \cup {AnyVersion}
      /\ c.content \in Seq(grants)
  BY AuthorizationAssumption
<1>2. Canonical(c.content) # {}
  <2> DEFINE content == c.content
  <2>1. content # <<>>
    BY DEF Sound
  <2>2. content \in Seq(grants)
    BY <1>1
  <2> HIDE DEF content, grants
  <2>3. 1 \in DOMAIN content
    BY <2>1, <2>2
  <2> QED BY <2>3 DEF Canonical, content
<1>3. /\ Fingerprint(c).version = c.version /\ Fingerprint(c).expected = c.expected
      /\ Fingerprint(c).content = Canonical(c.content)
  BY <1>1 DEF Fingerprint
<1> QED BY <1>1, <1>2, <1>3 DEF NotStored

\* One call moves; with nothing published it is enough to say where it goes.
LEMMA DecisionMoves ==
  ASSUME PublicationInv, NEW k \in AuthorizationCalls, NEW next,
         checking' = [checking EXCEPT ![k] = next], UNCHANGED <<policyVars, recordVars>>,
         DecisionHolds(next)
  PROVE  PublicationInv'
<1>1. /\ UNCHANGED <<stored, published, current, grantedBy, policyAudit>>
      /\ DOMAIN checking' = AuthorizationCalls /\ checking'[k] = next
      /\ \A j \in AuthorizationCalls : j # k => checking'[j] = checking[j]
  BY DEF PublicationInv, policyVars, recordVars
<1>2. \A j \in AuthorizationCalls : DecisionHolds(checking[j])'
  <2> SUFFICES ASSUME NEW j \in AuthorizationCalls PROVE DecisionHolds(checking[j])'
    OBVIOUS
  <2>1. DecisionHolds(checking'[j])
    BY <1>1 DEF PublicationInv
  <2> QED BY <1>1, <2>1 DEF DecisionHolds, Earned, EarnedIn, Known
<1>3. PublishedInv'
  BY <1>1 DEF PublicationInv, PublishedInv, Earned, EarnedIn, Known
<1> QED BY <1>1, <1>2, <1>3 DEF PublicationInv

LEMMA DecisionIs ==
  ASSUME PublicationInv, NEW k \in AuthorizationCalls
  PROVE  DecisionHolds(checking[k]) /\ DecisionHolds(Waiting)
BY DEF PublicationInv, DecisionHolds, Waiting, DecidingPlaces

\* A check, and the decision a publisher waits for.
LEMMA ChecksKeep ==
  ASSUME PublicationInv, NEW k \in AuthorizationCalls,
         \/ AskCheck(k) \/ ReadCurrent(k) \/ PolicyUnavailable(k) \/ Evaluate(k)
         \/ \E p \in Publications : \E c \in CommandsOf[p] : AskToPublish(k, p, c)
         \/ Decided(k) \/ RecorderFails(k) \/ PublishRefused(k)
  PROVE  PublicationInv'
<1> DEFINE call == checking[k]
<1>1. DecisionHolds(call) /\ DecisionHolds(Waiting) /\ current \in PolicyVersions
  BY DecisionIs DEF PublicationInv
<1>2. UNCHANGED <<policyVars, recordVars>>
  BY DEF AskCheck, AskToPublish, BeginDecision, ReadCurrent, PolicyUnavailable, Evaluate, Decided,
         RecorderFails, PublishRefused, otherVars
<1>3. CASE AskCheck(k)
  <2> DEFINE next == [at |-> "current", for |-> "check", since |-> policyTime, asked |-> NothingAsked]
  <2>1. checking' = [checking EXCEPT ![k] = next]
    BY <1>3 DEF AskCheck, BeginDecision
  <2>2. DecisionHolds(next)
    BY DEF DecisionHolds, DecidingPlaces
  <2> HIDE DEF next
  <2> QED BY <1>2, <2>1, <2>2, DecisionMoves
<1>4. ASSUME NEW p \in Publications, NEW c \in CommandsOf[p], AskToPublish(k, p, c)
      PROVE  PublicationInv'
  <2> DEFINE next == [at |-> "current", for |-> p, since |-> policyTime, asked |-> c]
  <2>1. checking' = [checking EXCEPT ![k] = next] /\ Sound(c)
    BY <1>4 DEF AskToPublish, BeginDecision
  <2>2. DecisionHolds(next)
    BY <2>1 DEF DecisionHolds, DecidingPlaces
  <2> HIDE DEF next
  <2> QED BY <1>2, <2>1, <2>2, DecisionMoves
<1>5. CASE ReadCurrent(k)
  <2> DEFINE next == [at |-> "loading", for |-> call.for, asked |-> call.asked,
                      since |-> call.since, version |-> current]
  <2>1. checking' = [checking EXCEPT ![k] = next] /\ call.at = "current"
    BY <1>5 DEF ReadCurrent, CallAt, PublicationInv
  <2>2. DecisionHolds(next)
    BY <1>1, <2>1 DEF DecisionHolds, DecidingPlaces
  <2> HIDE DEF next
  <2> QED BY <1>2, <2>1, <2>2, DecisionMoves
<1>6. ASSUME NEW version, NEW outcome, DecidedAs(k, version, outcome),
             call.at \in {"current", "loading"},
             outcome = "allowed" => Earned(version, call.since)
      PROVE  PublicationInv'
  <2> DEFINE next == [at |-> "recording", for |-> call.for, asked |-> call.asked,
                      since |-> call.since, version |-> version, outcome |-> outcome]
  <2>1. checking' = [checking EXCEPT ![k] = next]
    BY <1>6 DEF DecidedAs, PublicationInv
  <2>2. DecisionHolds(next)
    BY <1>1, <1>6 DEF DecisionHolds, DecidingPlaces
  <2> HIDE DEF next
  <2> QED BY <1>2, <2>1, <2>2, DecisionMoves
<1>7. CASE PolicyUnavailable(k)
  <2>1. call.at \in {"current", "loading"} /\ DecidedAs(k, NoVersion, "denied")
    BY <1>7 DEF PolicyUnavailable
  <2> QED BY <1>6, <2>1
<1>8. CASE Evaluate(k)
  <2>1. call.at = "loading" /\ Loadable(call.version)
        /\ DecidedAs(k, call.version, Evaluation(call.version, call.since))
    BY <1>8 DEF Evaluate, CallAt, TakesFresh, FreshEvaluation
  <2>2. call.version \in PolicyVersions
    BY <1>1, <2>1 DEF DecisionHolds
  <2>3. Evaluation(call.version, call.since) = "allowed" => Earned(call.version, call.since)
    BY <2>1, <2>2 DEF Evaluation, Earned, EarnedIn, Loadable
  <2> HIDE DEF call
  <2> QED BY <1>6, <2>1, <2>3
<1>9. CASE checking' = [checking EXCEPT ![k] = Waiting]
  BY <1>1, <1>2, <1>9, DecisionMoves
<1>10. CASE Decided(k) /\ checking' # [checking EXCEPT ![k] = Waiting]
  <2> DEFINE next == [call EXCEPT !.at = "publishing"]
  <2>1. /\ checking' = [checking EXCEPT ![k] = next] /\ call.at = "recording"
        /\ call.for # "check" /\ call.outcome = "allowed" /\ call.version # NoVersion
    BY <1>10 DEF Decided, CallAt, Ends, AllowedDecision
  <2>2. DecisionHolds(next)
    BY <1>1, <2>1 DEF DecisionHolds, DecidingPlaces
  <2> HIDE DEF next
  <2> QED BY <1>2, <2>1, <2>2, DecisionMoves
<1> QED BY <1>3, <1>4, <1>5, <1>7, <1>8, <1>9, <1>10 DEF RecorderFails, PublishRefused, Ends

\* A publisher persists its command: new, with the decision it has, or found again.
LEMMA PersistingKeeps ==
  ASSUME PublicationInv, NEW k \in AuthorizationCalls, CallAt(k, "publishing"),
         Persisted(checking[k].for, checking[k].asked, checking[k]), UNCHANGED policyAudit
  PROVE  /\ PublishedInv'
         /\ DOMAIN stored' = PolicyVersions /\ current' \in PolicyVersions
         /\ \A v \in PolicyVersions : stored[v] # NotStored => stored'[v] = stored[v]
         /\ \A p \in DOMAIN published : p \in DOMAIN published' /\ published'[p] = published[p]
         /\ checking[k].for \in DOMAIN published'
         /\ published'[checking[k].for].command.version = checking[k].asked.version
<1> DEFINE p == checking[k].for
           c == checking[k].asked
           decision == checking[k]
           grant == [asked |-> decision.asked, version |-> decision.version, since |-> decision.since]
           entry == [command |-> Fingerprint(c), previous |-> current]
<1>1. /\ p \in Publications /\ c \in CommandsOf[p] /\ Sound(c)
      /\ Earned(decision.version, decision.since)
  BY DecisionIs DEF DecisionHolds, CallAt, DecidingPlaces
<1>2. /\ Fingerprint(c).version = c.version /\ Fingerprint(c).content = Canonical(c.content)
      /\ Canonical(c.content) # NotStored /\ c.version \in PolicyVersions
  BY <1>1, FingerprintIs
<1>3. PublishedInv /\ DOMAIN stored = PolicyVersions /\ current \in PolicyVersions
  BY DEF PublicationInv
<1>4. CASE Known(p)
  <2>1. UNCHANGED <<stored, published, current, grantedBy>> /\ published[p].command = Fingerprint(c)
    BY <1>4 DEF Persisted, Replayed, policyVars
  <2>2. p \in DOMAIN published
    BY <1>4 DEF Known
  <2>3. PublishedInv'
    BY <1>3, <2>1 DEF PublishedInv, Earned, Known
  <2> QED BY <1>2, <1>3, <2>1, <2>2, <2>3
<1>5. CASE ~Known(p)
  <2>1. Publishable(c) /\ Appended(p, c, decision) /\ p \notin DOMAIN published
    BY <1>5 DEF Persisted, Known
  <2>2. /\ DOMAIN published' = DOMAIN published \cup {p} /\ published'[p] = entry
        /\ \A q \in DOMAIN published : published'[q] = published[q]
    BY <2>1 DEF Appended
  <2>3. /\ DOMAIN grantedBy' = DOMAIN grantedBy \cup {p} /\ grantedBy'[p] = grant
        /\ \A q \in DOMAIN published : grantedBy'[q] = grantedBy[q]
    BY <1>3, <2>1 DEF Appended, PublishedInv
  <2>4. stored[c.version] \in {NotStored, Canonical(c.content)}
    BY <2>1 DEF Publishable
  <2>5. /\ DOMAIN stored' = PolicyVersions /\ stored'[c.version] = Canonical(c.content)
        /\ \A v \in PolicyVersions : v # c.version => stored'[v] = stored[v]
        /\ current' = c.version
    BY <1>2, <1>3, <2>1 DEF Appended
  <2>6. \A v \in PolicyVersions : stored[v] # NotStored => stored'[v] = stored[v]
    BY <2>4, <2>5
  <2>7. entry.command = Fingerprint(c) /\ grant.asked = c
        /\ grant.version = decision.version /\ grant.since = decision.since
    OBVIOUS
  <2>8. \A v, t : Earned(v, t) => EarnedIn(stored', v, t)
    BY <2>6 DEF Earned, EarnedIn
  <2> HIDE DEF p, c, entry, grant, decision
  <2>9. ASSUME NEW q \in DOMAIN published'
        PROVE  LET d == published'[q].command IN
               /\ d.version \in PolicyVersions /\ d.content # NotStored
               /\ stored'[d.version] = d.content /\ d = Fingerprint(grantedBy'[q].asked)
               /\ EarnedIn(stored', grantedBy'[q].version, grantedBy'[q].since)
    <3>1. CASE q = p
      <4>1. /\ published'[q].command = Fingerprint(c) /\ grantedBy'[q].asked = c
            /\ grantedBy'[q].version = decision.version /\ grantedBy'[q].since = decision.since
        BY <2>2, <2>3, <2>7, <3>1
      <4>2. EarnedIn(stored', decision.version, decision.since)
        BY <1>1, <2>8
      <4> QED BY <1>2, <2>5, <4>1, <4>2
    <3>2. CASE q \in DOMAIN published
      <4>1. published'[q] = published[q] /\ grantedBy'[q] = grantedBy[q]
        BY <2>2, <2>3, <3>2
      <4>2. LET d == published[q].command IN
               /\ d.version \in PolicyVersions /\ d.content # NotStored
               /\ stored[d.version] = d.content /\ d = Fingerprint(grantedBy[q].asked)
               /\ Earned(grantedBy[q].version, grantedBy[q].since)
        BY <1>3, <3>2 DEF PublishedInv
      <4> QED BY <2>6, <2>8, <4>1, <4>2
    <3> QED BY <2>2, <3>1, <3>2
  <2>10. PublishedInv'
    <3>1. DOMAIN grantedBy' = DOMAIN published'
      BY <1>3, <2>2, <2>3 DEF PublishedInv
    <3>2. \A f \in policyAudit' : /\ f.publication \in DOMAIN published'
                                  /\ published'[f.publication].command.version = f.version
      BY <1>3, <2>2 DEF PublishedInv, Known
    <3> QED BY <2>9, <3>1, <3>2 DEF PublishedInv, Known, Earned
  <2>11. p \in DOMAIN published' /\ published'[p].command.version = c.version
    BY <1>2, <2>2, <2>7
  <2> QED BY <1>2, <2>2, <2>5, <2>6, <2>10, <2>11 DEF p, c
<1> QED BY <1>4, <1>5

\* What others know of the versions and the publications stays so.
LEMMA DecisionsStay ==
  ASSUME PublicationInv, NEW j \in AuthorizationCalls, checking'[j] = checking[j],
         \A v \in PolicyVersions : stored[v] # NotStored => stored'[v] = stored[v],
         \A p \in DOMAIN published : p \in DOMAIN published' /\ published'[p] = published[p]
  PROVE  DecisionHolds(checking[j])'
<1>1. DecisionHolds(checking[j])
  BY DecisionIs
<1>2. \A v, t : EarnedIn(stored, v, t) => EarnedIn(stored', v, t)
  BY DEF EarnedIn
<1> QED BY <1>1, <1>2 DEF DecisionHolds, Earned, Known

\* A call that publishes, or tells that it has.
LEMMA PublishingKeeps ==
  ASSUME PublicationInv, NEW k \in AuthorizationCalls, PublishPolicy(k)
  PROVE  PublicationInv'
<1> DEFINE call == checking[k]
<1>1. /\ CallAt(k, "publishing") /\ call.at = "publishing" /\ UNCHANGED policyAudit
      /\ Persisted(call.for, call.asked, call)
  BY DEF PublishPolicy, CallAt
<1>2. /\ PublishedInv'
      /\ DOMAIN stored' = PolicyVersions /\ current' \in PolicyVersions
      /\ \A v \in PolicyVersions : stored[v] # NotStored => stored'[v] = stored[v]
      /\ \A p \in DOMAIN published : p \in DOMAIN published' /\ published'[p] = published[p]
      /\ call.for \in DOMAIN published'
      /\ published'[call.for].command.version = call.asked.version
  BY <1>1, PersistingKeeps
<1>3. PICK next : /\ checking' = [checking EXCEPT ![k] = next]
                  /\ next = Waiting \/ next = [at |-> "auditing", for |-> call.for, asked |-> call.asked]
  BY DEF PublishPolicy, Ends, PublicationInv
<1>4. /\ DOMAIN checking' = AuthorizationCalls /\ checking'[k] = next
      /\ \A j \in AuthorizationCalls : j # k => checking'[j] = checking[j]
  BY <1>3 DEF PublicationInv
<1>5. DecisionHolds(call)
  BY DecisionIs
<1>6. DecisionHolds(checking[k])'
  <2>1. CASE next = Waiting
    BY <1>4, <2>1 DEF DecisionHolds, Waiting, DecidingPlaces
  <2>2. CASE next = [at |-> "auditing", for |-> call.for, asked |-> call.asked]
    <3>1. next.at = "auditing" /\ next.for = call.for /\ next.asked = call.asked
          /\ {"for", "asked"} \subseteq DOMAIN next
      BY <2>2
    <3>2. /\ call.for # "check" /\ call.for \in Publications
          /\ call.asked \in CommandsOf[call.for] /\ Sound(call.asked)
      BY <1>1, <1>5 DEF DecisionHolds, DecidingPlaces
    <3>3. DecisionHolds(checking[k])' <=>
            /\ next.for # "check" =>
                 next.for \in Publications /\ next.asked \in CommandsOf[next.for] /\ Sound(next.asked)
            /\ next.for # "check" /\ next.for \in DOMAIN published'
            /\ published'[next.for].command.version = next.asked.version
      BY <1>4, <3>1 DEF DecisionHolds, DecidingPlaces, Known, Sound
    <3> QED BY <1>2, <3>1, <3>2, <3>3
  <2> QED BY <1>3, <2>1, <2>2
<1>7. \A j \in AuthorizationCalls : DecisionHolds(checking[j])'
  BY <1>2, <1>4, <1>6, DecisionsStay
<1> QED BY <1>2, <1>4, <1>7 DEF PublicationInv

LEMMA AuditingKeeps ==
  ASSUME PublicationInv, NEW k \in AuthorizationCalls, AuditSuccess(k)
  PROVE  PublicationInv'
<1> DEFINE fact == AuditRecord(k)
<1>1. /\ checking[k].at = "auditing" /\ checking' = [checking EXCEPT ![k] = Waiting]
      /\ UNCHANGED <<stored, published, current, grantedBy>>
      /\ policyAudit' = policyAudit \cup {fact} \/ policyAudit' = policyAudit
  BY DEF AuditSuccess, CallAt, Ends, policyVars
<1>2. Known(fact.publication) /\ published[fact.publication].command.version = fact.version
  BY <1>1, DecisionIs DEF DecisionHolds, AuditRecord
<1> HIDE DEF fact
<1>3. PublishedInv'
  BY <1>1, <1>2 DEF PublicationInv, PublishedInv, Earned, EarnedIn, Known
<1>4. /\ DOMAIN checking' = AuthorizationCalls /\ checking'[k] = Waiting
      /\ \A j \in AuthorizationCalls : j # k => checking'[j] = checking[j]
  BY <1>1 DEF PublicationInv
<1>5. \A j \in AuthorizationCalls : DecisionHolds(checking[j])'
  <2>1. DecisionHolds(checking[k])'
    BY <1>4 DEF DecisionHolds, Waiting, DecidingPlaces
  <2> QED BY <1>1, <1>4, <2>1, DecisionsStay
<1> QED BY <1>1, <1>3, <1>4, <1>5 DEF PublicationInv

LEMMA PublicationSteps ==
  PublicationInv /\ [AuthorizationNext]_authorizationVars => PublicationInv'
<1> SUFFICES ASSUME PublicationInv, [AuthorizationNext]_authorizationVars PROVE PublicationInv'
  OBVIOUS
<1>1. CASE PolicyTick \/ UNCHANGED authorizationVars
  <2>1. UNCHANGED <<stored, published, current, checking, grantedBy, policyAudit>>
    BY <1>1 DEF PolicyTick, authorizationVars, policyVars, recordVars
  <2>2. PublishedInv'
    BY <2>1 DEF PublicationInv, PublishedInv, Earned, EarnedIn, Known
  <2>3. \A j \in AuthorizationCalls : DecisionHolds(checking[j])'
    BY <2>1, DecisionsStay
  <2> QED BY <2>1, <2>2, <2>3 DEF PublicationInv
<1> QED BY <1>1, ChecksKeep, PublishingKeeps, AuditingKeeps DEF AuthorizationNext

LEMMA PublicationInitially == AuthorizationInit => PublicationInv
<1> SUFFICES ASSUME AuthorizationInit PROVE PublicationInv
  OBVIOUS
<1>1. /\ DOMAIN stored = PolicyVersions /\ current \in PolicyVersions
      /\ DOMAIN checking = AuthorizationCalls
      /\ \A k \in AuthorizationCalls : checking[k] = Waiting
      /\ DOMAIN published = {} /\ DOMAIN grantedBy = {} /\ policyAudit = {}
  BY AuthorizationAssumption DEF AuthorizationInit
<1>2. PublishedInv
  BY <1>1 DEF PublishedInv
<1>3. \A k \in AuthorizationCalls : DecisionHolds(checking[k])
  BY <1>1 DEF DecisionHolds, Waiting, DecidingPlaces
<1> QED BY <1>1, <1>2, <1>3 DEF PublicationInv

\* The pointer moves with a new publication, which found the version it expected.
LEMMA PointerMoves ==
  ASSUME PublicationInv, [AuthorizationNext]_authorizationVars, current' # current
  PROVE  \E p \in Publications :
           /\ ~Known(p) /\ p \in DOMAIN published'
           /\ published'[p].command.version = current'
           /\ published'[p].previous = current
           /\ published'[p].command.expected \in {AnyVersion, current}
<1>1. PICK k \in AuthorizationCalls : PublishPolicy(k)
  BY DEF AuthorizationNext, authorizationVars, PolicyTick, AskCheck, AskToPublish, BeginDecision,
         ReadCurrent, PolicyUnavailable, Evaluate, Decided, RecorderFails, PublishRefused,
         AuditSuccess, otherVars, policyVars
<1> DEFINE p == checking[k].for
           c == checking[k].asked
           entry == [command |-> Fingerprint(c), previous |-> current]
<1>2. p \in Publications /\ c \in CommandsOf[p] /\ Sound(c)
  BY <1>1, DecisionIs DEF PublishPolicy, DecisionHolds, CallAt, DecidingPlaces
<1>3. ~Known(p) /\ Publishable(c) /\ Appended(p, c, checking[k])
  BY <1>1 DEF PublishPolicy, Persisted, policyVars
<1>4. p \in DOMAIN published' /\ published'[p] = entry /\ current' = c.version
      /\ c.expected \in {AnyVersion, current}
  BY <1>3 DEF Appended, Publishable
<1>5. entry.command.version = c.version /\ entry.command.expected = c.expected
      /\ entry.previous = current
  BY <1>2, FingerprintIs
<1> HIDE DEF p, c, entry
<1> QED BY <1>2, <1>3, <1>4, <1>5

\* Whatever is asked, published again or lost: what is audited as published is, under a
\* decision a stored policy gave, with the content it was given then, and no retry moves
\* the pointer back.
THEOREM PublicationsStaySound == AuthorizationSpec => PublicationsAreSound
<1>1. PublicationInv => PublicationsAreEarned
  BY DEF PublicationInv, PublishedInv, PublicationsAreEarned, Earned, EarnedIn
<1>2. PublicationInv /\ [AuthorizationNext]_authorizationVars =>
        [current' # current =>
           \E p \in Publications :
             /\ ~Known(p) /\ p \in DOMAIN published'
             /\ published'[p].command.version = current'
             /\ published'[p].previous = current
             /\ published'[p].command.expected \in {AnyVersion, current}]_authorizationVars
  BY PointerMoves
<1> QED BY <1>1, <1>2, PublicationInitially, PublicationSteps, PTL
       DEF AuthorizationSpec, PublicationsAreSound, RetriesDoNotRollBack

-----------------------------------------------------------------------------
(* The hierarchy of the organization: what its recursion computes.         *)

\* The units directly above those of a set.
Above(pairs, units) == {p[2] : p \in {q \in pairs : q[1] \in units}}

\* The equation of the recursive function behind AncestorsIn.
Climbs(pairs, unit, last, f) ==
  f = [n \in 0..last |->
        IF n = 0 THEN {p[2] : p \in {q \in pairs : q[1] = unit}}
        ELSE f[n - 1] \cup {p[2] : p \in {q \in pairs : q[1] \in f[n - 1]}}]

\* Every nonempty set of natural numbers has a least element.
LEMMA LeastNumber ==
  ASSUME NEW S, S \subseteq Nat, S # {}
  PROVE  \E m \in S : \A k \in S : m <= k
<1>1. PICK m \in S : \A k \in S : <<k, m>> \notin OpToRel(<, Nat)
  BY WFMin, NatLessThanWellFounded
<1>2. \A k, l \in Nat : k < l => <<k, l>> \in OpToRel(<, Nat)
  BY Zenon DEF OpToRel
<1>3. \A k \in S : ~(k < m)
  BY <1>1, <1>2
<1> QED BY <1>3

\* The recursive function exists.
LEMMA ClimbExists ==
  ASSUME NEW pairs, NEW unit, NEW last \in Nat
  PROVE  \E f : Climbs(pairs, unit, last, f)
<1> DEFINE S == {n \in Nat : ~ \E f : Climbs(pairs, unit, n, f)}
<1> SUFFICES ASSUME S # {} PROVE FALSE
  OBVIOUS
<1>1. PICK m \in S : \A k \in S : m <= k
  BY LeastNumber
<1>2. CASE m = 0
  <2>1. Climbs(pairs, unit, 0, [n \in 0..0 |-> {p[2] : p \in {q \in pairs : q[1] = unit}}])
    BY DEF Climbs
  <2> QED BY <1>1, <1>2, <2>1
<1>3. CASE m # 0
  <2>1. m - 1 \in Nat /\ m - 1 \notin S
    BY <1>1, <1>3
  <2>2. PICK g : Climbs(pairs, unit, m - 1, g)
    BY <2>1
  <2> DEFINE A == {p[2] : p \in {q \in pairs : q[1] = unit}}
             U(us) == us \cup {p[2] : p \in {q \in pairs : q[1] \in us}}
             f == [n \in 0..m |-> IF n = m THEN U(g[m - 1]) ELSE g[n]]
  <2>3. g = [n \in 0..(m - 1) |-> IF n = 0 THEN A ELSE U(g[n - 1])]
    BY <2>2 DEF Climbs
  <2> HIDE DEF A, U
  <2>4. ASSUME NEW n \in 0..m
        PROVE  f[n] = IF n = 0 THEN A ELSE U(f[n - 1])
    <3>1. CASE n = m
      BY <1>3, <2>1, <3>1
    <3>2. CASE n # m
      <4>1. n \in 0..(m - 1) /\ (n # 0 => n - 1 \in 0..(m - 1) /\ n - 1 \in 0..m /\ n - 1 # m)
        BY <2>1, <3>2
      <4> QED BY <2>3, <3>2, <4>1
    <3> QED BY <3>1, <3>2
  <2>5. f = [n \in 0..m |-> IF n = 0 THEN A ELSE U(f[n - 1])]
    <3> DEFINE h == [n \in 0..m |-> IF n = 0 THEN A ELSE U(f[n - 1])]
    <3>1. \A n \in 0..m : f[n] = h[n]
      BY <2>4
    <3> QED BY <3>1
  <2> HIDE DEF f
  <2>6. Climbs(pairs, unit, m, f)
    BY <2>5 DEF Climbs, A, U
  <2> QED BY <1>1, <2>6
<1> QED BY <1>2, <1>3

\* AncestorsIn is the last value of a climb.
LEMMA AncestorsClimb ==
  ASSUME NEW pairs, NEW unit, Cardinality(OrgUnits) \in Nat
  PROVE  \E f : /\ Climbs(pairs, unit, Cardinality(OrgUnits), f)
                /\ AncestorsIn(pairs, unit) = f[Cardinality(OrgUnits)]
<1> DEFINE f == CHOOSE f : Climbs(pairs, unit, Cardinality(OrgUnits), f)
<1>1. Climbs(pairs, unit, Cardinality(OrgUnits), f)
  BY ClimbExists
<1>2. AncestorsIn(pairs, unit) = f[Cardinality(OrgUnits)]
  BY DEF AncestorsIn, Climbs
<1> QED BY <1>1, <1>2

\* What holds at zero and of a successor holds of every number up to the last.
LEMMA EveryNumber ==
  ASSUME NEW last \in Nat, NEW good, 0 \in good, \A n \in 0..last : n \in good /\ n < last => n + 1 \in good
  PROVE  \A n \in 0..last : n \in good
<1> DEFINE S == {n \in 0..last : n \notin good}
<1> SUFFICES ASSUME S # {} PROVE FALSE
  OBVIOUS
<1>1. PICK m \in S : \A k \in S : m <= k
  <2>1. S \subseteq Nat
    OBVIOUS
  <2> HIDE DEF S
  <2> QED BY <2>1, LeastNumber
<1>2. m # 0 /\ m - 1 \in 0..last /\ m - 1 \notin S /\ m - 1 < last
  BY <1>1
<1>3. (m - 1) + 1 \in good
  BY <1>2
<1> QED BY <1>1, <1>3

\* A climb begins with the parents and adds what is directly above.
LEMMA ClimbSteps ==
  ASSUME NEW pairs, NEW unit, NEW last \in Nat, NEW f, Climbs(pairs, unit, last, f)
  PROVE  /\ f[0] = Above(pairs, {unit})
         /\ \A n \in 0..last : n < last => f[n + 1] = f[n] \cup Above(pairs, f[n])
<1> DEFINE A == {p[2] : p \in {q \in pairs : q[1] = unit}}
           U(us) == {p[2] : p \in {q \in pairs : q[1] \in us}}
<1>1. f = [n \in 0..last |-> IF n = 0 THEN A ELSE f[n - 1] \cup U(f[n - 1])]
  BY DEF Climbs
<1>2. A = Above(pairs, {unit}) /\ \A n : U(f[n]) = Above(pairs, f[n])
  BY DEF Above
<1> HIDE DEF A, U
<1>3. f[0] = A
  BY <1>1
<1>4. ASSUME NEW n \in 0..last, n < last PROVE f[n + 1] = f[n] \cup U(f[n])
  <2>1. n + 1 \in 0..last /\ n + 1 # 0 /\ (n + 1) - 1 = n
    BY <1>4
  <2> QED BY <1>1, <2>1
<1> QED BY <1>2, <1>3, <1>4

\* The number of units, with which AncestorsIn bounds its climb.
LEMMA UnitsAreCounted == Cardinality(OrgUnits) \in Nat
BY OrgAssumption, FS_CardinalityType

\* The ancestors are within every set that has the parents and is closed upwards.
LEMMA AncestorsWithin ==
  ASSUME NEW pairs, NEW unit, NEW S, Above(pairs, {unit}) \subseteq S, Above(pairs, S) \subseteq S
  PROVE  AncestorsIn(pairs, unit) \subseteq S
<1> DEFINE last == Cardinality(OrgUnits)
<1>0. last \in Nat
  BY UnitsAreCounted
<1>1. PICK f : Climbs(pairs, unit, last, f) /\ AncestorsIn(pairs, unit) = f[last]
  BY UnitsAreCounted, AncestorsClimb
<1> HIDE DEF last
<1>2. f[0] = Above(pairs, {unit}) /\ \A n \in 0..last : n < last => f[n + 1] = f[n] \cup Above(pairs, f[n])
  <2>1. Climbs(pairs, unit, last, f)
    BY <1>1
  <2> QED BY ONLY <1>0, <2>1, ClimbSteps
<1> DEFINE good == {n \in Nat : f[n] \subseteq S}
<1>3. 0 \in good
  BY <1>2
<1>4. ASSUME NEW n \in 0..last, n \in good, n < last PROVE n + 1 \in good
  <2>1. Above(pairs, f[n]) \subseteq Above(pairs, S)
    BY <1>4 DEF Above
  <2> QED BY <1>0, <1>2, <1>4, <2>1
<1>5. last \in good
  <2> HIDE DEF good
  <2> QED BY <1>0, <1>3, <1>4, EveryNumber
<1> QED BY <1>1, <1>5

\* As many steps as there are units climb as far as there is anything above.
LEMMA AncestorsClosed ==
  ASSUME NEW pairs, NEW unit, \A p \in pairs : p[2] \in OrgUnits
  PROVE  /\ Above(pairs, {unit}) \subseteq AncestorsIn(pairs, unit)
         /\ Above(pairs, AncestorsIn(pairs, unit)) \subseteq AncestorsIn(pairs, unit)
<1> DEFINE last == Cardinality(OrgUnits)
<1>0. last \in Nat /\ 0 \in 0..last /\ last \in 0..last
  BY UnitsAreCounted
<1>1. PICK f : Climbs(pairs, unit, last, f) /\ AncestorsIn(pairs, unit) = f[last]
  BY UnitsAreCounted, AncestorsClimb
<1> HIDE DEF last
<1>2. f[0] = Above(pairs, {unit}) /\ \A n \in 0..last : n < last => f[n + 1] = f[n] \cup Above(pairs, f[n])
  BY <1>0, <1>1, ClimbSteps
<1> DEFINE low == {n \in Nat : f[0] \subseteq f[n] /\ f[n] \subseteq OrgUnits}
<1>3. \A n \in 0..last : n \in low
  <2>1. 0 \in low
    BY <1>2 DEF Above
  <2>2. ASSUME NEW n \in 0..last, n \in low, n < last PROVE n + 1 \in low
    <3>1. Above(pairs, f[n]) \subseteq OrgUnits
      BY DEF Above
    <3>2. f[n + 1] = f[n] \cup Above(pairs, f[n]) /\ n + 1 \in Nat
      BY <1>0, <1>2, <2>2
    <3>3. f[0] \subseteq f[n + 1] /\ f[n + 1] \subseteq OrgUnits
      BY <2>2, <3>1, <3>2
    <3> QED BY <3>2, <3>3
  <2> HIDE DEF low
  <2> QED BY <1>0, <2>1, <2>2, EveryNumber
<1>4. ASSUME ~(Above(pairs, f[last]) \subseteq f[last]) PROVE FALSE
  <2>1. ASSUME NEW n \in 0..last, Above(pairs, f[n]) \subseteq f[n] PROVE FALSE
    <3> DEFINE same == {k \in Nat : k >= n => f[k] = f[n]}
    <3>1. 0 \in same
      BY <2>1
    <3>2. ASSUME NEW k \in 0..last, k \in same, k < last PROVE k + 1 \in same
      <4>1. CASE k >= n
        <5>1. f[k + 1] = f[k] \cup Above(pairs, f[k]) /\ k + 1 \in Nat
          BY <1>0, <1>2, <3>2
        <5>2. f[k] = f[n]
          BY <3>2, <4>1
        <5> QED BY <2>1, <5>1, <5>2
      <4>2. CASE k < n
        BY <2>1, <3>2, <4>2
      <4> QED BY <4>1, <4>2, <1>0, <2>1, <3>2
    <3>3. last \in same
      <4> HIDE DEF same
      <4> QED BY <1>0, <3>1, <3>2, EveryNumber
    <3> QED BY <1>0, <1>4, <2>1, <3>3
  <2> DEFINE tall == {n \in Nat : IsFiniteSet(f[n]) /\ Cardinality(f[n]) >= n + 1}
  <2>2. \A n \in 0..last : IsFiniteSet(f[n]) /\ Cardinality(f[n]) \in Nat /\ Cardinality(f[n]) <= last
    BY <1>3, OrgAssumption, FS_Subset, FS_CardinalityType, UnitsAreCounted DEF last
  <2>3. 0 \in tall
    <3>1. f[0] # {}
      <4>1. Above(pairs, {}) = {}
        BY DEF Above
      <4> QED BY <1>0, <2>1, <4>1
    <3>2. Cardinality(f[0]) # 0
      BY <1>0, <2>2, <3>1, FS_EmptySet
    <3> QED BY <1>0, <2>2, <3>2
  <2>4. ASSUME NEW n \in 0..last, n \in tall, n < last PROVE n + 1 \in tall
    <3>1. n + 1 \in 0..last /\ f[n] \subseteq f[n + 1] /\ f[n] # f[n + 1]
      BY <1>0, <1>2, <2>1, <2>4
    <3>2. Cardinality(f[n]) <= Cardinality(f[n + 1]) /\ Cardinality(f[n]) # Cardinality(f[n + 1])
      BY <2>2, <3>1, FS_Subset
    <3> QED BY <2>2, <2>4, <3>1, <3>2
  <2>5. last \in tall
    <3> HIDE DEF tall
    <3> QED BY <1>0, <2>3, <2>4, EveryNumber
  <2> QED BY <1>0, <2>2, <2>5
<1> QED BY <1>0, <1>1, <1>2, <1>3, <1>4

-----------------------------------------------------------------------------
(* The invariant.                                                          *)

\* The fields of a row; the placement of a unit is a row of its own.
RowFields(kind) == IF kind = "unit" THEN {"from", "to"} ELSE OrgFields(kind)

\* A row as the tables' constraints leave it.
RowIsWhole(row) ==
  /\ row = [f \in DOMAIN row |-> row[f]]
  /\ row.kind \in FactKinds \ {"close"}
  /\ {"kind"} \cup RowFields(row.kind) \subseteq DOMAIN row
  /\ Dated(row) =>
       row.from \in OrgTimes /\ row.to \in OrgTimes \cup {Forever} /\ row.from < row.to
  /\ row.kind = "placement" => row.unit \in OrgUnits /\ row.parent \in OrgUnits \cup {NoParent}

FactsAreWhole ==
  \A i \in DOMAIN orgFacts :
    /\ RowIsWhole(orgFacts[i])
    /\ orgFacts[i].kind = "assignment" => OrgHas("employment", orgFacts[i].employment)

ReceiptsAreTyped ==
  \A o \in DOMAIN orgReceipts : o \in OrgOperations /\ orgReceipts[o] \in OrgCommandsOf[o]

\* A call under way: its place, its operation and its command.
OrgCallAt(place, o, m) == [at |-> place, op |-> o, command |-> m]

CallIsTyped(c) ==
  \/ orgCalls[c] = OrgIdle
  \/ \E place \in {"claiming", "writing", "committing"}, o \in OrgOperations :
       \E m \in OrgCommandsOf[o] : orgCalls[c] = OrgCallAt(place, o, m)

CallsAreTyped == DOMAIN orgCalls = OrgCallers /\ \A c \in OrgCallers : CallIsTyped(c)

\* The employment of an assignment was seen, and facts do not go away.
EmploymentWasSeen ==
  \A c \in OrgCallers, o \in OrgOperations : \A m \in OrgCommandsOf[o] :
    orgCalls[c] # OrgIdle /\ orgCalls[c].command = m /\ m.kind = "assignment" =>
      OrgHas("employment", m.employment)

\* An operation that is past its claim is one caller's, and has no receipt.
ClaimsAreApart ==
  \A c \in OrgCallers : orgCalls[c].at \in {"writing", "committing"} =>
    /\ orgCalls[c].op \notin DOMAIN orgReceipts
    /\ \A d \in OrgCallers \ {c} :
         orgCalls[d].at \in {"writing", "committing"} => orgCalls[d].op # orgCalls[c].op

\* Uncommitted transactions are at different rows.
RowsAreApart ==
  \A c, d \in OrgCallers : c # d /\ CallIs(c, "committing") /\ CallIs(d, "committing") =>
    IdsOf(orgCalls[d].command) \cap IdsOf(orgCalls[c].command) = {}

Holds(c, row) == \A l \in LocksFor(row) : l \in DOMAIN orgLocks /\ orgLocks[l] = c

\* What the statements and the triggers found of a command.
WriteHolds(c, m) ==
  /\ RowMatches(m)
  /\ \A i \in IdsOf(m) : \A row \in {WrittenAt(m, i)} : ~Refuses(i, row) /\ Holds(c, row)

\* It holds until the commit.
WritesHold ==
  \A c \in OrgCallers, o \in OrgOperations : \A m \in OrgCommandsOf[o] :
    orgCalls[c] = OrgCallAt("committing", o, m) => WriteHolds(c, m)

CommandInv ==
  /\ FactsAreWhole /\ ReceiptsAreTyped /\ CallsAreTyped /\ EmploymentWasSeen
  /\ ClaimsAreApart /\ RowsAreApart /\ WritesHold /\ HierarchyIsSound /\ ReceiptsAreBacked

\* A unit is covered when a placement of it is among the facts, or is being looked
\* for.
Covered(unit) ==
  \/ \E p \in BasedOn("placement") : orgFacts[p].unit = unit
  \/ ReadingIs("climbing") /\ orgReading.unit = unit

ReadingIsTyped ==
  orgReading = OrgIdle \/
  orgReading \in [at : {"associated", "employed", "assigned", "climbing"}, time : OrgTimes,
                  person : {orgReading.person}, based : SUBSET DOMAIN orgFacts,
                  left : SUBSET DOMAIN orgFacts, unit : {orgReading.unit},
                  visited : {orgReading.visited}, over : SUBSET DOMAIN orgFacts]

\* What was over stays over; what is rested on was in force.
NothingIsOver ==
  /\ \A i \in orgReading.over : Dated(orgFacts[i]) /\ orgFacts[i].to <= orgReading.time
  /\ orgReading.based \cap orgReading.over = {}

\* The persons and employments agree at every place of the resolution.
PersonsAgree ==
  /\ orgReading.at \in {"employed", "assigned", "climbing"} => BasedOn("employment") # {}
  /\ \A i \in BasedOn("employment") \cup BasedOn("association") :
       orgFacts[i].person = orgReading.person
  /\ \A i \in BasedOn("assignment") : orgFacts[i].employment \in BasedOn("employment")

PathsAreCovered ==
  /\ orgReading.at \in {"associated", "employed"} =>
       BasedOn("assignment") = {} /\ BasedOn("placement") = {}
  /\ orgReading.left \subseteq BasedOn("assignment")
  /\ \A i \in BasedOn("assignment") : i \in orgReading.left \/ Covered(orgFacts[i].unit)
  /\ \A p \in BasedOn("placement") :
       orgFacts[p].parent = NoParent \/ Covered(orgFacts[p].parent)

ContextInv ==
  ReadingIsTyped /\ (~ReadingIs("idle") => NothingIsOver /\ PersonsAgree /\ PathsAreCovered)

OrgInv == CommandInv /\ ContextInv

-----------------------------------------------------------------------------
(* The hierarchy and one more placement.                                   *)

\* Parent pairs none of whose units is above itself.
Acyclic(pairs) == \A u \in OrgUnits : u \notin AncestorsIn(pairs, u)

PairsInUnits(pairs) == \A p \in pairs : p[2] \in OrgUnits

\* Fewer pairs, fewer ancestors.
LEMMA FewerAncestors ==
  ASSUME NEW pairs, NEW more, NEW unit, pairs \subseteq more, PairsInUnits(more)
  PROVE  AncestorsIn(pairs, unit) \subseteq AncestorsIn(more, unit)
<1>1. Above(more, {unit}) \subseteq AncestorsIn(more, unit)
      /\ Above(more, AncestorsIn(more, unit)) \subseteq AncestorsIn(more, unit)
  BY AncestorsClosed DEF PairsInUnits
<1>2. \A S : Above(pairs, S) \subseteq Above(more, S)
  BY DEF Above
<1>3. Above(pairs, {unit}) \subseteq AncestorsIn(more, unit)
      /\ Above(pairs, AncestorsIn(more, unit)) \subseteq AncestorsIn(more, unit)
  BY <1>1, <1>2
<1> QED BY <1>3, AncestorsWithin

\* A pair whose unit is neither the parent nor above it closes no cycle.
LEMMA NewPairClosesNothing ==
  ASSUME NEW pairs, NEW more, NEW unit, NEW parent \in OrgUnits,
         PairsInUnits(pairs), Acyclic(pairs),
         unit \notin {parent} \cup AncestorsIn(pairs, parent),
         more \subseteq pairs \cup {<<unit, parent>>}
  PROVE  Acyclic(more)
<1> DEFINE Anc(v) == AncestorsIn(pairs, v)
           top == {parent} \cup Anc(parent)
           S(v) == Anc(v) \cup (IF unit \in {v} \cup Anc(v) THEN top ELSE {})
<1>1. \A v : Above(pairs, {v}) \subseteq Anc(v) /\ Above(pairs, Anc(v)) \subseteq Anc(v)
  BY AncestorsClosed DEF PairsInUnits
<1>2. \A T : Above(more, T) \subseteq Above(pairs, T) \cup (IF unit \in T THEN {parent} ELSE {})
  BY DEF Above
<1>3. Above(pairs, top) \subseteq top
  <2>1. Above(pairs, top) \subseteq Above(pairs, {parent}) \cup Above(pairs, Anc(parent))
    BY DEF Above
  <2> QED BY <1>1, <2>1
<1> SUFFICES ASSUME NEW u \in OrgUnits PROVE u \notin AncestorsIn(more, u)
  BY DEF Acyclic
<1>4. u \notin Anc(u)
  BY DEF Acyclic
<1>5. unit \notin top
  OBVIOUS
<1> HIDE DEF Anc
<1>6. Above(more, {u}) \subseteq S(u)
  BY <1>1, <1>2
<1>7. Above(more, S(u)) \subseteq S(u)
  <2>1. CASE unit \in {u} \cup Anc(u)
    <3>1. Above(pairs, S(u)) \subseteq Above(pairs, Anc(u)) \cup Above(pairs, top)
      BY DEF Above
    <3> QED BY <1>1, <1>2, <1>3, <2>1, <3>1
  <2>2. CASE unit \notin {u} \cup Anc(u)
    <3>1. S(u) = Anc(u)
      BY <2>2
    <3> HIDE DEF S
    <3>2. Above(more, Anc(u)) \subseteq Above(pairs, Anc(u)) \cup {}
      BY <1>2, <2>2
    <3> QED BY <1>1, <3>1, <3>2
  <2> QED BY <2>1, <2>2
<1>8. u \notin S(u)
  <2>1. CASE unit = u
    BY <1>4, <1>5, <2>1
  <2>2. CASE unit # u /\ unit \in Anc(u)
    <3>1. SUFFICES ASSUME u \in top PROVE FALSE
      BY <1>4
    <3>2. Anc(u) \subseteq top
      <4>1. Above(pairs, {u}) \subseteq Above(pairs, top)
        BY <3>1 DEF Above
      <4>2. Above(pairs, {u}) \subseteq top
        BY <4>1, <1>3
      <4> HIDE DEF top
      <4> QED BY <1>3, <4>2, AncestorsWithin DEF Anc
    <3> QED BY <1>5, <2>2, <3>2
  <2>3. CASE unit # u /\ unit \notin Anc(u)
    BY <1>4, <2>3
  <2> QED BY <2>1, <2>2, <2>3
<1> HIDE DEF S
<1> QED BY <1>6, <1>7, <1>8, AncestorsWithin

\* Of the checkpoints of a row the last one before a time has every placement that
\* is in force at that time.
LEMMA LastCheckpoint ==
  ASSUME NEW row, row.from \in Nat, row.to \in Nat, NEW t \in Nat, ActiveAt(row, t),
         \A p \in RowsOf("placement") : orgFacts[p].from \in Nat /\ orgFacts[p].to \in Nat
  PROVE  \E k \in Checkpoints(row) : ParentsAt(t) \subseteq ParentsAt(k)
<1> DEFINE gaps == {n \in Nat : \E k \in Checkpoints(row) : k <= t /\ n = t - k}
<1>1. \A k \in Checkpoints(row) : k \in Nat /\ row.from <= k
  BY DEF Checkpoints
<1>2. t - row.from \in gaps
  BY DEF Checkpoints, ActiveAt
<1>3. PICK n \in gaps : \A j \in gaps : n <= j
  <2>1. gaps \subseteq Nat
    OBVIOUS
  <2> HIDE DEF gaps
  <2> QED BY <1>2, <2>1, LeastNumber
<1>4. PICK k \in Checkpoints(row) : k <= t /\ n = t - k
  BY <1>3
<1>5. \A j \in Checkpoints(row) : j <= t => j <= k
  <2> SUFFICES ASSUME NEW j \in Checkpoints(row), j <= t PROVE j <= k
    OBVIOUS
  <2>1. t - j \in gaps
    BY <1>1
  <2> QED BY <1>1, <1>3, <1>4, <2>1
<1>6. ASSUME NEW p \in InForce("placement", t) PROVE p \in InForce("placement", k)
  <2>1. p \in RowsOf("placement") /\ orgFacts[p].from <= t /\ t < orgFacts[p].to
    BY <1>6 DEF InForce, ActiveAt
  <2>2. orgFacts[p].from <= k
    <3>1. CASE orgFacts[p].from <= row.from
      BY <1>1, <1>4, <2>1, <3>1
    <3>2. CASE row.from < orgFacts[p].from
      <4>1. orgFacts[p].from \in Checkpoints(row)
        BY <2>1, <3>2 DEF Checkpoints, ActiveAt
      <4> QED BY <1>5, <2>1, <4>1
    <3> QED BY <2>1, <3>1, <3>2
  <2> QED BY <1>1, <1>4, <2>1, <2>2 DEF InForce, ActiveAt
<1> QED BY <1>4, <1>6 DEF ParentsAt

-----------------------------------------------------------------------------
(* What a command writes.                                                  *)

\* A fact as it was, but for an end that it did not have.
Amends(row, old) ==
  /\ row.to \in OrgTimes /\ old.to \in {Forever, row.to}
  /\ row = [old EXCEPT !.to = row.to]
  /\ old.kind \in Closable

\* What the assumption says of a command.
LEMMA CommandsAreWhole ==
  ASSUME NEW o \in OrgOperations, NEW m \in OrgCommandsOf[o]
  PROVE  /\ m = [f \in DOMAIN m |-> m[f]]
         /\ m.kind \in FactKinds /\ {"kind", "id"} \cup OrgFields(m.kind) \subseteq DOMAIN m
         /\ m.kind = "unit" => m.id \in OrgUnits
         /\ m.kind = "placement" => m.unit \in OrgUnits
         /\ m.kind \in {"unit", "placement"} => m.parent \in OrgUnits \cup {NoParent}
         /\ m.kind = "close" => m.closes \in Closable /\ m.to \in OrgTimes
         /\ m.kind \notin {"person", "close"} =>
              m.from \in OrgTimes /\ m.to \in OrgTimes \cup {Forever} /\ m.from < m.to
BY OrgAssumption

\* A close amends its row; every other row is new.
LEMMA CloseAmends ==
  ASSUME NEW o \in OrgOperations, NEW m \in OrgCommandsOf[o], m.kind = "close",
         RowMatches(m), FactsAreWhole
  PROVE  /\ IdsOf(m) = {m.id} /\ m.id \in DOMAIN orgFacts
         /\ WrittenAt(m, m.id).to = m.to
         /\ Amends(WrittenAt(m, m.id), orgFacts[m.id])
         /\ RowIsWhole(WrittenAt(m, m.id))
         /\ WrittenAt(m, m.id).kind = orgFacts[m.id].kind
<1> DEFINE old == orgFacts[m.id]
           row == [old EXCEPT !.to = m.to]
<1>1. m.closes \in Closable /\ m.to \in OrgTimes
  BY CommandsAreWhole
<1>2. /\ m.id \in DOMAIN orgFacts /\ old.kind = m.closes /\ old.from < m.to
      /\ old.to \in {Forever, m.to}
  BY DEF RowMatches, ClosingFits, OrgHas, RowsOf
<1>3. RowIsWhole(old)
  BY <1>2 DEF FactsAreWhole
<1>4. WrittenAt(m, m.id) = row
  BY DEF WrittenAt
<1>5. {"kind", "from", "to"} \subseteq DOMAIN old /\ old = [f \in DOMAIN old |-> old[f]]
  BY <1>1, <1>2, <1>3 DEF RowIsWhole, RowFields, OrgFields, Closable, FactKinds
<1>6. row.to = m.to /\ row.from = old.from /\ row.kind = old.kind /\ DOMAIN row = DOMAIN old
  BY <1>5
<1>7. RowIsWhole(row)
  <2>1. row = [f \in DOMAIN row |-> row[f]]
    OBVIOUS
  <2>2. old.kind = "placement" => row.unit \in OrgUnits /\ row.parent \in OrgUnits \cup {NoParent}
    <3>1. old.kind = "placement" => {"unit", "parent"} \subseteq DOMAIN old
      BY <1>3 DEF RowIsWhole, RowFields, OrgFields
    <3>2. old.kind = "placement" => row.unit = old.unit /\ row.parent = old.parent
      BY <3>1
    <3> QED BY <1>3, <3>2 DEF RowIsWhole
  <2>3. old.kind \in FactKinds \ {"close"} /\ {"kind"} \cup RowFields(old.kind) \subseteq DOMAIN old
        /\ (Dated(old) => old.from \in OrgTimes)
    BY <1>3 DEF RowIsWhole
  <2> HIDE DEF row, old
  <2> QED BY <1>1, <1>2, <1>6, <2>1, <2>2, <2>3 DEF RowIsWhole, Dated
<1>8. IdsOf(m) = {m.id}
  BY DEF IdsOf
<1>9. Amends(row, old)
  <2>1. row = [old EXCEPT !.to = row.to]
    BY <1>6
  <2> HIDE DEF row, old
  <2> QED BY <1>1, <1>2, <1>6, <2>1 DEF Amends
<1> QED BY <1>2, <1>4, <1>6, <1>7, <1>8, <1>9

\* A row that is inserted satisfies the tables' constraints.
LEMMA NewRowsAreWhole ==
  ASSUME NEW o \in OrgOperations, NEW m \in OrgCommandsOf[o], m.kind # "close", NEW i \in IdsOf(m)
  PROVE  RowIsWhole(WrittenAt(m, i))
<1> USE CommandsAreWhole
<1>1. CASE m.kind = "unit" /\ i = m.id
  <2>1. m.from \in OrgTimes /\ m.to \in OrgTimes \cup {Forever} /\ m.from < m.to
    BY <1>1
  <2>2. WrittenAt(m, i) = [kind |-> "unit", from |-> m.from, to |-> m.to]
    BY <1>1 DEF WrittenAt
  <2> QED BY <2>1, <2>2 DEF RowIsWhole, RowFields, Dated, FactKinds
<1>2. CASE m.kind = "unit" /\ i # m.id
  <2>1. m.from \in OrgTimes /\ m.to \in OrgTimes \cup {Forever} /\ m.from < m.to
        /\ m.id \in OrgUnits /\ m.parent \in OrgUnits \cup {NoParent}
    BY <1>2
  <2>2. WrittenAt(m, i) = [kind |-> "placement", unit |-> m.id, parent |-> m.parent,
                           from |-> m.from, to |-> m.to]
    BY <1>2 DEF WrittenAt, FirstPlacement
  <2> QED BY <2>1, <2>2 DEF RowIsWhole, RowFields, OrgFields, Dated, FactKinds, Closable
<1>3. CASE m.kind # "unit"
  <2>1. WrittenAt(m, i) = m
    BY <1>3 DEF WrittenAt
  <2>2. {"kind"} \cup RowFields(m.kind) \subseteq DOMAIN m
    BY <1>3 DEF RowFields
  <2>3. Dated(m) => m.from \in OrgTimes /\ m.to \in OrgTimes \cup {Forever} /\ m.from < m.to
    BY DEF Dated
  <2> QED BY <2>1, <2>2, <2>3 DEF RowIsWhole
<1> QED BY <1>1, <1>2, <1>3

\* A command has at most one row of the kinds the triggers watch, and the rows
\* of an assignment are what was asked for.
LEMMA WatchedRowIsAlone ==
  ASSUME NEW o \in OrgOperations, NEW m \in OrgCommandsOf[o],
         NEW i \in IdsOf(m), NEW j \in IdsOf(m),
         WrittenAt(m, i).kind = WrittenAt(m, j).kind
  PROVE  i = j
<1>1. CASE m.kind = "unit"
  <2>1. IdsOf(m) = {m.id, m.placement}
    BY <1>1 DEF IdsOf
  <2>2. WrittenAt(m, m.id).kind = "unit"
    BY <1>1 DEF WrittenAt
  <2>3. m.placement # m.id => WrittenAt(m, m.placement).kind = "placement"
    BY <1>1 DEF WrittenAt, FirstPlacement
  <2> QED BY <2>1, <2>2, <2>3
<1>2. CASE m.kind # "unit"
  BY <1>2 DEF IdsOf
<1> QED BY <1>1, <1>2

\* An assignment or an association is inserted as it was asked for.
LEMMA AssignmentsAreAsked ==
  ASSUME NEW o \in OrgOperations, NEW m \in OrgCommandsOf[o], m.kind # "close", NEW i \in IdsOf(m),
         WrittenAt(m, i).kind \in {"assignment", "association"}
  PROVE  WrittenAt(m, i) = m /\ m.kind = WrittenAt(m, i).kind
BY DEF IdsOf, WrittenAt, FirstPlacement

-----------------------------------------------------------------------------
(* What a step leaves as it was.                                           *)

\* Every fact is there still, as it was or amended.
FactsEndure ==
  \A i \in DOMAIN orgFacts :
    /\ i \in DOMAIN orgFacts'
    /\ orgFacts'[i] = orgFacts[i] \/ Amends(orgFacts'[i], orgFacts[i])

\* The facts that differ are of a command whose locks no other caller has.
OnlyBy(c) ==
  /\ FactsEndure
  /\ \A o \in OrgOperations : \A m \in OrgCommandsOf[o] : orgCalls[c] = OrgCallAt("committing", o, m) =>
       /\ DOMAIN orgFacts' = DOMAIN orgFacts \cup IdsOf(m)
       /\ \A i \in DOMAIN orgFacts \ IdsOf(m) : orgFacts'[i] = orgFacts[i]
       /\ \A i \in IdsOf(m) : orgFacts'[i] = WrittenAt(m, i)

\* A call that is committing has an operation and a command of it.
LEMMA CommittingCall ==
  ASSUME NEW c \in OrgCallers, CallsAreTyped, CallIs(c, "committing")
  PROVE  \E o \in OrgOperations : \E m \in OrgCommandsOf[o] :
           orgCalls[c] = OrgCallAt("committing", o, m) /\ orgCalls[c].command = m /\ orgCalls[c].op = o
BY DEF CallsAreTyped, CallIsTyped, CallIs, OrgCallAt, OrgIdle

\* A commit changes the rows of its command only.
LEMMA CommitIsOnlyBy ==
  ASSUME NEW c \in OrgCallers, CommandInv, CommitCommand(c)
  PROVE  OnlyBy(c)
<1>0. PICK o \in OrgOperations : \E m \in OrgCommandsOf[o] :
        orgCalls[c] = OrgCallAt("committing", o, m) /\ orgCalls[c].command = m
  BY CommittingCall DEF CommitCommand, CommandInv
<1>1. PICK m \in OrgCommandsOf[o] :
        orgCalls[c] = OrgCallAt("committing", o, m) /\ orgCalls[c].command = m
  BY <1>0
<1>2. orgFacts' = [x \in IdsOf(m) \cup DOMAIN orgFacts |->
                     IF x \in IdsOf(m) THEN WrittenAt(m, x) ELSE orgFacts[x]]
  <2>1. DOMAIN Written(m) = IdsOf(m) /\ \A x \in IdsOf(m) : Written(m)[x] = WrittenAt(m, x)
    BY DEF Written
  <2>2. orgFacts' = Overlaid(Written(m), orgFacts)
    BY <1>1 DEF CommitCommand
  <2> QED BY <2>1, <2>2 DEF Overlaid
<1>3. WriteHolds(c, m) /\ FactsAreWhole
  BY <1>1 DEF CommandInv, WritesHold
<1>4. FactsEndure
  <2> SUFFICES ASSUME NEW i \in DOMAIN orgFacts
               PROVE  /\ i \in DOMAIN orgFacts'
                      /\ orgFacts'[i] = orgFacts[i] \/ Amends(orgFacts'[i], orgFacts[i])
    BY DEF FactsEndure
  <2>1. CASE i \notin IdsOf(m)
    BY <1>2, <2>1
  <2>2. CASE i \in IdsOf(m)
    <3>1. m.kind = "close"
      BY <1>3, <2>2 DEF WriteHolds, RowMatches
    <3>2. i = m.id /\ Amends(WrittenAt(m, i), orgFacts[i])
      BY <1>3, <2>2, <3>1, CloseAmends DEF WriteHolds
    <3> QED BY <1>2, <2>2, <3>2
  <2> QED BY <2>1, <2>2
<1>5. \A p \in OrgOperations : \A n \in OrgCommandsOf[p] :
         orgCalls[c] = OrgCallAt("committing", p, n) => n = m
  BY <1>1 DEF OrgCallAt
<1> QED BY <1>2, <1>4, <1>5 DEF OnlyBy

\* Nothing endures like what does not change.
LEMMA UnchangedEndure ==
  ASSUME orgFacts' = orgFacts
  PROVE  FactsEndure
BY DEF FactsEndure

\* The fields of a fact but its end are for good; so is an end that it has.
LEMMA FieldsEndure ==
  ASSUME FactsAreWhole, FactsEndure, NEW i \in DOMAIN orgFacts
  PROVE  /\ DOMAIN orgFacts'[i] = DOMAIN orgFacts[i]
         /\ \A f \in DOMAIN orgFacts[i] : f # "to" => orgFacts'[i][f] = orgFacts[i][f]
         /\ orgFacts'[i].kind = orgFacts[i].kind
         /\ orgFacts[i].to # Forever => orgFacts'[i].to = orgFacts[i].to
         /\ Dated(orgFacts[i]) => orgFacts'[i].from = orgFacts[i].from
         /\ Dated(orgFacts[i]) => orgFacts'[i].to <= orgFacts[i].to
<1>1. RowIsWhole(orgFacts[i])
  BY DEF FactsAreWhole
<1>2. CASE orgFacts'[i] = orgFacts[i]
  <2>1. Dated(orgFacts[i]) => orgFacts[i].to \in Nat
    BY <1>1, OrgAssumption DEF RowIsWhole, OrgTimes, Forever
  <2> QED BY <1>2, <2>1
<1>3. CASE Amends(orgFacts'[i], orgFacts[i])
  <2> DEFINE new == orgFacts'[i]
             old == orgFacts[i]
  <2>1. /\ new.to \in OrgTimes /\ old.to \in {Forever, new.to}
        /\ new = [old EXCEPT !.to = new.to] /\ old.kind \in Closable
    BY <1>3 DEF Amends
  <2>2. {"kind", "from", "to"} \subseteq DOMAIN old
    BY <1>1, <2>1 DEF RowIsWhole, RowFields, OrgFields, Closable, FactKinds
  <2>3. new.to <= old.to
    BY <2>1, OrgAssumption DEF OrgTimes, Forever
  <2>4. DOMAIN new = DOMAIN old /\ \A f \in DOMAIN old : f # "to" => new[f] = old[f]
    <3> DEFINE end == new.to
    <3>1. new = [old EXCEPT !.to = end]
      BY <2>1
    <3> HIDE DEF new, old, end
    <3> QED BY <3>1
  <2>5. new.kind = old.kind /\ new.from = old.from
    <3>1. new["kind"] = old["kind"] /\ new["from"] = old["from"]
      BY <2>2, <2>4
    <3> QED BY <3>1
  <2> QED BY <2>1, <2>3, <2>4, <2>5
<1> QED BY <1>2, <1>3 DEF FactsEndure

\* A fact of a kind stays one.
LEMMA KindsEndure ==
  ASSUME FactsAreWhole, FactsEndure
  PROVE  \A kind : RowsOf(kind) \subseteq RowsOf(kind)'
<1> SUFFICES ASSUME NEW kind, NEW i \in RowsOf(kind) PROVE i \in RowsOf(kind)'
  OBVIOUS
<1>1. i \in DOMAIN orgFacts /\ orgFacts[i].kind = kind
  BY DEF RowsOf
<1>2. i \in DOMAIN orgFacts' /\ orgFacts'[i].kind = kind
  BY <1>1, FieldsEndure DEF FactsEndure
<1> QED BY <1>2 DEF RowsOf

-----------------------------------------------------------------------------
(* What was found before a commit stays true until it: whoever commits     *)
(* meanwhile is at other rows and has none of the locks.                   *)

\* The rows that are written are of no lock of the caller.
Foreign(c, row) == \A l \in LocksFor(row) : ~(l \in DOMAIN orgLocks /\ orgLocks[l] = c)

\* A hierarchy whose placements are the same is the same.
LEMMA SamePlacements ==
  ASSUME RowsOf("placement")' = RowsOf("placement"),
         \A p \in RowsOf("placement") : orgFacts'[p] = orgFacts[p],
         NEW i, NEW row, row.kind = "placement"
  PROVE  Refuses(i, row)' <=> Refuses(i, row)
<1>1. Conflicts(i, row)' <=> Conflicts(i, row)
  BY DEF Conflicts
<1>2. Checkpoints(row)' = Checkpoints(row)
  BY DEF Checkpoints
<1>3. \A t : ParentsAt(t)' = ParentsAt(t)
  <2> TAKE t
  <2>1. InForce("placement", t)' = InForce("placement", t)
    BY DEF InForce
  <2>2. InForce("placement", t) \subseteq RowsOf("placement")
    BY DEF InForce
  <2> QED BY <2>1, <2>2 DEF ParentsAt
<1>4. ClosesCycle(row)' <=> ClosesCycle(row)
  BY <1>2, <1>3 DEF ClosesCycle
<1> QED BY <1>1, <1>4 DEF Refuses

\* Rows that others write, under none of the caller's locks, change nothing of what
\* the statements and the triggers found.
LEMMA WriteStillHolds ==
  ASSUME FactsAreWhole, FactsEndure, NEW c, NEW o \in OrgOperations, NEW m \in OrgCommandsOf[o],
         WriteHolds(c, m), NEW changed, changed \cap IdsOf(m) = {},
         DOMAIN orgFacts' = DOMAIN orgFacts \cup changed,
         \A i \in DOMAIN orgFacts \ changed : orgFacts'[i] = orgFacts[i],
         \A i \in changed : Foreign(c, orgFacts'[i]),
         \A l \in DOMAIN orgLocks : orgLocks[l] = c => l \in DOMAIN orgLocks' /\ orgLocks'[l] = c
  PROVE  WriteHolds(c, m)'
<1>1. \A i \in IdsOf(m) : /\ i \in DOMAIN orgFacts' <=> i \in DOMAIN orgFacts
                          /\ i \in DOMAIN orgFacts => orgFacts'[i] = orgFacts[i]
  OBVIOUS
<1>2. m.kind = "close" => m.id \in IdsOf(m) /\ m.id \in DOMAIN orgFacts
  BY DEF WriteHolds, RowMatches, ClosingFits, OrgHas, RowsOf, IdsOf
<1>3. RowMatches(m)'
  <2>1. CASE m.kind = "close"
    BY <1>1, <1>2, <2>1 DEF WriteHolds, RowMatches, ClosingFits, OrgHas, RowsOf
  <2>2. CASE m.kind # "close"
    BY <1>1, <2>2 DEF WriteHolds, RowMatches
  <2> QED BY <2>1, <2>2
<1>4. ASSUME NEW i \in IdsOf(m) PROVE WrittenAt(m, i)' = WrittenAt(m, i)
  BY <1>1, <1>2 DEF WrittenAt, FirstPlacement
<1> SUFFICES ASSUME NEW i \in IdsOf(m), NEW row \in {WrittenAt(m, i)}
             PROVE  ~Refuses(i, row)' /\ Holds(c, row)'
  BY <1>3, <1>4 DEF WriteHolds
<1>5. ~Refuses(i, row) /\ Holds(c, row)
  BY DEF WriteHolds
<1>6. Holds(c, row)'
  BY <1>5 DEF Holds
<1>7. ~Refuses(i, row)'
  <2>1. CASE row.kind = "placement"
    <3>1. LocksFor(row) = {<<"hierarchy", NoParent>>}
      BY <2>1 DEF LocksFor
    <3>2. ASSUME NEW p \in changed PROVE orgFacts'[p].kind # "placement"
      BY <1>5, <3>1, <3>2 DEF Foreign, Holds, LocksFor
    <3>3. ASSUME NEW p \in RowsOf("placement")' PROVE p \in RowsOf("placement")
      <4>1. p \in DOMAIN orgFacts' /\ orgFacts'[p].kind = "placement" /\ p \notin changed
        BY <3>2, <3>3 DEF RowsOf
      <4> QED BY <4>1 DEF RowsOf
    <3>4. RowsOf("placement") \subseteq RowsOf("placement")'
      BY KindsEndure
    <3>5. ASSUME NEW p \in RowsOf("placement") PROVE orgFacts'[p] = orgFacts[p]
      <4>1. p \in DOMAIN orgFacts /\ orgFacts'[p].kind = "placement"
        BY <3>4, <3>5 DEF RowsOf
      <4> QED BY <3>2, <4>1
    <3>6. RowsOf("placement")' = RowsOf("placement")
      BY <3>3, <3>4
    <3> QED BY <1>5, <2>1, <3>5, <3>6, SamePlacements
  <2>2. CASE row.kind = "association"
    <3>1. LocksFor(row) = {<<"subject", row.subject>>, <<"person", row.person>>}
      BY <2>2 DEF LocksFor
    <3>2. ASSUME NEW p \in RowsOf("association")' \ {i}, p \in changed
          PROVE  orgFacts'[p].subject # row.subject /\ orgFacts'[p].person # row.person
      <4>1. orgFacts'[p].kind = "association"
        BY <3>2 DEF RowsOf
      <4>2. LocksFor(orgFacts'[p]) = {<<"subject", orgFacts'[p].subject>>,
                                    <<"person", orgFacts'[p].person>>}
        BY <4>1 DEF LocksFor
      <4> QED BY <1>5, <3>1, <3>2, <4>2 DEF Foreign, Holds
    <3>3. ASSUME NEW p \in RowsOf("association")' \ {i}, p \notin changed
          PROVE  p \in RowsOf("association") \ {i} /\ orgFacts'[p] = orgFacts[p]
      BY <3>3 DEF RowsOf
    <3>4. ~Conflicts(i, row)
      BY <1>5, <2>2 DEF Refuses
    <3>5. ~Conflicts(i, row)'
      BY <2>2, <3>2, <3>3, <3>4 DEF Conflicts
    <3> QED BY <2>2, <3>5 DEF Refuses
  <2>3. CASE row.kind \notin {"placement", "association"}
    BY <2>3 DEF Refuses
  <2> QED BY <2>1, <2>2, <2>3
<1> QED BY <1>6, <1>7

-----------------------------------------------------------------------------
(* The steps of a command, as what they do to its call.                    *)

\* A call goes on, its operation and its command as they were.
CallGoesOn(c, place) ==
  \E o \in OrgOperations : \E m \in OrgCommandsOf[o], from \in {"claiming", "writing"} :
    /\ orgCalls[c] = OrgCallAt(from, o, m)
    /\ orgCalls' = [orgCalls EXCEPT ![c] = OrgCallAt(place, o, m)]

\* A call that goes on keeps its operation and its command.
LEMMA CallsGoOn ==
  ASSUME NEW c \in OrgCallers, CallsAreTyped, NEW from \in {"claiming", "writing"}, CallIs(c, from),
         NEW place, orgCalls' = [orgCalls EXCEPT ![c].at = place]
  PROVE  CallGoesOn(c, place)
<1>1. PICK at \in {"claiming", "writing", "committing"}, o \in OrgOperations :
        \E m \in OrgCommandsOf[o] : orgCalls[c] = OrgCallAt(at, o, m)
  BY DEF CallsAreTyped, CallIsTyped, CallIs, OrgIdle
<1>2. PICK m \in OrgCommandsOf[o] : orgCalls[c] = OrgCallAt(at, o, m)
  BY <1>1
<1>3. at = from
  BY <1>2 DEF CallIs, OrgCallAt
<1>4. [orgCalls[c] EXCEPT !.at = place] = OrgCallAt(place, o, m)
  BY <1>2 DEF OrgCallAt
<1>5. orgCalls' = [orgCalls EXCEPT ![c] = OrgCallAt(place, o, m)]
  BY <1>4
<1> QED BY <1>2, <1>3, <1>5 DEF CallGoesOn

\* A step of a caller begins, continues or ends its call.
CallSteps(c) ==
  \/ \E o \in OrgOperations : \E m \in OrgCommandsOf[o] :
       orgCalls' = [orgCalls EXCEPT ![c] = OrgCallAt("claiming", o, m)]
  \/ \E place \in {"writing", "committing"} : CallGoesOn(c, place)
  \/ orgCalls' = [orgCalls EXCEPT ![c] = OrgIdle]

CallerActs(c) ==
  \/ \E o \in OrgOperations : \E m \in OrgCommandsOf[o] : BeginCommand(c, o, m)
  \/ ClaimReceipt(c) \/ WriteRows(c) \/ RollBack(c) \/ CommitCommand(c)

\* Every action of a caller is a step of its call.
LEMMA CallersStep ==
  ASSUME NEW c \in OrgCallers, CallsAreTyped, CallerActs(c)
  PROVE  CallSteps(c)
<1>1. ASSUME NEW o \in OrgOperations, NEW m \in OrgCommandsOf[o], BeginCommand(c, o, m)
      PROVE  CallSteps(c)
  BY <1>1 DEF BeginCommand, CallSteps, OrgCallAt
<1>2. CASE ClaimReceipt(c)
  <2>1. CASE orgCalls[c].op \in DOMAIN orgReceipts
    BY <1>2, <2>1 DEF ClaimReceipt, CallSteps, EndedCall
  <2>2. CASE orgCalls[c].op \notin DOMAIN orgReceipts
    BY <1>2, <2>2, CallsGoOn DEF ClaimReceipt, CallSteps
  <2> QED BY <2>1, <2>2
<1>3. CASE WriteRows(c)
  BY <1>3, CallsGoOn DEF WriteRows, CallSteps
<1>4. CASE RollBack(c)
  BY <1>4 DEF RollBack, CallSteps, EndedCall
<1>5. CASE CommitCommand(c)
  BY <1>5 DEF CommitCommand, CallSteps, EndedCall
<1> QED BY <1>1, <1>2, <1>3, <1>4, <1>5 DEF CallerActs

\* Calls keep their shape.
LEMMA CallsStayTyped ==
  ASSUME NEW c \in OrgCallers, CallsAreTyped, CallSteps(c)
  PROVE  CallsAreTyped'
<1>1. DOMAIN orgCalls' = OrgCallers /\ \A d \in OrgCallers \ {c} : orgCalls'[d] = orgCalls[d]
  BY DEF CallSteps, CallGoesOn, CallsAreTyped
<1>2. \A d \in OrgCallers \ {c} : CallIsTyped(d)'
  BY <1>1 DEF CallsAreTyped, CallIsTyped
<1>3. CallIsTyped(c)'
  <2>1. ASSUME NEW o \in OrgOperations, NEW m \in OrgCommandsOf[o],
               orgCalls' = [orgCalls EXCEPT ![c] = OrgCallAt("claiming", o, m)]
        PROVE  CallIsTyped(c)'
    <3>1. orgCalls'[c] = OrgCallAt("claiming", o, m)
      BY <2>1 DEF CallsAreTyped
    <3> QED BY <3>1 DEF CallIsTyped
  <2>2. ASSUME NEW place \in {"writing", "committing"}, CallGoesOn(c, place)
        PROVE  CallIsTyped(c)'
    <3>1. \E o \in OrgOperations : \E m \in OrgCommandsOf[o] : orgCalls'[c] = OrgCallAt(place, o, m)
      BY <2>2 DEF CallGoesOn, CallsAreTyped
    <3> QED BY <3>1 DEF CallIsTyped
  <2>3. CASE orgCalls' = [orgCalls EXCEPT ![c] = OrgIdle]
    BY <2>3 DEF CallIsTyped, CallsAreTyped
  <2> QED BY <2>1, <2>2, <2>3 DEF CallSteps
<1> QED BY <1>1, <1>2, <1>3 DEF CallsAreTyped

\* Facts last through every step.
LEMMA ActsEndure ==
  ASSUME NEW c \in OrgCallers, CommandInv, CallerActs(c)
  PROVE  FactsEndure
<1>1. CASE CommitCommand(c)
  BY <1>1, CommitIsOnlyBy DEF OnlyBy
<1>2. CASE ~CommitCommand(c)
  <2>1. orgFacts' = orgFacts
    BY <1>2 DEF CallerActs, BeginCommand, ClaimReceipt, WriteRows, RollBack
  <2> QED BY <2>1, UnchangedEndure
<1> QED BY <1>1, <1>2

\* A commit: what it was of, what holds of it, and what it leaves.
CommitOf(c, o, m) ==
  /\ orgCalls[c] = OrgCallAt("committing", o, m)
  /\ WriteHolds(c, m)
  /\ DOMAIN orgFacts' = DOMAIN orgFacts \cup IdsOf(m)
  /\ \A i \in DOMAIN orgFacts \ IdsOf(m) : orgFacts'[i] = orgFacts[i]
  /\ \A i \in IdsOf(m) : orgFacts'[i] = WrittenAt(m, i)
  /\ DOMAIN orgReceipts' = DOMAIN orgReceipts \cup {o}
  /\ orgReceipts'[o] = m
  /\ \A p \in DOMAIN orgReceipts \ {o} : orgReceipts'[p] = orgReceipts[p]

\* Every commit is one.
LEMMA CommitEffect ==
  ASSUME NEW c \in OrgCallers, CommandInv, CommitCommand(c)
  PROVE  \E o \in OrgOperations : \E m \in OrgCommandsOf[o] : CommitOf(c, o, m)
<1>0. PICK o \in OrgOperations : \E m \in OrgCommandsOf[o] :
        orgCalls[c] = OrgCallAt("committing", o, m) /\ orgCalls[c].command = m /\ orgCalls[c].op = o
  BY CommittingCall DEF CommitCommand, CommandInv
<1>1. PICK m \in OrgCommandsOf[o] :
        orgCalls[c] = OrgCallAt("committing", o, m) /\ orgCalls[c].command = m /\ orgCalls[c].op = o
  BY <1>0
<1>2. WriteHolds(c, m)
  BY <1>1 DEF CommandInv, WritesHold
<1>3. orgReceipts' = Overlaid([p \in {o} |-> m], orgReceipts)
  BY <1>1 DEF CommitCommand
<1>4. /\ DOMAIN orgReceipts' = DOMAIN orgReceipts \cup {o}
      /\ orgReceipts'[o] = m
      /\ \A p \in DOMAIN orgReceipts \ {o} : orgReceipts'[p] = orgReceipts[p]
  BY <1>3 DEF Overlaid
<1>5. /\ DOMAIN orgFacts' = DOMAIN orgFacts \cup IdsOf(m)
      /\ \A i \in DOMAIN orgFacts \ IdsOf(m) : orgFacts'[i] = orgFacts[i]
      /\ \A i \in IdsOf(m) : orgFacts'[i] = WrittenAt(m, i)
  BY <1>1, CommitIsOnlyBy DEF OnlyBy
<1> QED BY <1>1, <1>2, <1>4, <1>5 DEF CommitOf

-----------------------------------------------------------------------------
(* The invariant of the commands, conjunct by conjunct.                    *)

\* Rows keep to their constraints, and assignments to their employments.
LEMMA FactsStayWhole ==
  ASSUME NEW c \in OrgCallers, CommandInv, CallerActs(c)
  PROVE  FactsAreWhole'
<1>1. CASE CommitCommand(c)
  <2>1. PICK o \in OrgOperations : \E m \in OrgCommandsOf[o] : CommitOf(c, o, m)
    BY <1>1, CommitEffect
  <2>2. PICK m \in OrgCommandsOf[o] : CommitOf(c, o, m)
    BY <2>1
  <2> USE DEF CommitOf
  <2>3. FactsAreWhole /\ RowMatches(m) /\ FactsEndure
    BY <1>1, <2>2, CommitIsOnlyBy DEF CommandInv, WriteHolds, OnlyBy
  <2>4. RowsOf("employment") \subseteq RowsOf("employment")'
    BY <2>3, KindsEndure
  <2> SUFFICES ASSUME NEW i \in DOMAIN orgFacts'
               PROVE  /\ RowIsWhole(orgFacts'[i])
                      /\ orgFacts'[i].kind = "assignment" =>
                           orgFacts'[i].employment \in RowsOf("employment")'
    BY DEF FactsAreWhole, RowIsWhole, Dated, OrgHas
  <2>5. CASE i \notin IdsOf(m)
    BY <2>2, <2>3, <2>4, <2>5 DEF FactsAreWhole, OrgHas
  <2>6. CASE i \in IdsOf(m) /\ m.kind = "close"
    <3>1. i = m.id /\ i \in DOMAIN orgFacts /\ RowIsWhole(WrittenAt(m, i))
      BY <2>3, <2>6, CloseAmends
    <3>2. orgFacts'[i].kind = orgFacts[i].kind
      BY <2>3, <3>1, FieldsEndure
    <3>3. ASSUME orgFacts[i].kind = "assignment"
          PROVE  orgFacts'[i].employment \in RowsOf("employment")'
      <4>1. "employment" \in DOMAIN orgFacts[i]
        BY <2>3, <3>1, <3>3 DEF FactsAreWhole, RowIsWhole, RowFields, OrgFields
      <4>2. orgFacts'[i]["employment"] = orgFacts[i]["employment"]
        BY <2>3, <3>1, <4>1, FieldsEndure
      <4> QED BY <2>3, <2>4, <3>1, <3>3, <4>2 DEF FactsAreWhole, OrgHas
    <3> QED BY <2>2, <2>6, <3>1, <3>2, <3>3
  <2>7. CASE i \in IdsOf(m) /\ m.kind # "close"
    <3>1. RowIsWhole(orgFacts'[i])
      BY <2>2, <2>7, NewRowsAreWhole
    <3>2. ASSUME orgFacts'[i].kind = "assignment"
          PROVE  orgFacts'[i].employment \in RowsOf("employment")'
      <4>1. orgFacts'[i] = m /\ m.kind = "assignment"
        BY <2>2, <2>7, <3>2, AssignmentsAreAsked
      <4>2. orgCalls[c] # OrgIdle /\ orgCalls[c].command = m
        BY <2>2 DEF OrgCallAt, OrgIdle
      <4>3. OrgHas("employment", m.employment)
        BY <4>1, <4>2 DEF CommandInv, EmploymentWasSeen
      <4> QED BY <2>4, <4>1, <4>3 DEF OrgHas
    <3> QED BY <3>1, <3>2
  <2> QED BY <2>5, <2>6, <2>7
<1>2. CASE ~CommitCommand(c)
  <2>1. orgFacts' = orgFacts
    BY <1>2 DEF CallerActs, BeginCommand, ClaimReceipt, WriteRows, RollBack
  <2> QED BY <2>1 DEF CommandInv, FactsAreWhole, RowIsWhole, Dated, OrgHas, RowsOf
<1> QED BY <1>1, <1>2

\* The employment of an assignment that was accepted stays.
LEMMA EmploymentStaysSeen ==
  ASSUME NEW c \in OrgCallers, CommandInv, CallerActs(c)
  PROVE  EmploymentWasSeen'
<1>1. RowsOf("employment") \subseteq RowsOf("employment")'
  BY ActsEndure, KindsEndure DEF CommandInv
<1> SUFFICES ASSUME NEW d \in OrgCallers, NEW o \in OrgOperations, NEW m \in OrgCommandsOf[o],
                    orgCalls'[d] # OrgIdle, orgCalls'[d].command = m, m.kind = "assignment"
             PROVE  m.employment \in RowsOf("employment")'
  BY DEF EmploymentWasSeen, OrgHas
<1>2. CASE orgCalls[d] # OrgIdle /\ orgCalls[d].command = m
  BY <1>1, <1>2 DEF CommandInv, EmploymentWasSeen, OrgHas
<1>3. CASE ~(orgCalls[d] # OrgIdle /\ orgCalls[d].command = m)
  <2>1. d = c /\ CallSteps(c) /\ DOMAIN orgCalls = OrgCallers
    BY <1>3, CallersStep DEF CommandInv, CallSteps, CallGoesOn, CallsAreTyped
  <2>2. ASSUME NEW place \in {"writing", "committing"}, CallGoesOn(c, place) PROVE FALSE
    <3>1. \E p \in OrgOperations : \E n \in OrgCommandsOf[p], from \in {"claiming", "writing"} :
            orgCalls[c] = OrgCallAt(from, p, n) /\ orgCalls'[c] = OrgCallAt(place, p, n)
      BY <2>1, <2>2 DEF CallGoesOn
    <3> QED BY <1>3, <2>1, <3>1 DEF OrgCallAt, OrgIdle
  <2>3. orgCalls' # [orgCalls EXCEPT ![c] = OrgIdle]
    BY <2>1
  <2>4. PICK p \in OrgOperations : \E n \in OrgCommandsOf[p] : BeginCommand(c, p, n)
    <3>1. ~ClaimReceipt(c)
      BY <1>3, <2>1, <2>2, <2>3, CallsGoOn DEF ClaimReceipt, EndedCall, CommandInv
    <3>2. ~WriteRows(c)
      BY <2>2, CallsGoOn DEF WriteRows, CommandInv
    <3>3. ~RollBack(c) /\ ~CommitCommand(c)
      BY <2>3 DEF RollBack, CommitCommand, EndedCall
    <3> QED BY <3>1, <3>2, <3>3 DEF CallerActs
  <2>5. PICK n \in OrgCommandsOf[p] : BeginCommand(c, p, n)
    BY <2>4
  <2>6. n = m /\ ServiceAccepts(n)
    BY <2>1, <2>5 DEF BeginCommand
  <2>7. m.employment \in RowsOf("employment")
    BY <2>6 DEF ServiceAccepts, AssignmentFits, FitsIn, OrgHas
  <2> QED BY <1>1, <2>7
<1> QED BY <1>2, <1>3

\* An operation is claimed by one caller at a time, and never after its receipt.
LEMMA ClaimsStayApart ==
  ASSUME NEW c \in OrgCallers, CommandInv, CallerActs(c)
  PROVE  ClaimsAreApart'
<1> USE DEF CommandInv
<1>1. ClaimsAreApart /\ DOMAIN orgCalls = OrgCallers
  BY DEF CallsAreTyped
<1>2. ASSUME orgCalls'[c] = OrgIdle \/ orgCalls'[c].at = "claiming",
             \A d \in OrgCallers \ {c} : orgCalls'[d] = orgCalls[d],
             \A d \in OrgCallers \ {c} : orgCalls[d].at \in {"writing", "committing"} =>
               orgCalls[d].op \notin DOMAIN orgReceipts'
      PROVE  ClaimsAreApart'
  BY <1>1, <1>2 DEF ClaimsAreApart, OrgIdle
<1>3. ASSUME NEW place \in {"writing", "committing"}, CallGoesOn(c, place), orgReceipts' = orgReceipts,
             orgCalls[c].op \notin DOMAIN orgReceipts,
             \A d \in OrgCallers \ {c} : orgCalls[d].at \in {"writing", "committing"} =>
               orgCalls[d].op # orgCalls[c].op
      PROVE  ClaimsAreApart'
  <2>1. orgCalls'[c].op = orgCalls[c].op /\ \A d \in OrgCallers \ {c} : orgCalls'[d] = orgCalls[d]
    BY <1>1, <1>3 DEF CallGoesOn, OrgCallAt
  <2> QED BY <1>1, <1>3, <2>1 DEF ClaimsAreApart
<1>4. ASSUME NEW o \in OrgOperations, NEW m \in OrgCommandsOf[o], BeginCommand(c, o, m)
      PROVE  ClaimsAreApart'
  <2>1. orgCalls'[c].at = "claiming" /\ orgReceipts' = orgReceipts
        /\ \A d \in OrgCallers \ {c} : orgCalls'[d] = orgCalls[d]
    BY <1>1, <1>4 DEF BeginCommand
  <2> QED BY <1>1, <1>2, <2>1 DEF ClaimsAreApart
<1>5. CASE ClaimReceipt(c)
  <2>1. CASE orgCalls[c].op \in DOMAIN orgReceipts
    <3>1. orgCalls'[c] = OrgIdle /\ orgReceipts' = orgReceipts
          /\ \A d \in OrgCallers \ {c} : orgCalls'[d] = orgCalls[d]
      BY <1>1, <1>5, <2>1 DEF ClaimReceipt, EndedCall
    <3> QED BY <1>1, <1>2, <3>1 DEF ClaimsAreApart
  <2>2. CASE orgCalls[c].op \notin DOMAIN orgReceipts
    <3>1. CallGoesOn(c, "writing")
      BY <1>5, <2>2, CallsGoOn DEF ClaimReceipt
    <3> QED BY <1>3, <1>5, <2>2, <3>1 DEF ClaimReceipt
  <2> QED BY <2>1, <2>2
<1>6. CASE WriteRows(c)
  <2>1. CallGoesOn(c, "committing") /\ orgReceipts' = orgReceipts
    BY <1>6, CallsGoOn DEF WriteRows
  <2>2. orgCalls[c].at \in {"writing", "committing"}
    BY <1>6 DEF WriteRows, CallIs
  <2> QED BY <1>1, <1>3, <2>1, <2>2 DEF ClaimsAreApart
<1>7. CASE RollBack(c)
  <2>1. orgCalls'[c] = OrgIdle /\ orgReceipts' = orgReceipts
        /\ \A d \in OrgCallers \ {c} : orgCalls'[d] = orgCalls[d]
    BY <1>1, <1>7 DEF RollBack, EndedCall
  <2> QED BY <1>1, <1>2, <2>1 DEF ClaimsAreApart
<1>8. CASE CommitCommand(c)
  <2>1. orgCalls'[c] = OrgIdle /\ orgCalls[c].at \in {"writing", "committing"}
        /\ \A d \in OrgCallers \ {c} : orgCalls'[d] = orgCalls[d]
    BY <1>1, <1>8 DEF CommitCommand, EndedCall, CallIs
  <2>2. DOMAIN orgReceipts' = DOMAIN orgReceipts \cup {orgCalls[c].op}
    BY <1>8 DEF CommitCommand, Overlaid
  <2> QED BY <1>1, <1>2, <2>1, <2>2 DEF ClaimsAreApart
<1> QED BY <1>4, <1>5, <1>6, <1>7, <1>8 DEF CallerActs

\* A statement waits for the rows of uncommitted transactions.
LEMMA RowsStayApart ==
  ASSUME NEW c \in OrgCallers, CommandInv, CallerActs(c)
  PROVE  RowsAreApart'
<1>1. RowsAreApart /\ DOMAIN orgCalls = OrgCallers /\ CallSteps(c)
  BY CallersStep DEF CommandInv, CallsAreTyped
<1>2. \A d \in OrgCallers \ {c} : orgCalls'[d] = orgCalls[d]
  BY <1>1 DEF CallSteps, CallGoesOn
<1>3. CASE ~WriteRows(c)
  <2>1. ~CallIs(c, "committing")'
    <3>1. CASE ClaimReceipt(c)
      <4>1. CallGoesOn(c, "writing") \/ orgCalls' = [orgCalls EXCEPT ![c] = OrgIdle]
        BY <3>1, CallsGoOn DEF ClaimReceipt, EndedCall, CommandInv
      <4>2. CallGoesOn(c, "writing") => orgCalls'[c].at = "writing"
        BY <1>1 DEF CallGoesOn, OrgCallAt
      <4> QED BY <1>1, <4>1, <4>2 DEF CallIs, OrgIdle
    <3>2. CASE RollBack(c) \/ CommitCommand(c)
      BY <1>1, <3>2 DEF RollBack, CommitCommand, EndedCall, CallIs, OrgIdle
    <3>3. ASSUME NEW o \in OrgOperations, NEW m \in OrgCommandsOf[o], BeginCommand(c, o, m)
          PROVE  ~CallIs(c, "committing")'
      BY <1>1, <3>3 DEF BeginCommand, CallIs
    <3> QED BY <1>3, <3>1, <3>2, <3>3 DEF CallerActs
  <2> QED BY <1>1, <1>2, <2>1 DEF RowsAreApart, CallIs
<1>4. CASE WriteRows(c)
  <2>1. orgCalls'[c].command = orgCalls[c].command
    <3>1. CallGoesOn(c, "committing")
      BY <1>4, CallsGoOn DEF WriteRows, CommandInv
    <3> QED BY <1>1, <3>1 DEF CallGoesOn, OrgCallAt
  <2>2. \A d \in OrgCallers \ {c} : CallIs(d, "committing") =>
          IdsOf(orgCalls[d].command) \cap IdsOf(orgCalls[c].command) = {}
    BY <1>4 DEF WriteRows
  <2> SUFFICES ASSUME NEW a \in OrgCallers, NEW b \in OrgCallers, a # b,
                      orgCalls'[a].at = "committing", orgCalls'[b].at = "committing"
               PROVE  IdsOf(orgCalls'[b].command) \cap IdsOf(orgCalls'[a].command) = {}
    BY DEF RowsAreApart, CallIs, IdsOf
  <2>3. CASE a = c
    BY <1>2, <2>1, <2>2, <2>3 DEF CallIs
  <2>4. CASE b = c
    BY <1>2, <2>1, <2>2, <2>4 DEF CallIs
  <2>5. CASE a # c /\ b # c
    BY <1>1, <1>2, <2>5 DEF CallIs, RowsAreApart
  <2> QED BY <2>3, <2>4, <2>5
<1> QED BY <1>3, <1>4

\* Whoever ends gives up its own locks; whoever takes locks takes free ones.
LEMMA LocksStay ==
  ASSUME NEW c \in OrgCallers, CallerActs(c), NEW d, d # c,
         NEW l \in DOMAIN orgLocks, orgLocks[l] = d
  PROVE  l \in DOMAIN orgLocks' /\ orgLocks'[l] = d
<1>1. CASE WriteRows(c)
  <2> DEFINE rows == Written(orgCalls[c].command)
             locks == UNION {LocksFor(rows[i]) : i \in DOMAIN rows}
  <2>1. locks \cap DOMAIN orgLocks = {} /\ orgLocks' = Overlaid([k \in locks |-> c], orgLocks)
    BY <1>1 DEF WriteRows
  <2> HIDE DEF locks
  <2> QED BY <2>1 DEF Overlaid
<1>2. CASE RollBack(c) \/ CommitCommand(c)
  <2>1. orgLocks' = [k \in {j \in DOMAIN orgLocks : orgLocks[j] # c} |-> orgLocks[k]]
    BY <1>2 DEF RollBack, CommitCommand, ReleaseLocks
  <2> QED BY <2>1
<1>3. CASE orgLocks' = orgLocks
  BY <1>3
<1> QED BY <1>1, <1>2, <1>3 DEF CallerActs, BeginCommand, ClaimReceipt

\* What was just found, of the command that was just written.
LEMMA FreshWriteHolds ==
  ASSUME NEW c \in OrgCallers, CommandInv, WriteRows(c),
         NEW o \in OrgOperations, NEW m \in OrgCommandsOf[o], orgCalls[c].command = m
  PROVE  WriteHolds(c, m)'
<1> DEFINE rows == Written(m)
           locks == UNION {LocksFor(rows[i]) : i \in DOMAIN rows}
<1>1. /\ RowMatches(m) /\ orgFacts' = orgFacts
      /\ \A i \in DOMAIN rows : ~Refuses(i, rows[i])
      /\ orgLocks' = Overlaid([k \in locks |-> c], orgLocks)
  BY DEF WriteRows
<1>2. DOMAIN rows = IdsOf(m) /\ \A i \in IdsOf(m) : rows[i] = WrittenAt(m, i)
  BY DEF Written
<1>3. ASSUME NEW i \in IdsOf(m) PROVE LocksFor(WrittenAt(m, i)) \subseteq locks
  BY <1>2
<1>4. RowMatches(m)'
  BY <1>1 DEF RowMatches, ClosingFits, OrgHas, RowsOf
<1>5. ASSUME NEW i \in IdsOf(m) PROVE WrittenAt(m, i)' = WrittenAt(m, i)
  BY <1>1 DEF WrittenAt, FirstPlacement
<1> SUFFICES ASSUME NEW i \in IdsOf(m), NEW row \in {WrittenAt(m, i)}
             PROVE  ~Refuses(i, row)' /\ Holds(c, row)'
  BY <1>4, <1>5 DEF WriteHolds
<1>6. ~Refuses(i, row)
  BY <1>1, <1>2
<1>7. ~Refuses(i, row)'
  <2>1. \A kind : RowsOf(kind)' = RowsOf(kind)
    BY <1>1 DEF RowsOf
  <2>2. CASE row.kind = "placement"
    BY <1>1, <1>6, <2>1, <2>2, SamePlacements
  <2>3. CASE row.kind = "association"
    BY <1>1, <1>6, <2>1, <2>3 DEF Refuses, Conflicts
  <2>4. CASE row.kind \notin {"placement", "association"}
    BY <2>4 DEF Refuses
  <2> QED BY <2>2, <2>3, <2>4
<1>8. Holds(c, row)'
  <2>1. LocksFor(row) \subseteq locks
    BY <1>3
  <2> HIDE DEF locks
  <2> QED BY <1>1, <2>1 DEF Holds, Overlaid
<1> QED BY <1>7, <1>8

\* What was found of a command is true until its commit, whoever commits before.
LEMMA WritesStillHold ==
  ASSUME NEW c \in OrgCallers, CommandInv, CallerActs(c)
  PROVE  WritesHold'
<1> SUFFICES ASSUME NEW d \in OrgCallers, NEW o \in OrgOperations, NEW m \in OrgCommandsOf[o],
                    orgCalls'[d] = OrgCallAt("committing", o, m)
             PROVE  WriteHolds(d, m)'
  BY DEF WritesHold
<1>1. CallSteps(c) /\ DOMAIN orgCalls = OrgCallers /\ FactsAreWhole /\ FactsEndure
  BY CallersStep, ActsEndure DEF CommandInv, CallsAreTyped
<1>2. CASE d = c
  <2>1. WriteRows(c)
    <3>1. ~CommitCommand(c) /\ ~RollBack(c)
      BY <1>1, <1>2 DEF CommitCommand, RollBack, EndedCall, OrgIdle, OrgCallAt
    <3>2. ~ClaimReceipt(c)
      <4>1. CallGoesOn(c, "writing") => orgCalls'[c].at = "writing"
        BY <1>1 DEF CallGoesOn, OrgCallAt
      <4>2. ClaimReceipt(c) => CallGoesOn(c, "writing") \/ orgCalls' = [orgCalls EXCEPT ![c] = OrgIdle]
        BY CallsGoOn DEF ClaimReceipt, EndedCall, CommandInv
      <4> QED BY <1>1, <1>2, <4>1, <4>2 DEF OrgIdle, OrgCallAt
    <3>3. ASSUME NEW p \in OrgOperations, NEW n \in OrgCommandsOf[p], BeginCommand(c, p, n)
          PROVE  FALSE
      BY <1>1, <1>2, <3>3 DEF BeginCommand, OrgCallAt
    <3> QED BY <3>1, <3>2, <3>3 DEF CallerActs
  <2>2. orgCalls[c].command = m
    <3>1. CallGoesOn(c, "committing")
      BY <2>1, CallsGoOn DEF WriteRows, CommandInv
    <3> QED BY <1>1, <1>2, <3>1 DEF CallGoesOn, OrgCallAt
  <2> QED BY <1>2, <2>1, <2>2, FreshWriteHolds
<1>3. CASE d # c
  <2>1. orgCalls[d] = OrgCallAt("committing", o, m)
    BY <1>1, <1>3 DEF CallSteps, CallGoesOn
  <2>2. WriteHolds(d, m)
    BY <2>1 DEF CommandInv, WritesHold
  <2>3. \A l \in DOMAIN orgLocks : orgLocks[l] = d => l \in DOMAIN orgLocks' /\ orgLocks'[l] = d
    BY <1>3, LocksStay
  <2>4. CASE CommitCommand(c)
    <3>1. PICK p \in OrgOperations : \E n \in OrgCommandsOf[p] : CommitOf(c, p, n)
      BY <2>4, CommitEffect
    <3>2. PICK n \in OrgCommandsOf[p] : CommitOf(c, p, n)
      BY <3>1
    <3> USE DEF CommitOf
    <3>3. IdsOf(n) \cap IdsOf(m) = {}
      <4>1. CallIs(c, "committing") /\ CallIs(d, "committing")
            /\ orgCalls[c].command = n /\ orgCalls[d].command = m
        BY <2>1, <3>2 DEF CallIs, OrgCallAt
      <4>2. IdsOf(orgCalls[c].command) \cap IdsOf(orgCalls[d].command) = {}
        BY <1>3, <4>1 DEF CommandInv, RowsAreApart
      <4> QED BY <4>1, <4>2
    <3>4. ASSUME NEW i \in IdsOf(n) PROVE Foreign(d, orgFacts'[i])
      <4>1. Holds(c, WrittenAt(n, i))
        BY <3>2 DEF WriteHolds
      <4> QED BY <1>3, <3>2, <4>1 DEF Holds, Foreign
    <3> QED BY <1>1, <2>2, <2>3, <3>2, <3>3, <3>4, WriteStillHolds
  <2>5. CASE ~CommitCommand(c)
    <3>1. orgFacts' = orgFacts
      BY <2>5 DEF CallerActs, BeginCommand, ClaimReceipt, WriteRows, RollBack
    <3>2. /\ DOMAIN orgFacts' = DOMAIN orgFacts \cup {} /\ {} \cap IdsOf(m) = {}
          /\ \A i \in DOMAIN orgFacts \ {} : orgFacts'[i] = orgFacts[i]
          /\ \A i \in {} : Foreign(d, orgFacts'[i])
      BY <3>1
    <3> QED BY <1>1, <2>2, <2>3, <3>2, WriteStillHolds
  <2> QED BY <2>4, <2>5
<1> QED BY <1>2, <1>3

\* A row that was written excludes what the trigger looks for.
LEMMA WrittenRowFits ==
  ASSUME NEW o \in OrgOperations, NEW m \in OrgCommandsOf[o], NEW c, FactsAreWhole, WriteHolds(c, m),
         DOMAIN orgFacts' = DOMAIN orgFacts \cup IdsOf(m),
         \A i \in DOMAIN orgFacts \ IdsOf(m) : orgFacts'[i] = orgFacts[i],
         \A i \in IdsOf(m) : orgFacts'[i] = WrittenAt(m, i),
         NEW a \in IdsOf(m), NEW b \in DOMAIN orgFacts', b # a,
         orgFacts'[b].kind = orgFacts'[a].kind, NEW t \in OrgTimes,
         RowIsWhole(orgFacts'[a]), RowIsWhole(orgFacts'[b]),
         ActiveAt(orgFacts'[a], t), ActiveAt(orgFacts'[b], t)
  PROVE  /\ orgFacts'[a].kind = "placement" => orgFacts'[b].unit # orgFacts'[a].unit
         /\ orgFacts'[a].kind = "association" =>
              orgFacts'[b].subject # orgFacts'[a].subject /\ orgFacts'[b].person # orgFacts'[a].person
<1> DEFINE row == orgFacts'[a]
<1>1. b \notin IdsOf(m)
  BY WatchedRowIsAlone
<1>2. b \in RowsOf(row.kind) \ {a} /\ orgFacts'[b] = orgFacts[b]
  BY <1>1 DEF RowsOf
<1>3. row = WrittenAt(m, a) /\ ~Refuses(a, row)
  BY DEF WriteHolds
<1>4. row.kind \in {"placement", "association"} => ~Conflicts(a, row)
  BY <1>3 DEF Refuses
<1>5. row.kind \in {"placement", "association"} => Overlapping(orgFacts[b], row)
  <2>1. \A r : RowIsWhole(r) /\ r.kind \in {"placement", "association"} => r.from \in Nat /\ r.to \in Nat
    BY OrgAssumption DEF RowIsWhole, Dated, OrgTimes, Forever
  <2>2. row.kind \in {"placement", "association"} =>
          /\ row.from \in Nat /\ row.to \in Nat /\ orgFacts[b].from \in Nat /\ orgFacts[b].to \in Nat
    BY <1>2, <2>1
  <2>3. row.from <= t /\ t < row.to /\ orgFacts[b].from <= t /\ t < orgFacts[b].to /\ t \in Nat
    BY <1>2 DEF ActiveAt, OrgTimes
  <2> QED BY <2>2, <2>3 DEF Overlapping
<1> QED BY <1>2, <1>4, <1>5 DEF Conflicts

\* The parents are units.
LEMMA ParentsAreUnits ==
  ASSUME FactsAreWhole, NEW t
  PROVE  PairsInUnits(ParentsAt(t))
BY DEF PairsInUnits, ParentsAt, InForce, RowsOf, FactsAreWhole, RowIsWhole

\* At every time: an insert closes no cycle there, and a close only takes pairs away.
LEMMA HierarchyStaysAcyclic ==
  ASSUME NEW c \in OrgCallers, CommandInv, CommitCommand(c), FactsAreWhole', NEW t \in OrgTimes
  PROVE  Acyclic(ParentsAt(t)')
<1>1. PICK o \in OrgOperations : \E m \in OrgCommandsOf[o] : CommitOf(c, o, m)
  BY CommitEffect
<1>2. PICK m \in OrgCommandsOf[o] : CommitOf(c, o, m)
  BY <1>1
<1> USE DEF CommitOf
<1>3. FactsAreWhole /\ FactsEndure /\ Acyclic(ParentsAt(t)) /\ t \in Nat
  BY CommitIsOnlyBy DEF CommandInv, OnlyBy, HierarchyIsSound, Acyclic, OrgTimes
<1>4. PairsInUnits(ParentsAt(t))
  BY <1>3, ParentsAreUnits
<1>5. ASSUME ParentsAt(t)' \subseteq ParentsAt(t) PROVE Acyclic(ParentsAt(t)')
  <2> DEFINE fewer == ParentsAt(t)'
  <2>1. fewer \subseteq ParentsAt(t)
    BY <1>5
  <2> HIDE DEF fewer
  <2>2. \A u : AncestorsIn(fewer, u) \subseteq AncestorsIn(ParentsAt(t), u)
    BY <1>4, <2>1, FewerAncestors
  <2>3. Acyclic(fewer)
    BY <1>3, <2>2 DEF Acyclic
  <2> QED BY <2>3 DEF fewer
<1>6. \A p \in DOMAIN orgFacts' : orgFacts'[p].kind = "placement" =>
        orgFacts'[p].from \in Nat /\ orgFacts'[p].to \in Nat
  BY OrgAssumption DEF FactsAreWhole, RowIsWhole, Dated, OrgTimes, Forever
<1>7. CASE m.kind = "close"
  <2>1. DOMAIN orgFacts' = DOMAIN orgFacts
    BY <1>2, <1>3, <1>7, CloseAmends DEF WriteHolds
  <2>2. ASSUME NEW p \in InForce("placement", t)'
        PROVE  /\ p \in InForce("placement", t)
               /\ orgFacts'[p].unit = orgFacts[p].unit /\ orgFacts'[p].parent = orgFacts[p].parent
    <3>1. p \in DOMAIN orgFacts /\ orgFacts'[p].kind = "placement"
          /\ orgFacts'[p].from <= t /\ t < orgFacts'[p].to
      BY <2>1, <2>2 DEF InForce, RowsOf, ActiveAt
    <3>2. orgFacts[p].kind = "placement" /\ RowIsWhole(orgFacts[p])
      BY <1>3, <3>1, FieldsEndure DEF FactsAreWhole
    <3>3. Dated(orgFacts[p]) /\ {"unit", "parent"} \subseteq DOMAIN orgFacts[p]
      BY <3>2 DEF RowIsWhole, RowFields, OrgFields, Dated
    <3>4. orgFacts'[p]["unit"] = orgFacts[p]["unit"] /\ orgFacts'[p]["parent"] = orgFacts[p]["parent"]
      BY <1>3, <3>1, <3>3, FieldsEndure
    <3>5. orgFacts'[p].from = orgFacts[p].from /\ orgFacts'[p].to <= orgFacts[p].to
      BY <1>3, <3>1, <3>3, FieldsEndure
    <3>6. orgFacts[p].to \in Nat
      BY <3>2, <3>3, OrgAssumption DEF RowIsWhole, OrgTimes, Forever
    <3>7. orgFacts[p].from <= t /\ t < orgFacts[p].to
      BY <1>3, <1>6, <2>1, <3>1, <3>5, <3>6
    <3> QED BY <3>1, <3>2, <3>4, <3>7 DEF InForce, RowsOf, ActiveAt
  <2>3. ParentsAt(t)' \subseteq ParentsAt(t)
    BY <2>2 DEF ParentsAt
  <2> QED BY <1>5, <2>3
<1>8. CASE m.kind # "close"
  <2>1. ASSUME NEW p \in InForce("placement", t)', p \notin IdsOf(m)
        PROVE  p \in InForce("placement", t) /\ orgFacts'[p] = orgFacts[p]
    BY <1>2, <2>1 DEF InForce, RowsOf, ActiveAt
  <2>2. CASE \E p \in InForce("placement", t)' : p \in IdsOf(m) /\ orgFacts'[p].parent # NoParent
    <3>1. PICK p \in InForce("placement", t)' : p \in IdsOf(m) /\ orgFacts'[p].parent # NoParent
      BY <2>2
    <3> DEFINE row == orgFacts'[p]
    <3>2. row.kind = "placement" /\ ActiveAt(row, t) /\ RowIsWhole(row) /\ row = WrittenAt(m, p)
      BY <1>2, <3>1 DEF InForce, RowsOf, FactsAreWhole, RowIsWhole, Dated, ActiveAt
    <3>3. ~ClosesCycle(row)
      BY <1>2, <3>1, <3>2 DEF WriteHolds, Refuses
    <3>4. row.from \in Nat /\ row.to \in Nat /\ row.parent \in OrgUnits
      BY <3>1, <3>2, OrgAssumption DEF RowIsWhole, Dated, OrgTimes, Forever
    <3>5. \A q \in RowsOf("placement") : orgFacts[q].from \in Nat /\ orgFacts[q].to \in Nat
      BY <1>3, OrgAssumption DEF RowsOf, FactsAreWhole, RowIsWhole, Dated, OrgTimes, Forever
    <3> HIDE DEF row
    <3>6. PICK k \in Checkpoints(row) : ParentsAt(t) \subseteq ParentsAt(k)
      BY <1>3, <3>2, <3>4, <3>5, LastCheckpoint
    <3>7. row.unit \notin {row.parent} \cup AncestorsIn(ParentsAt(k), row.parent)
      BY <3>1, <3>3, <3>6 DEF ClosesCycle, row
    <3>8. AncestorsIn(ParentsAt(t), row.parent) \subseteq AncestorsIn(ParentsAt(k), row.parent)
      BY <1>3, <3>6, FewerAncestors, ParentsAreUnits
    <3>9. ASSUME NEW q \in InForce("placement", t)', q \in IdsOf(m) PROVE q = p
      <4>1. orgFacts'[q].kind = "placement"
        BY <3>9 DEF InForce, RowsOf
      <4>2. WrittenAt(m, q).kind = WrittenAt(m, p).kind
        BY <1>2, <3>2, <3>9, <4>1
      <4> QED BY <3>1, <3>9, <4>2, WatchedRowIsAlone
    <3>10. ParentsAt(t)' \subseteq ParentsAt(t) \cup {<<row.unit, row.parent>>}
      BY <2>1, <3>9 DEF ParentsAt, row
    <3> DEFINE more == ParentsAt(t)'
               unit == row.unit
               parent == row.parent
    <3>11. more \subseteq ParentsAt(t) \cup {<<unit, parent>>} /\ parent \in OrgUnits
           /\ unit \notin {parent} \cup AncestorsIn(ParentsAt(t), parent)
      BY <3>4, <3>7, <3>8, <3>10
    <3> HIDE DEF more, unit, parent
    <3>12. Acyclic(more)
      BY <1>3, <1>4, <3>11, NewPairClosesNothing
    <3> QED BY <3>12 DEF more
  <2>3. CASE ~ \E p \in InForce("placement", t)' : p \in IdsOf(m) /\ orgFacts'[p].parent # NoParent
    <3>1. ParentsAt(t)' \subseteq ParentsAt(t)
      BY <2>1, <2>3 DEF ParentsAt
    <3> QED BY <1>5, <3>1
  <2> QED BY <2>2, <2>3
<1> QED BY <1>7, <1>8

\* One placement of a unit, and one association of a subject and of a person, at
\* every time.
LEMMA HierarchyStaysSound ==
  ASSUME NEW c \in OrgCallers, CommandInv, CallerActs(c), FactsAreWhole'
  PROVE  HierarchyIsSound'
<1>1. CASE CommitCommand(c)
  <2>1. PICK o \in OrgOperations : \E m \in OrgCommandsOf[o] : CommitOf(c, o, m)
    BY <1>1, CommitEffect
  <2>2. PICK m \in OrgCommandsOf[o] : CommitOf(c, o, m)
    BY <2>1
  <2> USE DEF CommitOf
  <2>3. FactsAreWhole /\ HierarchyIsSound
    BY DEF CommandInv
  <2> SUFFICES ASSUME NEW t \in OrgTimes
               PROVE  /\ Acyclic(ParentsAt(t)')
                      /\ \A a, b \in InForce("placement", t)' :
                           orgFacts'[a].unit = orgFacts'[b].unit => a = b
                      /\ \A a, b \in InForce("association", t)' : a # b =>
                           /\ orgFacts'[a].subject # orgFacts'[b].subject
                           /\ orgFacts'[a].person # orgFacts'[b].person
    BY DEF HierarchyIsSound, Acyclic
  <2>4. ASSUME NEW kind \in {"placement", "association"}, NEW a \in InForce(kind, t)'
        PROVE  /\ a \in DOMAIN orgFacts' /\ orgFacts'[a].kind = kind
               /\ RowIsWhole(orgFacts'[a]) /\ ActiveAt(orgFacts'[a], t)
    BY <2>4 DEF InForce, RowsOf, FactsAreWhole, RowIsWhole, Dated, ActiveAt
  <2>5. ASSUME NEW kind \in {"placement", "association"}, NEW a \in InForce(kind, t)', a \notin IdsOf(m)
        PROVE  a \in InForce(kind, t) /\ orgFacts'[a] = orgFacts[a]
    BY <2>2, <2>4, <2>5 DEF InForce, RowsOf
  <2>6. ASSUME NEW a \in InForce("placement", t)', NEW b \in InForce("placement", t)', a # b
        PROVE  orgFacts'[a].unit # orgFacts'[b].unit
    <3>1. CASE a \in IdsOf(m)
      BY <2>2, <2>3, <2>4, <2>6, <3>1, WrittenRowFits
    <3>2. CASE b \in IdsOf(m)
      BY <2>2, <2>3, <2>4, <2>6, <3>2, WrittenRowFits
    <3>3. CASE a \notin IdsOf(m) /\ b \notin IdsOf(m)
      BY <2>3, <2>5, <2>6, <3>3 DEF HierarchyIsSound
    <3> QED BY <3>1, <3>2, <3>3
  <2>7. ASSUME NEW a \in InForce("association", t)', NEW b \in InForce("association", t)', a # b
        PROVE  /\ orgFacts'[a].subject # orgFacts'[b].subject
               /\ orgFacts'[a].person # orgFacts'[b].person
    <3>1. CASE a \in IdsOf(m)
      BY <2>2, <2>3, <2>4, <2>7, <3>1, WrittenRowFits
    <3>2. CASE b \in IdsOf(m)
      BY <2>2, <2>3, <2>4, <2>7, <3>2, WrittenRowFits
    <3>3. CASE a \notin IdsOf(m) /\ b \notin IdsOf(m)
      BY <2>3, <2>5, <2>7, <3>3 DEF HierarchyIsSound
    <3> QED BY <3>1, <3>2, <3>3
  <2>8. Acyclic(ParentsAt(t)')
    BY <1>1, HierarchyStaysAcyclic
  <2> QED BY <2>6, <2>7, <2>8
<1>2. CASE ~CommitCommand(c)
  <2>1. orgFacts' = orgFacts
    BY <1>2 DEF CallerActs, BeginCommand, ClaimReceipt, WriteRows, RollBack
  <2>2. \A kind, t : InForce(kind, t)' = InForce(kind, t)
    BY <2>1 DEF InForce, RowsOf
  <2>3. \A t : ParentsAt(t)' = ParentsAt(t)
    BY <2>1, <2>2 DEF ParentsAt
  <2> QED BY <2>1, <2>2, <2>3 DEF CommandInv, HierarchyIsSound
<1> QED BY <1>1, <1>2

\* What a receipt says was done is not undone.
LEMMA ReceiptsStayBacked ==
  ASSUME NEW c \in OrgCallers, CommandInv, CallerActs(c)
  PROVE  ReceiptsAreTyped' /\ ReceiptsAreBacked'
<1>1. FactsEndure /\ FactsAreWhole /\ ReceiptsAreTyped /\ ReceiptsAreBacked
  BY ActsEndure DEF CommandInv
<1>2. ASSUME NEW o \in OrgOperations, NEW m \in OrgCommandsOf[o], IdsOf(m) \subseteq DOMAIN orgFacts,
             m.kind = "close" => orgFacts[m.id].to = m.to
      PROVE  IdsOf(m) \subseteq DOMAIN orgFacts' /\ (m.kind = "close" => orgFacts'[m.id].to = m.to)
  <2>1. IdsOf(m) \subseteq DOMAIN orgFacts'
    BY <1>1, <1>2 DEF FactsEndure
  <2>2. ASSUME m.kind = "close" PROVE orgFacts'[m.id].to = m.to
    <3>1. m.id \in DOMAIN orgFacts
      BY <1>2, <2>2 DEF IdsOf
    <3>2. orgFacts[m.id].to # Forever
      BY <1>2, <2>2, OrgAssumption, CommandsAreWhole DEF OrgTimes, Forever
    <3> QED BY <1>1, <1>2, <2>2, <3>1, <3>2, FieldsEndure
  <2> QED BY <2>1, <2>2
<1>3. CASE CommitCommand(c)
  <2>1. PICK o \in OrgOperations : \E m \in OrgCommandsOf[o] : CommitOf(c, o, m)
    BY <1>3, CommitEffect
  <2>2. PICK m \in OrgCommandsOf[o] : CommitOf(c, o, m)
    BY <2>1
  <2> USE DEF CommitOf
  <2>3. ReceiptsAreTyped'
    BY <1>1, <2>2 DEF ReceiptsAreTyped
  <2>4. ASSUME NEW p \in DOMAIN orgReceipts', NEW n, n = orgReceipts'[p]
        PROVE  IdsOf(n) \subseteq DOMAIN orgFacts' /\ (n.kind = "close" => orgFacts'[n.id].to = n.to)
    <3>1. CASE p = o
      <4>1. n = m /\ RowMatches(m)
        BY <2>2, <2>4, <3>1 DEF WriteHolds
      <4>2. m.kind = "close" => orgFacts'[m.id].to = m.to
        BY <1>1, <2>2, <4>1, CloseAmends
      <4> QED BY <2>2, <4>1, <4>2
    <3>2. CASE p # o
      <4>1. p \in DOMAIN orgReceipts /\ n = orgReceipts[p]
        BY <2>2, <2>4, <3>2
      <4>2. IdsOf(n) \subseteq DOMAIN orgFacts /\ (n.kind = "close" => orgFacts[n.id].to = n.to)
        BY <1>1, <4>1 DEF ReceiptsAreBacked
      <4>3. p \in OrgOperations /\ n \in OrgCommandsOf[p]
        BY <1>1, <4>1 DEF ReceiptsAreTyped
      <4> QED BY <1>2, <4>2, <4>3
    <3> QED BY <3>1, <3>2
  <2>5. ReceiptsAreBacked'
    <3> SUFFICES ASSUME NEW p \in DOMAIN orgReceipts'
                 PROVE  /\ IdsOf(orgReceipts'[p]) \subseteq DOMAIN orgFacts'
                        /\ orgReceipts'[p].kind = "close" =>
                             orgFacts'[orgReceipts'[p].id].to = orgReceipts'[p].to
      BY DEF ReceiptsAreBacked
    <3> QED BY <2>4
  <2> QED BY <2>3, <2>5
<1>4. CASE ~CommitCommand(c)
  <2>1. orgFacts' = orgFacts /\ orgReceipts' = orgReceipts
    BY <1>4 DEF CallerActs, BeginCommand, ClaimReceipt, WriteRows, RollBack
  <2> QED BY <1>1, <2>1 DEF ReceiptsAreTyped, ReceiptsAreBacked
<1> QED BY <1>3, <1>4

\* Every action of a caller keeps the invariant of the commands.
LEMMA CommandInvActs ==
  ASSUME NEW c \in OrgCallers, CommandInv, CallerActs(c)
  PROVE  CommandInv'
<1>1. FactsAreWhole'
  BY FactsStayWhole
<1>2. CallsAreTyped'
  BY CallersStep, CallsStayTyped DEF CommandInv
<1> QED BY <1>1, <1>2, EmploymentStaysSeen, ClaimsStayApart, RowsStayApart, WritesStillHold,
           HierarchyStaysSound, ReceiptsStayBacked DEF CommandInv

-----------------------------------------------------------------------------
(* What a step does to the facts and the receipts.                         *)

\* A fact that endures is as it was, or its open end was closed.
LEMMA HistoryStep ==
  ASSUME FactsAreWhole, FactsEndure, NEW i \in DOMAIN orgFacts
  PROVE  /\ i \in DOMAIN orgFacts'
         /\ orgFacts'[i] # orgFacts[i] =>
              /\ orgFacts[i].to = Forever
              /\ orgFacts'[i] = [orgFacts[i] EXCEPT !.to = orgFacts'[i].to]
<1> DEFINE old == orgFacts[i]
           new == orgFacts'[i]
<1>1. CASE new = old
  BY <1>1 DEF FactsEndure
<1>2. CASE Amends(new, old)
  <2>1. new = [old EXCEPT !.to = new.to] /\ old.to \in {Forever, new.to}
    BY <1>2 DEF Amends
  <2>2. old = [f \in DOMAIN old |-> old[f]]
    BY DEF FactsAreWhole, RowIsWhole
  <2>3. old.to = new.to => new = old
    <3> DEFINE end == new.to
    <3>1. new = [f \in DOMAIN old |-> IF f = "to" THEN end ELSE old[f]]
      BY <2>1
    <3>2. end = old["to"] => new = [f \in DOMAIN old |-> old[f]]
      <4> HIDE DEF new, end
      <4> QED BY <3>1
    <3> HIDE DEF new, old
    <3> QED BY <2>2, <3>2
  <2> QED BY <2>1, <2>3 DEF FactsEndure
<1> QED BY <1>1, <1>2 DEF FactsEndure

\* A commit is one of the memory store's.
LEMMA MemoryStep ==
  ASSUME NEW c \in OrgCallers, CommandInv, CommitCommand(c)
  PROVE  \E o \in OrgOperations : \E m \in OrgCommandsOf[o] : MemoryCommit(o, m)
<1>0. PICK o \in OrgOperations : \E m \in OrgCommandsOf[o] :
        orgCalls[c] = OrgCallAt("committing", o, m) /\ orgCalls[c].command = m /\ orgCalls[c].op = o
  BY CommittingCall DEF CommitCommand, CommandInv
<1>1. PICK m \in OrgCommandsOf[o] :
        orgCalls[c] = OrgCallAt("committing", o, m) /\ orgCalls[c].command = m /\ orgCalls[c].op = o
  BY <1>0
<1>2. WriteHolds(c, m)
  BY <1>1 DEF CommandInv, WritesHold
<1>3. o \notin DOMAIN orgReceipts
  BY <1>1 DEF CommandInv, ClaimsAreApart, OrgCallAt
<1>4. MemoryTakes(m)
  BY <1>2 DEF WriteHolds, RowMatches, ClosingFits, MemoryTakes
<1>5. ~MemoryOverlaps(m)
  <2> SUFFICES ASSUME m.kind = "association" PROVE ~MemoryOverlaps(m)
    BY DEF MemoryOverlaps
  <2>1. m.id \in IdsOf(m) /\ WrittenAt(m, m.id) = m
    BY DEF IdsOf, WrittenAt
  <2>2. ~Conflicts(m.id, m)
    BY <1>2, <2>1 DEF WriteHolds, Refuses
  <2>3. m.id \notin DOMAIN orgFacts
    BY <1>2, <2>1 DEF WriteHolds, RowMatches
  <2> QED BY <2>2, <2>3 DEF MemoryOverlaps, Conflicts, RowsOf
<1>6. /\ orgFacts' = Overlaid(Written(m), orgFacts)
      /\ orgReceipts' = Overlaid([p \in {o} |-> m], orgReceipts)
  BY <1>1 DEF CommitCommand
<1> QED BY <1>3, <1>4, <1>5, <1>6 DEF MemoryCommit

-----------------------------------------------------------------------------
(* The context being resolved.                                             *)

\* What commands do to the facts leaves a resolution as sound as it was.
LEMMA ContextEndures ==
  ASSUME FactsAreWhole, FactsEndure, ContextInv, UNCHANGED orgReading
  PROVE  ContextInv'
<1>1. CASE orgReading = OrgIdle
  BY <1>1 DEF ContextInv, ReadingIsTyped, ReadingIs, OrgIdle
<1>2. CASE orgReading # OrgIdle
  <2>1. DOMAIN orgFacts \subseteq DOMAIN orgFacts'
    BY DEF FactsEndure
  <2>2. /\ orgReading.based \subseteq DOMAIN orgFacts /\ orgReading.over \subseteq DOMAIN orgFacts
        /\ orgReading.left \subseteq DOMAIN orgFacts /\ orgReading.time \in OrgTimes
        /\ ~ReadingIs("idle")
    BY <1>2 DEF ContextInv, ReadingIsTyped, ReadingIs
  <2>3. ReadingIsTyped'
    BY <1>2, <2>1 DEF ContextInv, ReadingIsTyped
  <2>4. \A kind : BasedOn(kind)' = BasedOn(kind)
    <3> TAKE kind
    <3>1. BasedOn(kind) = {i \in orgReading.based : orgFacts[i].kind = kind}
      BY <2>2 DEF BasedOn, RowsOf
    <3>2. BasedOn(kind)' = {i \in orgReading.based : orgFacts'[i].kind = kind}
      BY <2>1, <2>2 DEF BasedOn, RowsOf
    <3>3. \A i \in orgReading.based : orgFacts'[i].kind = orgFacts[i].kind
      BY <2>2, FieldsEndure
    <3> QED BY <3>1, <3>2, <3>3
  <2>5. NothingIsOver'
    <3> SUFFICES ASSUME NEW i \in orgReading.over
                 PROVE  Dated(orgFacts'[i]) /\ orgFacts'[i].to <= orgReading.time
      BY <1>2, <2>2 DEF ContextInv, NothingIsOver, Dated
    <3>1. Dated(orgFacts[i]) /\ orgFacts[i].to <= orgReading.time /\ i \in DOMAIN orgFacts
      BY <2>2 DEF ContextInv, NothingIsOver
    <3>2. orgFacts[i].to # Forever
      BY <2>2, <3>1, OrgAssumption DEF OrgTimes, Forever
    <3>3. orgFacts'[i].to = orgFacts[i].to /\ orgFacts'[i].kind = orgFacts[i].kind
      BY <3>1, <3>2, FieldsEndure
    <3> QED BY <3>1, <3>3 DEF Dated
  <2>6. ASSUME NEW kind \in Closable, NEW i \in BasedOn(kind)
        PROVE  \A f \in RowFields(kind) \ {"to"} : orgFacts'[i][f] = orgFacts[i][f]
    <3>1. i \in DOMAIN orgFacts /\ orgFacts[i].kind = kind
      BY <2>6 DEF BasedOn, RowsOf
    <3>2. RowFields(kind) \subseteq DOMAIN orgFacts[i]
      BY <3>1 DEF FactsAreWhole, RowIsWhole
    <3> QED BY <3>1, <3>2, FieldsEndure
  <2>7. \A i \in BasedOn("employment") \cup BasedOn("association") :
          orgFacts'[i].person = orgFacts[i].person
    <3>1. "person" \in RowFields("employment") \ {"to"} /\ "person" \in RowFields("association") \ {"to"}
      BY DEF RowFields, OrgFields
    <3> QED BY <2>6, <3>1 DEF Closable
  <2>8. \A i \in BasedOn("assignment") : /\ orgFacts'[i].employment = orgFacts[i].employment
                                         /\ orgFacts'[i].unit = orgFacts[i].unit
    <3>1. {"employment", "unit"} \subseteq RowFields("assignment") \ {"to"}
      BY DEF RowFields, OrgFields
    <3> QED BY <2>6, <3>1 DEF Closable
  <2>9. \A i \in BasedOn("placement") : /\ orgFacts'[i].unit = orgFacts[i].unit
                                        /\ orgFacts'[i].parent = orgFacts[i].parent
    <3>1. {"unit", "parent"} \subseteq RowFields("placement") \ {"to"}
      BY DEF RowFields, OrgFields
    <3> QED BY <2>6, <3>1 DEF Closable
  <2>10. PersonsAgree'
    BY <2>2, <2>4, <2>7, <2>8 DEF ContextInv, PersonsAgree
  <2>11. \A u : Covered(u) => Covered(u)'
    BY <2>4, <2>9 DEF Covered, ReadingIs
  <2>12. PathsAreCovered'
    <3>1. PathsAreCovered
      BY <2>2 DEF ContextInv
    <3>2. ASSUME NEW i \in BasedOn("assignment")' PROVE i \in orgReading.left \/ Covered(orgFacts[i].unit)'
      <4>1. i \in BasedOn("assignment") /\ orgFacts'[i].unit = orgFacts[i].unit
        BY <2>4, <2>8, <3>2
      <4> DEFINE u == orgFacts[i].unit
      <4>2. i \in orgReading.left \/ Covered(u)
        BY <3>1, <4>1 DEF PathsAreCovered
      <4> QED BY <2>4, <2>9, <4>1, <4>2 DEF Covered, ReadingIs
    <3>3. ASSUME NEW p \in BasedOn("placement")'
          PROVE  orgFacts'[p].parent = NoParent \/ Covered(orgFacts[p].parent)'
      <4>1. p \in BasedOn("placement") /\ orgFacts'[p].parent = orgFacts[p].parent
        BY <2>4, <2>9, <3>3
      <4>2. orgFacts[p].parent = NoParent \/ Covered(orgFacts[p].parent)
        BY <3>1, <4>1 DEF PathsAreCovered
      <4> QED BY <2>4, <2>9, <4>1, <4>2 DEF Covered, ReadingIs
    <3> QED BY <2>4, <3>1, <3>2, <3>3 DEF PathsAreCovered
  <2> QED BY <2>3, <2>5, <2>10, <2>12 DEF ContextInv
<1> QED BY <1>1, <1>2

\* A fact in force at a time is not among those that were over at it.
LEMMA InForceIsNotOver ==
  ASSUME FactsAreWhole, NEW t \in OrgTimes, NEW kind, NEW i \in InForce(kind, t), kind # "person"
  PROVE  ~(orgFacts[i].to <= t)
<1>1. i \in DOMAIN orgFacts /\ Dated(orgFacts[i]) /\ t < orgFacts[i].to
  BY DEF InForce, RowsOf, ActiveAt, Dated
<1>2. orgFacts[i].to \in Nat
  BY <1>1, OrgAssumption DEF FactsAreWhole, RowIsWhole, OrgTimes, Forever
<1> QED BY <1>1, <1>2 DEF OrgTimes

\* A resolution begins on the one association in force, and with what is over.
LEMMA ResolutionBegins ==
  ASSUME FactsAreWhole, NEW s, NEW t \in OrgTimes, ResolveSubject(s, t), UNCHANGED orgFacts
  PROVE  ContextInv'
<1>1. PICK i \in DOMAIN orgFacts :
        /\ AssociationsOf(s, t) = {i}
        /\ orgReading' = [at |-> "associated", time |-> t, person |-> orgFacts[i].person,
             based |-> {i}, left |-> {}, unit |-> NoParent, visited |-> {},
             over |-> {p \in DOMAIN orgFacts : Dated(orgFacts[p]) /\ orgFacts[p].to <= t}]
  BY DEF ResolveSubject
<1>2. i \in InForce("association", t) /\ orgFacts[i].kind = "association"
  BY <1>1 DEF AssociationsOf, InForce, RowsOf
<1> DEFINE over == {p \in DOMAIN orgFacts : Dated(orgFacts[p]) /\ orgFacts[p].to <= t}
<1>3. over \subseteq DOMAIN orgFacts /\ i \notin over
      /\ \A p \in over : Dated(orgFacts[p]) /\ orgFacts[p].to <= t
  BY <1>2, InForceIsNotOver
<1>4. /\ orgReading'.at = "associated" /\ orgReading'.time = t /\ orgReading'.person = orgFacts[i].person
      /\ orgReading'.based = {i} /\ orgReading'.left = {} /\ orgReading'.over = over
      /\ orgReading' \in [at : {"associated"}, time : {t}, person : {orgReading'.person}, based : {{i}},
                          left : {{}}, unit : {orgReading'.unit}, visited : {orgReading'.visited},
                          over : {over}]
  BY <1>1
<1> HIDE DEF over
<1>5. ReadingIsTyped'
  BY <1>3, <1>4 DEF ReadingIsTyped
<1>6. NothingIsOver'
  BY <1>3, <1>4 DEF NothingIsOver, Dated
<1>7. \A kind : BasedOn(kind)' = {p \in {i} : orgFacts[p].kind = kind}
  BY <1>4 DEF BasedOn, RowsOf
<1>8. PersonsAgree' /\ PathsAreCovered'
  BY <1>2, <1>4, <1>7 DEF PersonsAgree, PathsAreCovered
<1> QED BY <1>5, <1>6, <1>8 DEF ContextInv

\* The facts an answer rests on grow.
LEMMA BasedGrows ==
  ASSUME UNCHANGED orgFacts, NEW more, orgReading'.based = orgReading.based \cup more
  PROVE  \A kind : BasedOn(kind)' = BasedOn(kind) \cup (more \cap RowsOf(kind))
BY DEF BasedOn, RowsOf

\* A step that goes on from one place of the resolution to another.
ReadsOn(more, next, left, unit) ==
  /\ next \in {"employed", "assigned", "climbing"}
  /\ orgReading' \in [at : {next}, time : {orgReading.time}, person : {orgReading.person},
                      based : {orgReading.based \cup more}, left : {left}, unit : {unit},
                      visited : {orgReading'.visited}, over : {orgReading.over}]

\* What is read is in force, and so keeps what it was read for.
LEMMA ReadingGoesOn ==
  ASSUME FactsAreWhole, ContextInv, ~ReadingIs("idle"), UNCHANGED orgFacts,
         NEW kind \in Closable, NEW more, more \subseteq InForce(kind, orgReading.time),
         NEW next, NEW left, NEW unit, left \subseteq DOMAIN orgFacts, ReadsOn(more, next, left, unit)
  PROVE  ReadingIsTyped' /\ NothingIsOver'
<1>1. orgReading.time \in OrgTimes /\ orgReading.based \subseteq DOMAIN orgFacts
      /\ orgReading.over \subseteq DOMAIN orgFacts
  BY DEF ContextInv, ReadingIsTyped, ReadingIs, OrgIdle
<1>2. more \subseteq DOMAIN orgFacts
  BY DEF InForce, RowsOf
<1>3. more \cap orgReading.over = {}
  <2>1. \A i \in orgReading.over : orgFacts[i].to <= orgReading.time
    BY DEF ContextInv, NothingIsOver
  <2>2. kind # "person"
    BY DEF Closable
  <2> QED BY <1>1, <2>1, <2>2, InForceIsNotOver
<1>4. orgReading'.time = orgReading.time /\ orgReading'.over = orgReading.over
      /\ orgReading'.based = orgReading.based \cup more
  BY DEF ReadsOn
<1>5. ReadingIsTyped'
  BY <1>1, <1>2 DEF ReadsOn, ReadingIsTyped
<1>6. NothingIsOver'
  BY <1>3, <1>4 DEF ContextInv, NothingIsOver, Dated
<1> QED BY <1>5, <1>6

\* The employments that are read are the person's.
LEMMA EmploymentsAreRead ==
  ASSUME FactsAreWhole, ContextInv, ReadEmployments, UNCHANGED orgFacts
  PROVE  ContextInv'
<1>0. ~ReadingIs("idle") /\ orgReading.at = "associated"
  BY DEF ReadEmployments, ReadingIs
<1>1. CASE orgReading' = OrgIdle
  BY <1>1 DEF ContextInv, ReadingIsTyped, ReadingIs, OrgIdle
<1>2. CASE orgReading' # OrgIdle
  <2> DEFINE more == HeldBy("employment")
  <2>1. more # {} /\ orgReading' = [orgReading EXCEPT !.at = "employed", !.based = @ \cup more]
    BY <1>2 DEF ReadEmployments, Stops, Finds
  <2>2. more \subseteq InForce("employment", orgReading.time)
        /\ \A i \in more : orgFacts[i].kind = "employment" /\ orgFacts[i].person = orgReading.person
    BY DEF HeldBy, InForce, RowsOf
  <2>3. \A k : more \cap RowsOf(k) = IF k = "employment" THEN more ELSE {}
    BY <2>2 DEF InForce, RowsOf
  <2> HIDE DEF more
  <2>4. ReadsOn(more, "employed", orgReading.left, orgReading.unit)
        /\ orgReading'.visited = orgReading.visited
    <3>1. ReadingIsTyped /\ orgReading # OrgIdle
      BY <1>0 DEF ContextInv, OrgIdle
    <3>2. orgReading' = [orgReading EXCEPT !.at = "employed", !.based = orgReading.based \cup more]
      BY <2>1
    <3> QED BY <3>1, <3>2 DEF ReadsOn, ReadingIsTyped
  <2>5. /\ orgReading'.at = "employed" /\ orgReading'.based = orgReading.based \cup more
        /\ orgReading'.person = orgReading.person /\ orgReading'.left = orgReading.left
    BY <2>4 DEF ReadsOn
  <2>6. ReadingIsTyped' /\ NothingIsOver'
    <3>1. orgReading.left \subseteq DOMAIN orgFacts
      BY <1>0 DEF ContextInv, ReadingIsTyped, ReadingIs, OrgIdle
    <3> QED BY <1>0, <2>2, <2>4, <3>1, ReadingGoesOn DEF Closable
  <2>7. \A k : BasedOn(k)' = BasedOn(k) \cup (IF k = "employment" THEN more ELSE {})
    BY <2>3, <2>5, BasedGrows
  <2>8. PersonsAgree /\ PathsAreCovered
    BY <1>0 DEF ContextInv
  <2>9. PersonsAgree'
    BY <2>1, <2>2, <2>5, <2>7, <2>8 DEF PersonsAgree
  <2>10. PathsAreCovered'
    BY <1>0, <2>5, <2>7, <2>8 DEF PathsAreCovered
  <2> QED BY <2>6, <2>9, <2>10 DEF ContextInv
<1> QED BY <1>1, <1>2

\* The assignments that are read are under an employment that was.
LEMMA AssignmentsAreRead ==
  ASSUME FactsAreWhole, ContextInv, ReadAssignments, UNCHANGED orgFacts
  PROVE  ContextInv'
<1>0. ~ReadingIs("idle") /\ orgReading.at = "employed"
  BY DEF ReadAssignments, ReadingIs
<1>1. CASE orgReading' = OrgIdle
  BY <1>1 DEF ContextInv, ReadingIsTyped, ReadingIs, OrgIdle
<1>2. CASE orgReading' # OrgIdle
  <2> DEFINE under == {i \in HeldBy("assignment") : orgFacts[i].employment \in orgReading.based}
  <2>1. \E more \in SUBSET under :
          orgReading' = [orgReading EXCEPT !.at = "assigned",
             !.left = more, !.based = orgReading.based \cup more]
    BY <1>2 DEF ReadAssignments, Stops
  <2>2. PICK more \in SUBSET under :
          orgReading' = [orgReading EXCEPT !.at = "assigned",
             !.left = more, !.based = orgReading.based \cup more]
    BY <2>1
  <2>3. ReadingIsTyped /\ orgReading # OrgIdle /\ PersonsAgree /\ PathsAreCovered
    BY <1>0 DEF ContextInv, OrgIdle
  <2>4. ASSUME NEW i \in more
        PROVE  /\ i \in InForce("assignment", orgReading.time) /\ i \in DOMAIN orgFacts
               /\ orgFacts[i].kind = "assignment" /\ orgFacts[i].employment \in BasedOn("employment")
    <3>1. i \in InForce("assignment", orgReading.time) /\ i \in DOMAIN orgFacts
          /\ orgFacts[i].kind = "assignment" /\ orgFacts[i].employment \in orgReading.based
      BY DEF HeldBy, InForce, RowsOf
    <3> QED BY <3>1 DEF FactsAreWhole, OrgHas, BasedOn
  <2>5. \A k : more \cap RowsOf(k) = IF k = "assignment" THEN more ELSE {}
    BY <2>4 DEF RowsOf
  <2> HIDE DEF under
  <2>6. ReadsOn(more, "assigned", more, orgReading.unit)
    BY <2>2, <2>3 DEF ReadsOn, ReadingIsTyped
  <2>7. /\ orgReading'.at = "assigned" /\ orgReading'.based = orgReading.based \cup more
        /\ orgReading'.person = orgReading.person /\ orgReading'.left = more
    BY <2>6 DEF ReadsOn
  <2>8. ReadingIsTyped' /\ NothingIsOver'
    <3>1. more \subseteq DOMAIN orgFacts /\ more \subseteq InForce("assignment", orgReading.time)
      BY <2>4
    <3> QED BY <1>0, <2>6, <3>1, ReadingGoesOn DEF Closable
  <2>9. \A k : BasedOn(k)' = BasedOn(k) \cup (IF k = "assignment" THEN more ELSE {})
    BY <2>5, <2>7, BasedGrows
  <2>10. PersonsAgree'
    BY <1>0, <2>3, <2>4, <2>7, <2>9 DEF PersonsAgree
  <2>11. PathsAreCovered'
    BY <1>0, <2>3, <2>7, <2>9 DEF PathsAreCovered
  <2> QED BY <2>8, <2>10, <2>11 DEF ContextInv
<1> QED BY <1>1, <1>2

\* The unit of an assignment that is checked is looked for next.
LEMMA AssignmentIsChecked ==
  ASSUME FactsAreWhole, ContextInv, NEW i, CheckAssignment(i), UNCHANGED orgFacts
  PROVE  ContextInv'
<1>0. ~ReadingIs("idle") /\ orgReading.at = "assigned" /\ i \in orgReading.left
  BY DEF CheckAssignment, ReadingIs
<1>1. CASE orgReading' = OrgIdle
  BY <1>1 DEF ContextInv, ReadingIsTyped, ReadingIs, OrgIdle
<1>2. CASE orgReading' # OrgIdle
  <2> DEFINE unit == orgFacts[i].unit
             left == orgReading.left \ {i}
  <2>1. orgReading' = [orgReading EXCEPT !.at = "climbing", !.left = left, !.unit = unit]
    BY <1>2 DEF CheckAssignment, Stops
  <2>2. ReadingIsTyped /\ orgReading # OrgIdle /\ PersonsAgree /\ PathsAreCovered
    BY <1>0 DEF ContextInv, OrgIdle
  <2>3. left \subseteq DOMAIN orgFacts
    BY <2>2 DEF ReadingIsTyped
  <2> HIDE DEF unit, left
  <2>4. ReadsOn({}, "climbing", left, unit)
    BY <2>1, <2>2 DEF ReadsOn, ReadingIsTyped
  <2>5. /\ orgReading'.at = "climbing" /\ orgReading'.based = orgReading.based \cup {}
        /\ orgReading'.person = orgReading.person /\ orgReading'.left = left
        /\ orgReading'.unit = unit
    BY <2>4 DEF ReadsOn
  <2>6. ReadingIsTyped' /\ NothingIsOver'
    <3>1. {} \subseteq InForce("placement", orgReading.time)
      OBVIOUS
    <3> QED BY <1>0, <2>3, <2>4, <3>1, ReadingGoesOn DEF Closable
  <2>7. \A k : BasedOn(k)' = BasedOn(k)
    BY <2>5 DEF BasedOn, RowsOf
  <2>8. PersonsAgree'
    BY <1>0, <2>2, <2>5, <2>7 DEF PersonsAgree
  <2>9. \A u : Covered(u) => \E p \in BasedOn("placement") : orgFacts[p].unit = u
    BY <1>0 DEF Covered, ReadingIs
  <2>10. PathsAreCovered'
    <3>1. left \subseteq BasedOn("assignment")
      BY <2>2 DEF PathsAreCovered, left
    <3>2. ASSUME NEW j \in BasedOn("assignment")
          PROVE  j \in left \/ Covered(orgFacts[j].unit)'
      <4>1. CASE j = i
        BY <2>5, <4>1 DEF Covered, ReadingIs, unit
      <4>2. CASE j # i
        BY <2>2, <2>7, <2>9, <4>2 DEF PathsAreCovered, Covered, left
      <4> QED BY <4>1, <4>2
    <3>3. ASSUME NEW p \in BasedOn("placement")
          PROVE  orgFacts[p].parent = NoParent \/ Covered(orgFacts[p].parent)'
      BY <2>2, <2>7, <2>9 DEF PathsAreCovered, Covered
    <3> QED BY <2>5, <2>7, <3>1, <3>2, <3>3 DEF PathsAreCovered
  <2> QED BY <2>6, <2>8, <2>10 DEF ContextInv
<1> QED BY <1>1, <1>2

\* A placement that is read covers its unit and leads to its parent.
LEMMA PathIsClimbed ==
  ASSUME FactsAreWhole, ContextInv, Climb, UNCHANGED orgFacts
  PROVE  ContextInv'
<1>0. ~ReadingIs("idle") /\ orgReading.at = "climbing"
  BY DEF Climb, ReadingIs
<1>1. CASE orgReading' = OrgIdle
  BY <1>1 DEF ContextInv, ReadingIsTyped, ReadingIs, OrgIdle
<1>2. CASE orgReading' # OrgIdle
  <2>1. PICK p \in InForce("placement", orgReading.time) :
          /\ orgFacts[p].unit = orgReading.unit
          /\ orgReading' = [orgReading EXCEPT !.based = @ \cup {p},
               !.at = IF orgFacts[p].parent = NoParent THEN "assigned" ELSE "climbing",
               !.unit = orgFacts[p].parent,
               !.visited = IF orgFacts[p].parent = NoParent THEN {} ELSE @ \cup {orgReading.unit}]
    BY <1>2 DEF Climb, Stops
  <2> DEFINE up == orgFacts[p].parent
             next == IF up = NoParent THEN "assigned" ELSE "climbing"
             seen == IF up = NoParent THEN {} ELSE orgReading.visited \cup {orgReading.unit}
             left == orgReading.left
  <2>2. ReadingIsTyped /\ orgReading # OrgIdle /\ PersonsAgree /\ PathsAreCovered
    BY <1>0 DEF ContextInv, OrgIdle
  <2>3. left \subseteq DOMAIN orgFacts
    BY <2>2 DEF ReadingIsTyped
  <2>4. orgFacts[p].kind = "placement" /\ p \in DOMAIN orgFacts
    BY DEF InForce, RowsOf
  <2>5. orgReading' = [orgReading EXCEPT !.based = orgReading.based \cup {p}, !.at = next,
                                           !.unit = up, !.visited = seen]
    BY <2>1
  <2>6. next \in {"assigned", "climbing"} /\ (up = NoParent \/ next = "climbing")
    OBVIOUS
  <2> HIDE DEF up, next, seen, left
  <2>7. ReadsOn({p}, next, left, up)
    BY <2>2, <2>5, <2>6 DEF ReadsOn, ReadingIsTyped, left
  <2>8. /\ orgReading'.at = next /\ orgReading'.based = orgReading.based \cup {p}
        /\ orgReading'.person = orgReading.person /\ orgReading'.left = left
        /\ orgReading'.unit = up
    BY <2>7 DEF ReadsOn
  <2>9. ReadingIsTyped' /\ NothingIsOver'
    <3>1. {p} \subseteq InForce("placement", orgReading.time)
      BY <2>1
    <3> QED BY <1>0, <2>3, <2>7, <3>1, ReadingGoesOn DEF Closable
  <2>10. \A k : BasedOn(k)' = BasedOn(k) \cup (IF k = "placement" THEN {p} ELSE {})
    <3>1. \A k : {p} \cap RowsOf(k) = IF k = "placement" THEN {p} ELSE {}
      BY <2>4 DEF RowsOf
    <3> QED BY <2>8, <3>1, BasedGrows
  <2>11. PersonsAgree'
    BY <1>0, <2>2, <2>6, <2>8, <2>10 DEF PersonsAgree
  <2>12. \A u : Covered(u) => Covered(u)'
    <3> SUFFICES ASSUME NEW u, Covered(u) PROVE Covered(u)'
      OBVIOUS
    <3>1. PICK q \in BasedOn("placement") \cup {p} : orgFacts[q].unit = u
      BY <2>1 DEF Covered, ReadingIs
    <3> QED BY <2>10, <3>1 DEF Covered
  <2>13. PathsAreCovered'
    <3>1. ASSUME NEW j \in BasedOn("assignment")
          PROVE  j \in left \/ Covered(orgFacts[j].unit)'
      BY <2>2, <2>12 DEF PathsAreCovered, left, Covered
    <3>2. ASSUME NEW q \in BasedOn("placement") \cup {p}
          PROVE  orgFacts[q].parent = NoParent \/ Covered(orgFacts[q].parent)'
      <4>1. CASE q = p
        BY <2>6, <2>8, <4>1 DEF Covered, ReadingIs, up
      <4>2. CASE q # p
        BY <2>2, <2>12, <3>2, <4>2 DEF PathsAreCovered, Covered
      <4> QED BY <4>1, <4>2
    <3>3. left \subseteq BasedOn("assignment")
      BY <2>2 DEF PathsAreCovered, left
    <3>4. orgReading'.at \notin {"associated", "employed"}
      BY <2>6, <2>8
    <3> QED BY <2>8, <2>10, <3>1, <3>2, <3>3, <3>4 DEF PathsAreCovered
  <2> QED BY <2>9, <2>11, <2>13 DEF ContextInv
<1> QED BY <1>1, <1>2

\* Every read of a resolution keeps its invariant.
LEMMA ContextStep ==
  ASSUME FactsAreWhole, ContextInv, ResolveContext
  PROVE  ContextInv'
<1>1. UNCHANGED orgFacts
  BY DEF ResolveContext
<1>2. ASSUME NEW s \in OrgSubjects, NEW t \in OrgTimes, ResolveSubject(s, t) PROVE ContextInv'
  BY <1>1, <1>2, ResolutionBegins
<1>3. CASE ReadEmployments
  BY <1>1, <1>3, EmploymentsAreRead
<1>4. CASE ReadAssignments
  BY <1>1, <1>4, AssignmentsAreRead
<1>5. ASSUME NEW i \in DOMAIN orgFacts, CheckAssignment(i) PROVE ContextInv'
  BY <1>1, <1>5, AssignmentIsChecked
<1>6. CASE Climb
  BY <1>1, <1>6, PathIsClimbed
<1>7. CASE AnswerContext
  BY <1>7 DEF AnswerContext, Stops, ContextInv, ReadingIsTyped, ReadingIs, OrgIdle
<1> QED BY <1>2, <1>3, <1>4, <1>5, <1>6, <1>7 DEF ResolveContext

\* A resolution that has no assignment left rests on facts that hang together.
LEMMA ContextIsEarned ==
  ASSUME ContextInv
  PROVE  ContextsAreEarned
<1> SUFFICES ASSUME ReadingIs("assigned"), orgReading.left = {}
             PROVE  /\ orgReading.based \cap orgReading.over = {}
                    /\ BasedOn("employment") # {}
                    /\ \A i \in BasedOn("employment") \cup BasedOn("association") :
                         orgFacts[i].person = orgReading.person
                    /\ \A i \in BasedOn("assignment") :
                         /\ orgFacts[i].employment \in BasedOn("employment")
                         /\ \E p \in BasedOn("placement") : orgFacts[p].unit = orgFacts[i].unit
                    /\ \A p \in BasedOn("placement") : orgFacts[p].parent # NoParent =>
                         \E q \in BasedOn("placement") : orgFacts[q].unit = orgFacts[p].parent
  BY DEF ContextsAreEarned
<1>1. NothingIsOver /\ PersonsAgree /\ PathsAreCovered /\ orgReading.at = "assigned"
  BY DEF ContextInv, ReadingIs
<1>2. \A u : Covered(u) => \E p \in BasedOn("placement") : orgFacts[p].unit = u
  BY <1>1 DEF Covered, ReadingIs
<1> QED BY <1>1, <1>2 DEF NothingIsOver, PersonsAgree, PathsAreCovered

\* At the start there is nothing, and no unit is above one.
LEMMA OrgInvInit ==
  ASSUME OrgInit
  PROVE  OrgInv
<1>1. DOMAIN orgFacts = {} /\ DOMAIN orgReceipts = {} /\ orgReading = OrgIdle
  BY DEF OrgInit
<1>2. DOMAIN orgCalls = OrgCallers /\ \A c \in OrgCallers : orgCalls[c] = OrgIdle
  BY DEF OrgInit
<1>3. \A t : ParentsAt(t) = {}
  BY <1>1 DEF ParentsAt, InForce, RowsOf
<1>4. \A u : AncestorsIn({}, u) = {}
  <2> TAKE u
  <2>1. Above({}, {u}) \subseteq {} /\ Above({}, {}) \subseteq {}
    BY DEF Above
  <2> QED BY <2>1, AncestorsWithin
<1>5. HierarchyIsSound
  BY <1>1, <1>3, <1>4 DEF HierarchyIsSound, InForce, RowsOf
<1>6. ClaimsAreApart /\ RowsAreApart /\ EmploymentWasSeen /\ WritesHold /\ CallsAreTyped
  BY <1>2 DEF ClaimsAreApart, RowsAreApart, EmploymentWasSeen, WritesHold, CallsAreTyped,
              CallIsTyped, CallIs, OrgCallAt, OrgIdle
<1>7. FactsAreWhole /\ ReceiptsAreTyped /\ ReceiptsAreBacked
  BY <1>1 DEF FactsAreWhole, ReceiptsAreTyped, ReceiptsAreBacked
<1>8. ContextInv
  BY <1>1 DEF ContextInv, ReadingIsTyped, ReadingIs, OrgIdle
<1> QED BY <1>5, <1>6, <1>7, <1>8 DEF OrgInv, CommandInv

\* Every step keeps the invariant.
LEMMA OrgInvStep ==
  ASSUME OrgInv, [OrgNext]_orgVars
  PROVE  OrgInv'
<1>1. ASSUME NEW c \in OrgCallers, CallerActs(c) PROVE OrgInv'
  <2>1. CommandInv'
    BY <1>1, CommandInvActs DEF OrgInv
  <2>2. UNCHANGED orgReading
    BY <1>1 DEF CallerActs, BeginCommand, ClaimReceipt, WriteRows, RollBack, CommitCommand
  <2>3. ContextInv'
    BY <1>1, <2>2, ActsEndure, ContextEndures DEF OrgInv, CommandInv
  <2> QED BY <2>1, <2>3 DEF OrgInv
<1>2. ASSUME UNCHANGED <<orgFacts, orgReceipts, orgLocks, orgCalls>> PROVE CommandInv'
  <2>1. \A kind : RowsOf(kind)' = RowsOf(kind)
    BY <1>2 DEF RowsOf
  <2>2. \A kind, t : InForce(kind, t)' = InForce(kind, t)
    BY <1>2, <2>1 DEF InForce
  <2>3. \A t : ParentsAt(t)' = ParentsAt(t)
    BY <1>2, <2>2 DEF ParentsAt
  <2>4. HierarchyIsSound'
    BY <1>2, <2>2, <2>3 DEF OrgInv, CommandInv, HierarchyIsSound
  <2>5. FactsAreWhole' /\ ReceiptsAreTyped' /\ CallsAreTyped' /\ EmploymentWasSeen'
        /\ ClaimsAreApart' /\ RowsAreApart' /\ ReceiptsAreBacked'
    BY <1>2, <2>1 DEF OrgInv, CommandInv, FactsAreWhole, ReceiptsAreTyped, CallsAreTyped, CallIsTyped,
       EmploymentWasSeen, ClaimsAreApart, RowsAreApart, ReceiptsAreBacked, OrgHas, CallIs
  <2>6. WritesHold'
    <3> SUFFICES ASSUME NEW c \in OrgCallers, NEW o \in OrgOperations, NEW m \in OrgCommandsOf[o],
                        orgCalls'[c] = OrgCallAt("committing", o, m)
                 PROVE  WriteHolds(c, m)'
      BY DEF WritesHold
    <3>1. WriteHolds(c, m) /\ FactsAreWhole /\ FactsEndure
      BY <1>2, UnchangedEndure DEF OrgInv, CommandInv, WritesHold
    <3>2. /\ DOMAIN orgFacts' = DOMAIN orgFacts \cup {} /\ {} \cap IdsOf(m) = {}
          /\ \A i \in DOMAIN orgFacts \ {} : orgFacts'[i] = orgFacts[i]
          /\ \A i \in {} : Foreign(c, orgFacts'[i])
          /\ \A l \in DOMAIN orgLocks : orgLocks[l] = c => l \in DOMAIN orgLocks' /\ orgLocks'[l] = c
      BY <1>2
    <3> QED BY <3>1, <3>2, WriteStillHolds
  <2> QED BY <2>4, <2>5, <2>6 DEF CommandInv
<1>3. CASE ResolveContext
  <2>1. CommandInv'
    BY <1>2, <1>3 DEF ResolveContext
  <2>2. ContextInv'
    BY <1>3, ContextStep DEF OrgInv, CommandInv
  <2> QED BY <2>1, <2>2 DEF OrgInv
<1>4. CASE UNCHANGED orgVars
  <2>1. CommandInv' /\ UNCHANGED orgFacts /\ UNCHANGED orgReading
    BY <1>2, <1>4 DEF orgVars
  <2>2. ContextInv'
    BY <2>1, UnchangedEndure, ContextEndures DEF OrgInv, CommandInv
  <2> QED BY <2>1, <2>2 DEF OrgInv
<1> QED BY <1>1, <1>3, <1>4 DEF OrgNext, CallerActs

\* Whatever commands and callers there are and however their transactions and the
\* resolutions interleave: no unit is above itself at any time, every receipt is
\* backed, no committed fact is overwritten, every commit is one of the memory
\* store's, and a context that is answered is earned (service.ts, postgres-store.ts
\* commit, the triggers of the organization's migration).
THEOREM OrganizationStaysSound == OrgSpec => OrganizationIsSound
<1>1. OrgInit => OrgInv
  BY OrgInvInit
<1>2. OrgInv /\ [OrgNext]_orgVars => OrgInv'
  BY OrgInvStep
<1>3. OrgInv => HierarchyIsSound /\ ReceiptsAreBacked /\ ContextsAreEarned
  BY ContextIsEarned DEF OrgInv, CommandInv
<1>4. OrgInv /\ [OrgNext]_orgVars =>
        [\A i \in DOMAIN orgFacts :
           /\ i \in DOMAIN orgFacts'
           /\ orgFacts'[i] # orgFacts[i] =>
                /\ orgFacts[i].to = Forever
                /\ orgFacts'[i] = [orgFacts[i] EXCEPT !.to = orgFacts'[i].to]]_orgVars
  <2> SUFFICES ASSUME OrgInv, [OrgNext]_orgVars
               PROVE  FactsEndure
    BY HistoryStep DEF OrgInv, CommandInv
  <2>1. ASSUME NEW c \in OrgCallers, CallerActs(c) PROVE FactsEndure
    BY <2>1, ActsEndure DEF OrgInv
  <2>2. CASE UNCHANGED orgFacts
    BY <2>2, UnchangedEndure
  <2> QED BY <2>1, <2>2 DEF OrgNext, CallerActs, ResolveContext, orgVars
<1>5. OrgInv /\ [OrgNext]_orgVars =>
        [<<orgFacts, orgReceipts>>' # <<orgFacts, orgReceipts>> =>
           \E o \in OrgOperations : \E m \in OrgCommandsOf[o] : MemoryCommit(o, m)]_orgVars
  <2> SUFFICES ASSUME OrgInv, [OrgNext]_orgVars, <<orgFacts, orgReceipts>>' # <<orgFacts, orgReceipts>>
               PROVE  \E o \in OrgOperations : \E m \in OrgCommandsOf[o] : MemoryCommit(o, m)
    OBVIOUS
  <2>1. PICK c \in OrgCallers : CommitCommand(c)
    BY DEF OrgNext, BeginCommand, ClaimReceipt, WriteRows, RollBack, ResolveContext, orgVars
  <2> QED BY <2>1, MemoryStep DEF OrgInv
<1> QED BY <1>1, <1>2, <1>3, <1>4, <1>5, PTL
       DEF OrgSpec, OrganizationIsSound, HistoryIsKept, CommitsLikeMemory

===============================================================================
