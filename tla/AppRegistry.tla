---------------------------- MODULE AppRegistry ----------------------------
(***************************************************************************)
(* The application registry: audited, idempotent mutations of the tables   *)
(* of applications, routes and navigation (service.ts, postgres-store.ts), *)
(* and the queries, which read the tables one after the other and ask for  *)
(* a decision on every entry between the reads (query-service.ts).         *)
(*                                                                         *)
(* An entry is its id, with the application and parents it belongs to and  *)
(* whether it is enabled.  The decisions and the audit port are external:  *)
(* a decision may be any, and the port keeps one fact per operation and    *)
(* result, or fails.  A transaction is one step.  Callers retry a mutation *)
(* under its operation id, or reuse the id for another one.                *)
(***************************************************************************)
EXTENDS Naturals

CONSTANTS
  Applications, Routes, Navigation,   \* ids
  BelongsTo,           \* entry -> what it refers to: its application, route, parent
  RegisteredAtFirst,   \* entries there at the start, enabled
  RegistryOperations,  \* operation ids
  RegistryCommandsOf,  \* operation id -> commands it is used with
  RegistryCallers      \* concurrent requests

Entries == Applications \cup Routes \cup Navigation

ASSUME RegistryAssumption ==
  /\ RegisteredAtFirst \subseteq Entries
  /\ BelongsTo \in [Entries -> SUBSET Entries]
  /\ \A e \in RegisteredAtFirst : BelongsTo[e] \subseteq RegisteredAtFirst
  /\ \A a \in Applications : BelongsTo[a] = {}
  /\ \A o \in RegistryOperations : \A c \in RegistryCommandsOf[o] :
       c.entry \in Entries /\ c.enabled \in BOOLEAN

VARIABLES
  entryState,       \* entry -> "absent", "on" or "off"
  registryReceipts, \* operation_receipts: operation -> the command it stands for
  registryCalls,    \* caller -> where its request is
  registryFacts,    \* external: attempts and successes in the audit, <<operation, result>>
  registryEffects           \* ghost: operation -> how often it took effect

registryVars == <<entryState, registryReceipts, registryCalls, registryFacts, registryEffects>>

NoRegistryCall == [at |-> "idle"]

RegistryInit ==
  /\ entryState = [e \in Entries |-> IF e \in RegisteredAtFirst THEN "on" ELSE "absent"]
  /\ registryReceipts = [o \in {} |-> <<>>]
  /\ registryCalls = [k \in RegistryCallers |-> NoRegistryCall]
  /\ registryFacts = {}
  /\ registryEffects = [o \in RegistryOperations |-> 0]

RegistryAt(k, place) == registryCalls[k].at = place
RegistryGoes(k, place) == registryCalls' = [registryCalls EXCEPT ![k].at = place]
RegistryEnds(k) == registryCalls' = [registryCalls EXCEPT ![k] = NoRegistryCall]

\* A fact is kept once, whatever asks for it again; the port may also fail.
RegistryAudits(k, result) ==
  registryFacts' = registryFacts \cup {<<registryCalls[k].operation, result>>}

-----------------------------------------------------------------------------
(* Mutations.                                                              *)

Mutate(k, o, c) ==
  /\ RegistryAt(k, "idle")
  /\ registryCalls' = [registryCalls EXCEPT ![k] =
                         [at |-> "authorized", operation |-> o, command |-> c]]
  /\ UNCHANGED <<entryState, registryReceipts, registryFacts, registryEffects>>

\* Denied, or the decision or its audit is unavailable: nothing has happened.
MutationDenied(k) ==
  /\ RegistryAt(k, "authorized")
  /\ RegistryEnds(k)
  /\ UNCHANGED <<entryState, registryReceipts, registryFacts, registryEffects>>

\* The attempt is kept before anything is changed.
Attempt(k) ==
  /\ RegistryAt(k, "authorized")
  /\ RegistryAudits(k, "attempted")
  /\ RegistryGoes(k, "committing")
  /\ UNCHANGED <<entryState, registryReceipts, registryEffects>>

\* What the constraints of the schema and the row counts admit.
CanApply(c) ==
  IF c.kind = "register"
  THEN /\ entryState[c.entry] = "absent"
       /\ \A e \in BelongsTo[c.entry] : entryState[e] # "absent"
  ELSE entryState[c.entry] # "absent"

Applied(o, c) ==
  /\ entryState' = [entryState EXCEPT ![c.entry] = IF c.enabled THEN "on" ELSE "off"]
  /\ registryReceipts' = [p \in DOMAIN registryReceipts \cup {o} |->
                            IF p = o THEN c ELSE registryReceipts[p]]
  /\ registryEffects' = [registryEffects EXCEPT ![o] = @ + 1]

HasReceipt(o) == o \in DOMAIN registryReceipts

\* A query in progress has seen what is enabled while it runs.
WitnessedBy(next, entry, enabled) ==
  [k \in RegistryCallers |->
     IF enabled /\ next[k].at \in {"routes", "navigation", "link"}
     THEN [next[k] EXCEPT !.witnessed = @ \cup {entry}]
     ELSE next[k]]

\* A defect: the receipt is compared, and the mutation made again.
CommitAgain(k) ==
  LET call == registryCalls[k] IN
    /\ RegistryAt(k, "committing")
    /\ HasReceipt(call.operation) => registryReceipts[call.operation] = call.command
    /\ HasReceipt(call.operation) \/ CanApply(call.command)
    /\ Applied(call.operation, call.command)
    /\ RegistryGoes(k, "succeeded")
    /\ UNCHANGED <<registryFacts>>

\* commit, under the lock of the operation: a known operation is a replay, a new
\* one is applied with its receipt.  The answer may be lost.
CommitMutation(k) ==
  LET call == registryCalls[k] IN
    /\ RegistryAt(k, "committing")
    /\ \E next \in {"succeeded", "failed"} :
         LET moved == [registryCalls EXCEPT ![k].at = next] IN
           IF HasReceipt(call.operation)
           THEN /\ registryReceipts[call.operation] = call.command
                /\ registryCalls' = moved
                /\ UNCHANGED <<entryState, registryReceipts, registryEffects>>
           ELSE /\ CanApply(call.command)
                /\ Applied(call.operation, call.command)
                /\ registryCalls' = WitnessedBy(moved, call.command.entry, call.command.enabled)
    /\ UNCHANGED <<registryFacts>>

\* A conflict, a missing target, or a transaction that fails.
CommitRefused(k) ==
  /\ RegistryAt(k, "committing")
  /\ RegistryGoes(k, "failed")
  /\ UNCHANGED <<entryState, registryReceipts, registryFacts, registryEffects>>

\* The outcome is kept before it is told; without it the caller knows nothing.
AuditMutation(k) ==
  /\ registryCalls[k].at \in {"succeeded", "failed"}
  /\ \/ RegistryAt(k, "succeeded") /\ RegistryAudits(k, "succeeded")
     \/ UNCHANGED registryFacts
  /\ RegistryEnds(k)
  /\ UNCHANGED <<entryState, registryReceipts, registryEffects>>

-----------------------------------------------------------------------------
(* Queries.                                                                *)

On(entries) == {e \in entries : entryState[e] = "on"}

\* loadRegistry: the enabled applications of the audience that are allowed.
LoadApplications(k) ==
  /\ RegistryAt(k, "idle")
  /\ \E allowed \in SUBSET On(Applications) :
       registryCalls' = [registryCalls EXCEPT ![k] =
         [at |-> "routes", entries |-> allowed, witnessed |-> On(Entries)]]
  /\ UNCHANGED <<entryState, registryReceipts, registryFacts, registryEffects>>

\* The enabled routes of those applications that are allowed.
LoadRoutes(k) ==
  /\ RegistryAt(k, "routes")
  /\ \E allowed \in SUBSET {r \in On(Routes) : BelongsTo[r] \subseteq registryCalls[k].entries} :
       registryCalls' = [registryCalls EXCEPT ![k] =
         [at |-> "navigation", witnessed |-> @.witnessed, entries |-> @.entries \cup allowed]]
  /\ UNCHANGED <<entryState, registryReceipts, registryFacts, registryEffects>>

\* An item is kept when its parents are, up to the root.
Reachable(candidates) ==
  LET kept[n \in Navigation] ==
        /\ n \in candidates
        /\ \A p \in BelongsTo[n] \cap Navigation : kept[p]
  IN {n \in candidates : kept[n]}

Candidates(entries) ==
  {n \in On(Navigation) : BelongsTo[n] \ Navigation \subseteq entries}

LoadNavigation(k) ==
  LET call == registryCalls[k] IN
    /\ RegistryAt(k, "navigation")
    /\ registryCalls' = [registryCalls EXCEPT ![k] =
         [at |-> "answered", witnessed |-> call.witnessed,
          entries |-> call.entries \cup Reachable(Candidates(call.entries))]]
    /\ UNCHANGED <<entryState, registryReceipts, registryFacts, registryEffects>>

\* resolveDeepLink: the application is read, then the route, each enabled when it
\* is read; then both are authorized.
FindApplication(k, r) ==
  /\ RegistryAt(k, "idle")
  /\ BelongsTo[r] \subseteq On(Applications)
  /\ registryCalls' = [registryCalls EXCEPT ![k] =
       [at |-> "link", entries |-> BelongsTo[r] \cup {r}, route |-> r,
        witnessed |-> On(Entries)]]
  /\ UNCHANGED <<entryState, registryReceipts, registryFacts, registryEffects>>

ResolveLink(k) ==
  LET call == registryCalls[k] IN
    /\ RegistryAt(k, "link")
    /\ entryState[call.route] = "on"
    /\ RegistryGoes(k, "answered")
    /\ UNCHANGED <<entryState, registryReceipts, registryFacts, registryEffects>>

\* The answer is told; or a refusal or a failing dependency ends the query.
QueryEnds(k) ==
  /\ registryCalls[k].at \in {"routes", "navigation", "link", "answered"}
  /\ RegistryEnds(k)
  /\ UNCHANGED <<entryState, registryReceipts, registryFacts, registryEffects>>

RegistryNext ==
  \E k \in RegistryCallers :
    \/ \E o \in RegistryOperations : \E c \in RegistryCommandsOf[o] : Mutate(k, o, c)
    \/ MutationDenied(k) \/ Attempt(k) \/ CommitMutation(k) \/ CommitRefused(k)
    \/ AuditMutation(k)
    \/ LoadApplications(k) \/ LoadRoutes(k) \/ LoadNavigation(k)
    \/ \E r \in Routes : FindApplication(k, r)
    \/ ResolveLink(k) \/ QueryEnds(k)

RegistrySpec == RegistryInit /\ [][RegistryNext]_registryVars

-----------------------------------------------------------------------------
(* Properties.                                                             *)

\* "a successful state mutation followed by audit dependency failure can be
\* retried without repeating the mutation" (app-registry README.md): an
\* operation takes effect at most once, never before its attempt is on record,
\* and is on record as a success only if it took effect.
MutationsAreOnRecord ==
  \A o \in RegistryOperations :
    /\ registryEffects[o] = IF HasReceipt(o) THEN 1 ELSE 0
    /\ HasReceipt(o) => <<o, "attempted">> \in registryFacts
    /\ <<o, "succeeded">> \in registryFacts => HasReceipt(o)

\* What a query shows was enabled while it ran, whatever was switched off and on
\* between its reads, and shows with every entry all that the entry refers to
\* (service.ts:55-82, 85-97).
AnswersAreClosed ==
  \A k \in RegistryCallers :
    RegistryAt(k, "answered") =>
      LET answer == registryCalls[k].entries IN
        /\ answer \subseteq registryCalls[k].witnessed
        /\ \A e \in answer : BelongsTo[e] \subseteq answer

RegistryIsSound == MutationsAreOnRecord /\ AnswersAreClosed

=============================================================================
