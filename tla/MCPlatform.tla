----------------------------- MODULE MCPlatform -----------------------------
(***************************************************************************)
(* Small instances of the components that share nothing at run time, for   *)
(* TLC, side by side in one run: "active" says which of them is moving,    *)
(* and the others stay in their initial states.                            *)
(***************************************************************************)
EXTENDS Sessions, Workflow, TaskCenter, Database, Authorization, Webhook, AiGateway,
        Organization, BusinessConfiguration, FormSchema, ApiProbes, ApiLifecycle,
        AppRegistry, Notifications, AuditTrail, RabbitConnections, PolicyEvaluation,
        ProtectedRequests, SecretRotation, SessionKeys, Shells, Logins, TLC

CONSTANTS k1, k2  \* two callers, of any component: they are alike

VARIABLE active

Symmetry == Permutations({k1, k2})

-----------------------------------------------------------------------------
(* What is asked of the components.                                        *)

WorkflowOperationOf == "claim" :> "task_claim" @@ "release" :> "task_release"

PolicyTimes == "v1" :> {0, 1} @@ "v2" :> {1}
PolicyContent == <<"a", "b">>
PublishPolicyAs(version, content, expected) ==
  [version |-> version, content |-> content, expected |-> expected]
PolicyCommands ==
  "p1" :> {PublishPolicyAs("v2", <<"a", "c">>, "v1"), PublishPolicyAs("v2", <<"c">>, "v1")} @@
  "p2" :> {PublishPolicyAs("v1", <<"b", "a">>, AnyVersion), PublishPolicyAs("v1", <<>>, AnyVersion)}

SignedEnvelopes ==
  {[event |-> "e1", nonce |-> "n1", signedAt |-> 2], [event |-> "e2", nonce |-> "n2", signedAt |-> 2]}

Lasting(row) == row @@ [from |-> 0, to |-> Forever]
Unit(u, placement, parent) ==
  Lasting([kind |-> "unit", id |-> u, placement |-> placement, parent |-> parent])
Place(id, u, parent, f) ==
  [kind |-> "placement", id |-> id, unit |-> u, parent |-> parent, from |-> f, to |-> Forever]
Associate(id, p, f) ==
  [kind |-> "association", id |-> id, subject |-> "s", person |-> p, from |-> f, to |-> Forever]
CloseFact(kind, id, t) == [kind |-> "close", closes |-> kind, id |-> id, to |-> t]

\* Units a and b each want to go under the other once their places at the root are
\* closed; one person follows another; a person is employed, assigned and leaves.
OrganizationCommands ==
  "a1" :> {Unit("a", "pa1", NoParent), Unit("a", "pa1", "b")} @@
  "b1" :> {Unit("b", "pb1", NoParent)} @@
  "a2" :> {Place("pa2", "a", "b", 1)} @@
  "b2" :> {Place("pb2", "b", "a", 2)} @@
  "a3" :> {CloseFact("placement", "pa1", 1)} @@
  "a4" :> {CloseFact("placement", "pa1", 2)} @@
  "b3" :> {CloseFact("placement", "pb1", 2)} @@
  "p1" :> {[kind |-> "person", id |-> "p"]} @@
  "q1" :> {[kind |-> "person", id |-> "q"], [kind |-> "person", id |-> "r"]} @@
  "s1" :> {Associate("sp", "p", 0)} @@
  "s2" :> {Associate("sq", "q", 1)} @@
  "s3" :> {CloseFact("association", "sp", 1), CloseFact("association", "sp", 2)} @@
  "w1" :> {Lasting([kind |-> "position", id |-> "w", unit |-> "a"])} @@
  "e1" :> {Lasting([kind |-> "employment", id |-> "e", person |-> "p"])} @@
  "e3" :> {Lasting([kind |-> "employment", id |-> "f", person |-> "p"])} @@
  "e2" :> {CloseFact("employment", "e", 1)} @@
  "g1" :> {Lasting([kind |-> "assignment", id |-> "g", person |-> "p", employment |-> "e",
                    unit |-> "a", position |-> "w"])}

OrganizationStories ==
  {{"a1", "b1", "a2", "b2", "a3", "b3"}, {"p1", "q1", "s1", "s2", "s3"},
   {"p1", "a1", "w1", "e1", "e2", "e3", "g1", "s1"},
   {"p1", "b1", "a1", "b3", "w1", "e1", "g1", "s1"}, {"p1", "e1", "s1", "s3"},
   {"a1", "a3", "a4"}}

SaveItems(expected, items) == [kind |-> "save", expected |-> expected, items |-> items]
SaveForm(expected, content) == [kind |-> "save", expected |-> expected, content |-> content]
PublishRevision(expected) == [kind |-> "publish", expected |-> expected]
Activate(id, from, to) ==
  [kind |-> "activate", id |-> id, scope |-> "s", from |-> from, to |-> to, value |-> 1]
Terminate(id, to) == [kind |-> "terminate", activation |-> id, to |-> to]

ConfigurationCommands ==
  "s1" :> {SaveItems(0, {"a"})} @@
  "s2" :> {SaveItems(1, {"b"}), SaveItems(1, {"a", "b"})} @@
  "p1" :> {PublishRevision(1)} @@
  "p2" :> {PublishRevision(2)} @@
  "r" :> {[kind |-> "register"]} @@
  "v" :> {[kind |-> "value"]} @@
  "x" :> {Activate("x", 0, Unbounded)} @@
  "y" :> {Activate("y", 1, 3)} @@
  "z" :> {[Activate("z", 0, Unbounded) EXCEPT !.scope = "g"]} @@
  "t" :> {Terminate("x", 1), Terminate("x", 0)}

ConfigurationStories ==
  {{"s1", "s2", "p1", "p2"}, {"r", "v", "x", "y", "t"}, {"r", "v", "x", "z"}}

ConfigurationScopes == "s" :> 2 @@ "g" :> 1

FormCommands ==
  "s1" :> {SaveForm(0, "a")} @@
  "s2" :> {SaveForm(1, "b"), SaveForm(0, "b")} @@
  "p1" :> {PublishRevision(1), PublishRevision(2)} @@
  "a1" :> {[kind |-> "active", release |-> 1, active |-> FALSE]}

\* Two routes of an application, an item for the first and one below it, not yet there,
\* for the second.
RegistryBelongsTo ==
  "a" :> {} @@ "r" :> {"a"} @@ "s" :> {"a"} @@ "n" :> {"r"} @@ "c" :> {"n", "s"}
Switch(e, on) == [kind |-> "switch", entry |-> e, enabled |-> on]
RegistryCommands ==
  "o1" :> {Switch("r", FALSE)} @@
  "o2" :> {Switch("r", TRUE), Switch("a", FALSE)} @@
  "o3" :> {[kind |-> "register", entry |-> "c", enabled |-> TRUE]}

Intent(id, release) == [id |-> id, release |-> release]
IntentsSent == "i" :> {Intent("x", "t1"), Intent("y", "t1")} @@ "j" :> {Intent("x", "t1")}

RecipientsResolved ==
  {[to |-> {"p"}, suppressed |-> {}], [to |-> {"q"}, suppressed |-> {"q"}],
   [to |-> {"p", "q"}, suppressed |-> {"q"}]}

AuditedMeanings == {<<"change", "r", "succeeded">>}

\* A release and the next, which adds the evidence; another that edited a migration;
\* and one with a module's migrations alone.
ReleaseCatalogs ==
  "old" :> (1 :> "a" @@ 2 :> "b") @@
  "edited" :> (1 :> "a" @@ 2 :> "c") @@
  "new" :> (1 :> "a" @@ 2 :> "b" @@ 3 :> "d" @@ 4 :> "e") @@
  "module" :> (4 :> "e")
DeclaredSupport ==
  "a" :> {1, 2} @@ "b" :> {1, 2} @@ "c" :> {1, 2} @@ "d" :> {1, 2} @@ "e" :> {2}
ReviewedContent == 1 :> "a" @@ 2 :> "b"

\* A permission, with a dimension or with none, which two roles bind to terms of every
\* kind, valid and not.
Match(on, listed) ==
  [kind |-> "match", on |-> on,
   values |-> [d \in Dimensions |-> IF d \in on THEN listed ELSE {}]]
Grant(role, holder, from, ends, to) ==
  [role |-> role, holder |-> holder, from |-> from, ends |-> ends, to |-> to]
SentPolicies ==
  {[declared |-> {"x"}, dimensions |-> [c \in Permissions |-> on],
    scopes |-> [role \in Roles |-> [c \in Permissions |-> IF role = "r" THEN some ELSE more]],
    grants |-> grants] :
   on \in {{}, {"d"}}, more \in {{}, {Match({"d"}, {"w"})}},
   some \in SUBSET {AllTerm, Match({"d"}, {"v"}), Match({"d"}, {"w"}), Match({"d", "e"}, {"v"})},
   grants \in {{}, {Grant("r", "p", 1, TRUE, 4)},
               {Grant("r", "a", 2, FALSE, 0), Grant("s", "p", 0, TRUE, 3)}}}
SubjectsSeen ==
  {[person |-> "p", selected |-> {}], [person |-> "p", selected |-> {"a"}]}
RequestsSeen ==
  {[code |-> "x", given |-> TRUE, on |-> on, value |-> [d \in Dimensions |-> "v"]] :
   on \in {{}, {"d"}}}
  \cup {[code |-> "x", given |-> FALSE, on |-> {}, value |-> [d \in Dimensions |-> "v"]]}

-----------------------------------------------------------------------------
Components == {"sessions", "workflow", "projection", "commands", "transactions",
               "authorization", "webhook", "ai", "organization",
               "configuration", "forms", "probes", "api", "registry", "notifications",
               "audit", "migrations", "connections", "evaluation", "requests",
               "secret", "keys", "shells", "logins"}

PlatformInit ==
  /\ active \in Components
  /\ Init /\ WorkflowInit /\ ProjectionInit /\ CommandInit /\ TransactionInit
  /\ AuthorizationInit /\ WebhookInit /\ AiInit /\ OrgInit /\ ConfigInit /\ FormInit
  /\ ProbeInit /\ ApiInit /\ RegistryInit /\ NotificationInit /\ AuditInit
  /\ MigrationInit /\ ConnectionInit /\ EvaluationInit /\ HttpInit
  /\ RotationInit /\ SessionKeysInit /\ ShellInit /\ LoginsInit
  /\ active # "connections" => adapterKind = "probe"

platformVars == <<vars, workflowVars, projectionVars, commandVars, transactionVars,
                  authorizationVars, webhookVars, aiVars, orgVars, configVars,
                  formVars, probeVars, apiVars, registryVars, notificationVars, auditVars,
                  migrationVars, connectionVars, evaluationVars, httpVars, rotationVars, keyVars,
                  shellVars, loginVars, active>>

PlatformNext ==
  /\ UNCHANGED active
  /\ IF active = "sessions" THEN Next ELSE UNCHANGED vars
  /\ IF active = "workflow" THEN WorkflowNext ELSE UNCHANGED workflowVars
  /\ IF active = "projection" THEN ProjectionNext ELSE UNCHANGED projectionVars
  /\ IF active = "commands" THEN CommandNext ELSE UNCHANGED commandVars
  /\ IF active = "transactions" THEN TransactionNext ELSE UNCHANGED transactionVars
  /\ IF active = "authorization" THEN AuthorizationNext ELSE UNCHANGED authorizationVars
  /\ IF active = "webhook" THEN WebhookNext ELSE UNCHANGED webhookVars
  /\ IF active = "ai" THEN AiNext ELSE UNCHANGED aiVars
  /\ IF active = "organization" THEN OrgNext ELSE UNCHANGED orgVars
  /\ IF active = "configuration" THEN ConfigNext ELSE UNCHANGED configVars
  /\ IF active = "forms" THEN FormNext ELSE UNCHANGED formVars
  /\ IF active = "probes" THEN ProbeNext ELSE UNCHANGED probeVars
  /\ IF active = "api" THEN ApiNext ELSE UNCHANGED apiVars
  /\ IF active = "registry" THEN RegistryNext ELSE UNCHANGED registryVars
  /\ IF active = "notifications" THEN NotificationNext ELSE UNCHANGED notificationVars
  /\ IF active = "audit" THEN AuditNext ELSE UNCHANGED auditVars
  /\ IF active = "migrations" THEN MigrationNext ELSE UNCHANGED migrationVars
  /\ IF active = "connections" THEN ConnectionNext ELSE UNCHANGED connectionVars
  /\ IF active = "evaluation" THEN EvaluationNext ELSE UNCHANGED evaluationVars
  /\ IF active = "requests" THEN HttpNext ELSE UNCHANGED httpVars
  /\ IF active = "secret" THEN RotationNext ELSE UNCHANGED rotationVars
  /\ IF active = "keys" THEN SessionKeysNext ELSE UNCHANGED keyVars
  /\ IF active = "shells" THEN ShellNext ELSE UNCHANGED shellVars
  /\ IF active = "logins" THEN LoginsNext ELSE UNCHANGED loginVars

PlatformSpec == PlatformInit /\ [][PlatformNext]_platformVars

\* One request to the API alone.
AloneSpec == (PlatformInit /\ active = "requests") /\ [][PlatformNext]_platformVars

=============================================================================
