\* Small instances side by side; see MCPlatform for what is asked of each.
CONSTANTS
  k1 = k1
  k2 = k2
  Requests = {k1, k2, k3}
  MaxRefreshes = 1
  MaxFaults = 2
  WorkflowCommands = {"claim", "release"}
  OperationOf <- WorkflowOperationOf
  WorkflowCallers = {k1, k2}
  Principals = {"alice", "bob"}
  MaxVersion = 3
  Reconcilers = {k1, k2}
  TaskCallers = {k1, k2}
  TaskActors = {"alice", "bob"}
  TaskLease = 1
  MaxTaskTime = 2
  MaxRuns = 3
  Units = {"u1", "u2"}
  Connections = {c1}
  PolicyVersions = {"v1", "v2"}
  Allows <- PolicyTimes
  Publications = {"p1", "p2"}
  CommandsOf <- PolicyCommands
  FirstVersion = "v1"
  FirstContent <- PolicyContent
  AuthorizationCalls = {k1, k2}
  MaxPolicyTime = 1
  Envelopes <- SignedEnvelopes
  Deliveries = {k1, k2}
  AllowedClockSkew = 1
  ReplayRetention = 3
  MaxWebhookTime = 5
  AiOperations = {"o1", "o2"}
  AiMeanings = {"summarise", "extract"}
  AiConfirmations = {"f1", "f2"}
  AiDecisions = {"accepted", "rejected"}
  AiRequests = {k1, k2}
  ProposalTtl = 1
  MaxAiTime = 2
  OrgUnits = {"a", "b"}
  OrgSubjects = {"s"}
  OrgOperations = {"a1", "b1", "a2", "b2", "a3", "b3", "p1", "q1", "s1", "s2", "s3", "a4",
                   "w1", "e1", "e2", "e3", "g1"}
  OrgCommandsOf <- OrganizationCommands
  OrgStories <- OrganizationStories
  OrgCallers = {k1, k2}
  LastTime = 2
  ConfigOperations = {"s1", "s2", "p1", "p2", "r", "v", "x", "y", "z", "t"}
  ConfigCommandsOf <- ConfigurationCommands
  ConfigStories <- ConfigurationStories
  ConfigPriority <- ConfigurationScopes
  ConfigAsked = {1}
  ConfigCallers = {k1, k2}
  MaxConfigTime = 1
  FormOperations = {"s1", "s2", "p1", "a1"}
  FormCommandsOf <- FormCommands
  FormCallers = {k1, k2}
  Probes = {"policy", "role", "file"}
  FileProbe = "file"
  Applications = {"a"}
  Routes = {"r", "s"}
  Navigation = {"n", "c"}
  BelongsTo <- RegistryBelongsTo
  RegisteredAtFirst = {"a", "r", "s", "n"}
  RegistryOperations = {"o2", "o3"}
  RegistryCommandsOf <- RegistryCommands
  RegistryCallers = {k1, k2}
  IntentKeys = {"i", "j"}
  IntentsOf <- IntentsSent
  Releases = {"t1"}
  Templates = {"A", "B"}
  Resolutions <- RecipientsResolved
  Marks = {"read"}
  NotificationCallers = {k1, k2}
  AuditIds = {"i1", "i2"}
  AuditOperations = {"o1", "o2"}
  Meanings <- AuditedMeanings
  AuditCallers = {k1, k2}
  MigrationVersions = {1, 2, 3, 4}
  RegistryVersion = 1
  EvidenceVersion = 3
  Catalogs <- ReleaseCatalogs
  Reviewed <- ReviewedContent
  SupportedBy <- DeclaredSupport
  ApplicationVersions = {1, 2}
  Runners = {k1, k2}
  Permissions = {"x"}
  Dimensions = {"d", "e"}
  DimensionValues = {"v", "w"}
  Roles = {"r", "s"}
  Holders = {"p", "a"}
  PoliciesSent <- SentPolicies
  Subjects <- SubjectsSeen
  Asked <- RequestsSeen
  CacheTtl = 2
  Second = 2
  MaxEvaluationTime = 5
  HttpChanges = 1
  HttpSends = 2
  Rotations = {"r1", "r2"}
  FirstSecret = "first"
  SecretReaders = {"api"}
  KeyProcesses = {k1, k2}
  Browsers = {"w"}
  IdleTtl = 2
  AbsoluteTtl = 3
  LastKey = 2
  MaxRevision = 2
  MaxKeyTime = 3
  MaxFlips = 2
  MaxLoads = 3
  LogoutSlots = {1, 2}
  LoginRequests = {k1, k2}
  MaxGrants = 2
  MaxSigningKeys = 2
SPECIFICATION PlatformSpec
SYMMETRY Symmetry
INVARIANTS
  SessionIsSound CredentialsAreKept WorkflowIsExact DatabaseIsSound
  ReplayNeedsASlowVerifier AiIsAccountable ConfigurationIsSound FormsAreExact
  ApiIsSound RegistryIsSound NotificationsAreExact TrailIsSound ShellsAreHonest
  ConnectionsAreOwned EvaluationIsSound SecretsAreSound
PROPERTIES TaskCenterIsSound PublicationsAreSound OrganizationIsSound
CHECK_DEADLOCK FALSE
