------------------------------ MODULE Database ------------------------------
(***************************************************************************)
(* The database package (packages/database): its transactions and its      *)
(* migrations.                                                             *)
(***************************************************************************)
EXTENDS Naturals, Sequences

-----------------------------------------------------------------------------
(* The database runtime (database/src/runtime.ts): transactions and single *)
(* cancellable statements on the connections of one pool, with abort       *)
(* signals, statements that fail, and connections that break.              *)
(*                                                                         *)
(* A work unit is one outer withTransaction or one execute with a signal.  *)
(* What the caller's function does is free: any statements, nested         *)
(* withTransaction calls (they join the unit, so they are its statements), *)
(* errors it swallows, an error of its own.  It awaits its statements, as  *)
(* every store of the repository does.  PostgreSQL is external: a failed   *)
(* statement makes the transaction fail until it ends, a COMMIT of such a  *)
(* transaction rolls back without an error, and a closed connection is     *)
(* rolled back.                                                            *)

CONSTANTS
  Units,         \* units of work, each executed once
  Connections    \* the slots of the pool (maxConnections)

VARIABLES
  unit,          \* unit -> where it is
  flags,         \* unit -> TransactionState: destroyed, failure
  cancelling,    \* units whose #cancelAndTerminate is running
  holds,         \* unit -> its connection, or the empty set
  pool,          \* connections that are free
  server,        \* connection -> state of its backend
  committed,     \* units whose writes are durable
  answer,        \* unit -> what its caller is going to be told
  early          \* ghost: units aborted before a COMMIT was sent

transactionVars == <<unit, flags, cancelling, holds, pool, server, committed,
                     answer, early>>

TransactionInit ==
  /\ unit = [u \in Units |-> "idle"]
  /\ flags = [u \in Units |-> {}]
  /\ cancelling = {}
  /\ holds = [u \in Units |-> {}]
  /\ pool = Connections
  /\ server = [c \in Connections |-> "idle"]
  /\ committed = {}
  /\ answer = [u \in Units |-> "none"]
  /\ early = {}

UnitAt(u, place) == unit[u] = place
Destroyed(u) == "destroyed" \in flags[u]
BackendIs(u, s) == \A c \in holds[u] : server[c] = s
Backend(u, s) == server' = [c \in Connections |-> IF c \in holds[u] THEN s ELSE server[c]]

Go(u, place) == unit' = [unit EXCEPT ![u] = place]
Answers(u, a) == answer' = [answer EXCEPT ![u] = a]

\* A destroyed connection: the backend rolls back, the slot is free for a new one.
Terminated(u) ==
  /\ Backend(u, "idle")
  /\ pool' = pool \cup holds[u]
  /\ holds' = [holds EXCEPT ![u] = {}]

-----------------------------------------------------------------------------
(* A unit begins.                                                          *)

\* The signal is already aborted, or the pool gives no connection in time, or
\* it is aborted while the pool connects (and that connection is terminated).
Declined(u) ==
  /\ UnitAt(u, "idle")
  /\ Go(u, "done")
  /\ Answers(u, "error")
  /\ UNCHANGED <<flags, cancelling, holds, pool, server, committed, early>>

AcquireConnection(u, kind) ==
  /\ UnitAt(u, "idle")
  /\ \E c \in pool : /\ holds' = [holds EXCEPT ![u] = {c}]
                     /\ pool' = pool \ {c}
  /\ Go(u, kind)
  /\ UNCHANGED <<flags, cancelling, server, committed, answer, early>>

\* "begin", and the check of the signal after it.
Begin(u) ==
  /\ UnitAt(u, "beginning")
  /\ \/ /\ holds[u] # {} /\ BackendIs(u, "idle")
        /\ Backend(u, "open")
        /\ Go(u, IF Destroyed(u) THEN "unwinding" ELSE "working")
     \/ /\ UNCHANGED server
        /\ Go(u, "unwinding")
  /\ UNCHANGED <<flags, cancelling, holds, pool, committed, answer, early>>

\* A connection breaks; its backend rolls back.
ConnectionBreaks(c) ==
  /\ c \notin pool
  /\ server[c] # "broken"
  /\ server' = [server EXCEPT ![c] = "broken"]
  /\ UNCHANGED <<unit, flags, cancelling, holds, pool, committed, answer, early>>

\* A statement of the work fails.  execute keeps the first failure, whatever
\* the work makes of the error; a statement that succeeds changes nothing here.
StatementFails(u) ==
  /\ UnitAt(u, "working")
  /\ ~Destroyed(u)
  /\ flags' = [flags EXCEPT ![u] = @ \cup {"failure"}]
  /\ server' = [c \in Connections |->
                  IF c \in holds[u] /\ server[c] = "open" THEN "failed" ELSE server[c]]
  /\ UNCHANGED <<unit, cancelling, holds, pool, committed, answer, early>>

\* The signal of the unit, of a nested call or of a statement is aborted, at
\* any time until the finally block has removed the listener.
Abort(u) ==
  /\ unit[u] \in {"beginning", "working", "committing", "rolling", "single"}
  /\ ~Destroyed(u)
  /\ flags' = [flags EXCEPT ![u] = @ \cup {"destroyed"}]
  /\ cancelling' = cancelling \cup {u}
  /\ early' = IF unit[u] \in {"beginning", "working"} THEN early \cup {u} ELSE early
  /\ UNCHANGED <<unit, holds, pool, server, committed, answer>>

\* #cancelAndTerminate: the backend is cancelled from another connection, then
\* the connection is ended and its slot given back.
Cancelled(u) ==
  /\ u \in cancelling
  /\ cancelling' = cancelling \ {u}
  /\ Terminated(u)
  /\ UNCHANGED <<unit, flags, committed, answer, early>>

-----------------------------------------------------------------------------
(* The work ends, and the unit with it.                                    *)

WorkThrows(u) ==
  /\ UnitAt(u, "working")
  /\ Go(u, "unwinding")
  /\ UNCHANGED <<flags, cancelling, holds, pool, server, committed, answer, early>>

\* The work returns: an abort (once its cancellation is over) or a failure it
\* has swallowed refuses the commit.
WorkReturns(u) ==
  /\ UnitAt(u, "working")
  /\ Destroyed(u) => u \notin cancelling
  /\ Go(u, IF flags[u] = {} THEN "committing" ELSE "unwinding")
  /\ UNCHANGED <<flags, cancelling, holds, pool, server, committed, answer, early>>

Stored(u) == committed' = committed \cup {u}

\* COMMIT is executed and answered.  A failed transaction answers it too.
Commit(u) ==
  /\ UnitAt(u, "committing")
  /\ holds[u] # {}
  /\ \/ BackendIs(u, "open") /\ Stored(u)
     \/ BackendIs(u, "failed") /\ UNCHANGED committed
  /\ Backend(u, "idle")
  /\ Go(u, "ending")
  /\ Answers(u, "success")
  /\ UNCHANGED <<flags, cancelling, holds, pool, early>>

\* COMMIT is refused (a deferred constraint), or its answer never comes: the
\* connection broke before or after it was executed, or was terminated.
CommitFails(u) ==
  /\ UnitAt(u, "committing")
  /\ \/ holds[u] # {} /\ BackendIs(u, "open") /\ Backend(u, "idle") /\ UNCHANGED committed
     \/ holds[u] # {} /\ BackendIs(u, "open") /\ Backend(u, "broken") /\ Stored(u)
     \/ (BackendIs(u, "broken") \/ Destroyed(u)) /\ UNCHANGED <<server, committed>>
  /\ Go(u, "unwinding")
  /\ UNCHANGED <<flags, cancelling, holds, pool, answer, early>>

\* catch: a unit that is not destroyed rolls back.
Unwind(u) ==
  /\ UnitAt(u, "unwinding")
  /\ Go(u, IF Destroyed(u) THEN "ending" ELSE "rolling")
  /\ Answers(u, "error")
  /\ UNCHANGED <<flags, cancelling, holds, pool, server, committed, early>>

\* "rollback"; if that fails the connection is destroyed.
RollBackUnit(u) ==
  /\ UnitAt(u, "rolling")
  /\ Go(u, "ending")
  /\ IF holds[u] # {} /\ ~BackendIs(u, "broken")
     THEN Backend(u, "idle") /\ UNCHANGED <<flags, cancelling>>
     ELSE /\ flags' = [flags EXCEPT ![u] = @ \cup {"destroyed"}]
          /\ cancelling' = IF Destroyed(u) THEN cancelling ELSE cancelling \cup {u}
          /\ UNCHANGED server
  /\ UNCHANGED <<holds, pool, committed, answer, early>>

\* execute with a signal, outside a transaction: one statement that commits
\* itself, or fails.  Its answer is an error whenever the signal is aborted.
SingleStatement(u) ==
  /\ UnitAt(u, "single")
  /\ \/ /\ holds[u] # {} /\ ~BackendIs(u, "broken") /\ Stored(u)
        /\ Answers(u, IF Destroyed(u) THEN "error" ELSE "success")
     \/ Answers(u, "error") /\ UNCHANGED committed
  /\ Go(u, "ending")
  /\ UNCHANGED <<flags, cancelling, holds, pool, server, early>>

\* A defect: the connection goes back to the pool whatever becomes of it.
EndHastily(u) ==
  /\ UnitAt(u, "ending")
  /\ Go(u, "done")
  /\ pool' = pool \cup holds[u]
  /\ holds' = [holds EXCEPT ![u] = {}]
  /\ UNCHANGED <<flags, cancelling, server, committed, answer, early>>

\* finally: a destroyed unit waits for its cancellation, which has freed the
\* slot; any other gives its connection back (the pool drops a broken one).
EndUnit(u) ==
  /\ UnitAt(u, "ending")
  /\ u \notin cancelling
  /\ Go(u, "done")
  /\ IF Destroyed(u) THEN UNCHANGED <<holds, pool, server>>
     ELSE /\ pool' = pool \cup holds[u]
          /\ holds' = [holds EXCEPT ![u] = {}]
          /\ server' = [c \in Connections |->
               IF c \in holds[u] /\ server[c] = "broken" THEN "idle" ELSE server[c]]
  /\ UNCHANGED <<flags, cancelling, committed, answer, early>>

TransactionNext ==
  \/ \E c \in Connections : ConnectionBreaks(c)
  \/ \E u \in Units :
       \/ Declined(u)
       \/ AcquireConnection(u, "beginning") \/ AcquireConnection(u, "single")
       \/ Begin(u) \/ StatementFails(u) \/ Abort(u) \/ Cancelled(u)
       \/ WorkThrows(u) \/ WorkReturns(u)
       \/ Commit(u) \/ CommitFails(u) \/ Unwind(u) \/ RollBackUnit(u)
       \/ SingleStatement(u) \/ EndUnit(u)

TransactionSpec == TransactionInit /\ [][TransactionNext]_transactionVars

-----------------------------------------------------------------------------
(* The migration runner of packages/database (migrations.ts) and the check *)
(* an application makes before it starts (migration-compatibility.ts).     *)
(*                                                                         *)
(* A release has a catalog: versions and their content, of which checksum, *)
(* name and owner are functions, and the application versions a content    *)
(* declares to support.  Runners of several releases meet at the advisory  *)
(* lock.  A runner dies or loses its connection anywhere, which rolls its  *)
(* transaction back and frees the lock; the answer to a commit may be      *)
(* lost.  PostgreSQL runs the SQL and the record of a version in one       *)
(* transaction.                                                            *)

CONSTANTS
  MigrationVersions,   \* naturals
  RegistryVersion,     \* creates the table of applied migrations
  EvidenceVersion,     \* adds the evidence to it and fills it in for what is reviewed
  Catalogs,            \* release -> (version -> content)
  Reviewed,            \* version -> the content the evidence is filled in for
  SupportedBy,         \* content -> application versions it declares
  ApplicationVersions,
  Runners              \* processes: runners and starting applications

Nobody == "nobody"

ASSUME MigrationsAssumption ==
  /\ Nobody \notin Runners
  /\ MigrationVersions \subseteq Nat
  /\ RegistryVersion \in MigrationVersions /\ EvidenceVersion \in MigrationVersions
  /\ RegistryVersion < EvidenceVersion
  /\ \A r \in DOMAIN Catalogs : DOMAIN Catalogs[r] \subseteq MigrationVersions

VARIABLES
  executed,    \* ghost: version -> the contents whose SQL took effect, in order
  applied,     \* applied_migrations: version -> [content, evidence]
  migrationLock, \* who holds the advisory lock
  migrators    \* process -> where it is

migrationVars == <<executed, applied, migrationLock, migrators>>

NoMigrator == [at |-> "idle"]
NoEvidence == "none"

MigrationInit ==
  /\ executed = [v \in MigrationVersions |-> <<>>]
  /\ applied = [v \in {} |-> <<>>]
  /\ migrationLock = Nobody
  /\ migrators = [k \in Runners |-> NoMigrator]

MigratorAt(k, place) == migrators[k].at = place
MigratorGoes(k, place) == migrators' = [migrators EXCEPT ![k].at = place]
CatalogOf(k) == Catalogs[migrators[k].release]

-----------------------------------------------------------------------------
(* runMigrations.                                                          *)

StartRunner(k, release) ==
  /\ MigratorAt(k, "idle")
  /\ migrators' = [migrators EXCEPT ![k] = [at |-> "locking", release |-> release]]
  /\ UNCHANGED <<executed, applied, migrationLock>>

TakeLock(k) ==
  /\ MigratorAt(k, "locking")
  /\ migrationLock = Nobody
  /\ migrationLock' = k
  /\ MigratorGoes(k, "reading")
  /\ UNCHANGED <<executed, applied>>

\* The registry is read once, under the lock; there may be none yet.
ReadApplied(k) ==
  /\ MigratorAt(k, "reading")
  /\ migrators' = [migrators EXCEPT ![k] =
       [at |-> "migrating", release |-> @.release,
        known |-> [v \in DOMAIN applied |-> applied[v].content]]]
  /\ UNCHANGED <<executed, applied, migrationLock>>

\* The first version of the catalog that is not known or known with other content.
Pending(k) ==
  {v \in DOMAIN CatalogOf(k) :
     v \notin DOMAIN migrators[k].known \/ migrators[k].known[v] # CatalogOf(k)[v]}
IsNext(k, v) == v \in Pending(k) /\ \A w \in Pending(k) : v <= w

\* What the SQL of a version leaves of the registry: the evidence version fills in the
\* evidence of what is there and refuses anything not reviewed.
Backfilled(v) ==
  IF v # EvidenceVersion THEN applied
  ELSE [w \in DOMAIN applied |-> [applied[w] EXCEPT !.evidence = SupportedBy[applied[w].content]]]

CanExecute(v) ==
  v = EvidenceVersion =>
    \A w \in DOMAIN applied : w < v => w \in DOMAIN Reviewed /\ Reviewed[w] = applied[w].content

\* A defect: the SQL is committed before it is recorded.
RunSqlAtOnce(k, v) ==
  /\ MigratorAt(k, "migrating")
  /\ IsNext(k, v) /\ v \notin DOMAIN migrators[k].known
  /\ CanExecute(v)
  /\ executed' = [executed EXCEPT ![v] = @ \o <<CatalogOf(k)[v]>>]
  /\ migrators' = [migrators EXCEPT ![k] =
       [at |-> "recording", release |-> @.release, known |-> @.known, version |-> v,
        registry |-> Backfilled(v)]]
  /\ UNCHANGED <<applied, migrationLock>>

\* begin, and the SQL inside the transaction.
RunSql(k, v) ==
  /\ MigratorAt(k, "migrating")
  /\ IsNext(k, v) /\ v \notin DOMAIN migrators[k].known
  /\ CanExecute(v)
  /\ migrators' = [migrators EXCEPT ![k] =
       [at |-> "recording", release |-> @.release, known |-> @.known, version |-> v,
        registry |-> Backfilled(v)]]
  /\ UNCHANGED <<executed, applied, migrationLock>>

\* The table, without a row of the version, and after the evidence version its columns
\* must be there.
CanRecord(k, v) ==
  /\ v \notin DOMAIN applied
  /\ v = RegistryVersion \/ RegistryVersion \in DOMAIN applied
  /\ v > EvidenceVersion => EvidenceVersion \in DOMAIN applied

RecordVersion(k) ==
  LET run == migrators[k]  v == run.version  content == CatalogOf(k)[v] IN
    /\ MigratorAt(k, "recording")
    /\ CanRecord(k, v)
    /\ migrators' = [migrators EXCEPT ![k] =
         [at |-> "committing", release |-> run.release, known |-> run.known, version |-> v,
          registry |-> [w \in DOMAIN run.registry \cup {v} |->
            IF w # v THEN run.registry[w]
            ELSE [content |-> content,
                  evidence |-> IF v >= EvidenceVersion THEN SupportedBy[content]
                               ELSE NoEvidence]]]]
    /\ UNCHANGED <<executed, applied, migrationLock>>

Executes(k) ==
  executed' = [executed EXCEPT ![migrators[k].version] =
                 @ \o <<CatalogOf(k)[migrators[k].version]>>]

\* The next version; or the answer is lost and the runner fails.
CommitVersion(k) ==
  LET run == migrators[k] IN
    /\ MigratorAt(k, "committing")
    /\ Executes(k)
    /\ applied' = run.registry
    /\ \/ /\ migrators' = [migrators EXCEPT ![k] =
               [at |-> "migrating", release |-> run.release,
                known |-> [v \in DOMAIN run.known \cup {run.version} |->
                  IF v = run.version THEN CatalogOf(k)[v] ELSE run.known[v]]]]
          /\ UNCHANGED migrationLock
       \/ migrators' = [migrators EXCEPT ![k] = NoMigrator] /\ migrationLock' = Nobody

\* Nothing is left: the lock is given back and the migrations are current.
MigrationsCurrent(k) ==
  /\ MigratorAt(k, "migrating")
  /\ Pending(k) = {}
  /\ migrationLock' = Nobody
  /\ migrators' = [migrators EXCEPT ![k] = [at |-> "current", release |-> @.release]]
  /\ UNCHANGED <<executed, applied>>

\* A modified migration, SQL that fails, a connection or a process that dies: the
\* transaction is rolled back, the lock released.
RunnerFails(k) ==
  /\ migrators[k].at \in {"locking", "reading", "migrating", "recording", "committing"}
  /\ migrators' = [migrators EXCEPT ![k] = NoMigrator]
  /\ migrationLock' = IF migrationLock = k THEN Nobody ELSE migrationLock
  /\ UNCHANGED <<executed, applied>>

-----------------------------------------------------------------------------
(* checkMigrationCompatibility: one statement, compared with the catalog.  *)

IsCompatible(release, version) ==
  /\ DOMAIN applied = DOMAIN Catalogs[release]
  /\ \A v \in DOMAIN applied :
       /\ applied[v].content = Catalogs[release][v]
       /\ applied[v].evidence = SupportedBy[Catalogs[release][v]]
       /\ version \in applied[v].evidence

CheckMigrations(k, release, version) ==
  /\ MigratorAt(k, "idle")
  /\ EvidenceVersion \in DOMAIN applied
  /\ migrators' = [migrators EXCEPT ![k] =
       [at |-> IF IsCompatible(release, version) THEN "compatible" ELSE "incompatible",
        release |-> release, application |-> version]]
  /\ UNCHANGED <<executed, applied, migrationLock>>

MigratorEnds(k) ==
  /\ migrators[k].at \in {"current", "compatible", "incompatible"}
  /\ migrators' = [migrators EXCEPT ![k] = NoMigrator]
  /\ UNCHANGED <<executed, applied, migrationLock>>

MigrationNext ==
  \E k \in Runners :
    \/ \E r \in DOMAIN Catalogs :
         \/ StartRunner(k, r)
         \/ \E version \in ApplicationVersions : CheckMigrations(k, r, version)
    \/ TakeLock(k) \/ ReadApplied(k)
    \/ \E v \in MigrationVersions : RunSql(k, v)
    \/ RecordVersion(k) \/ CommitVersion(k) \/ MigrationsCurrent(k) \/ RunnerFails(k)
    \/ MigratorEnds(k)

MigrationSpec == MigrationInit /\ [][MigrationNext]_migrationVars

-----------------------------------------------------------------------------
(* Properties.                                                             *)

\* A caller is told success only of writes that are durable, all of them; and
\* a unit aborted before its COMMIT was sent is never durable, whatever errors
\* the work swallowed and wherever the abort met it (runtime.ts:160-221).
ToldMeansStored ==
  /\ \A u \in Units : answer[u] = "success"
       => u \in committed /\ "failure" \notin flags[u]
  /\ early \cap committed = {}

\* A connection in the pool belongs to nobody and has no transaction open; a
\* cancellation only ever meets the backend of its own unit; and when all is
\* done every slot is back, once (runtime.ts:80-96, 213-219).
PoolIsClean ==
  /\ \A c \in pool : server[c] = "idle"
  /\ \A u \in Units : holds[u] \cap pool = {}
  /\ \A u, v \in Units : u # v => holds[u] \cap holds[v] = {}
  /\ \A u \in cancelling : holds[u] # {}
  /\ (\A u \in Units : unit[u] \in {"idle", "done"}) => pool = Connections

\* What units of work, their callers and the pool make of one another.
TransactionsAreHonest == ToldMeansStored /\ PoolIsClean

\* What took effect is what is on record, once, whatever runners died, lost the
\* answer to a commit, waited for each other or brought another release
\* (migrations.ts:157-197).
ExecutedAsRecorded ==
  \A v \in MigrationVersions :
    executed[v] = IF v \in DOMAIN applied THEN <<applied[v].content>> ELSE <<>>

\* README.md:19, "in global version order under the migration lock": what is on
\* record came with a catalog whose earlier versions are all on record, as it has
\* them.
InCatalogOrder ==
  \A v \in DOMAIN applied :
    \E r \in DOMAIN Catalogs :
      \A w \in DOMAIN Catalogs[r] \cup {v} :
        w <= v => /\ w \in DOMAIN applied \cap DOMAIN Catalogs[r]
                  /\ applied[w].content = Catalogs[r][w]

\* A runner that ends well, and a check that finds the database compatible, speak
\* of a schema in which the whole catalog took effect; a compatible application is
\* supported by all of it, with evidence on record (migration-compatibility.ts:82-110).
VerdictsAreTrue ==
  \A k \in Runners :
    migrators[k].at \in {"current", "compatible"} =>
      \A v \in DOMAIN CatalogOf(k) :
        /\ executed[v] = <<CatalogOf(k)[v]>>
        /\ MigratorAt(k, "compatible") =>
             migrators[k].application \in SupportedBy[CatalogOf(k)[v]] \cap applied[v].evidence

MigrationsAreExact == ExecutedAsRecorded /\ InCatalogOrder /\ VerdictsAreTrue

\* The database: what its transactions tell and keep, and what was migrated
\* (packages/database/src/runtime.ts:93-214, packages/database/src/migrations.ts:88-211).
DatabaseIsSound == TransactionsAreHonest /\ MigrationsAreExact

=============================================================================
