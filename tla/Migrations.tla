----------------------------- MODULE Migrations -----------------------------
(* The schema of the database and its versions, core/storage/migration.rs, as  *)
(* servers of different releases start on it: SQLite runs every script in one  *)
(* transaction with its row in _schema_version, PostgreSQL runs the script and *)
(* then writes the row, under an advisory lock that belongs to a connection of *)
(* the pool. Rows of the tables are left out.                                  *)
EXTENDS Integers, FiniteSets, FiniteSetsExt

CONSTANTS
  MgServers,                  \* processes that may open the database
  MgReleases,                 \* values of SCHEMA_VERSION in the executables around
  MaxMgStarts, MaxMgFaults    \* bounds: starts of a server; failed statements and kills

ASSUME MgAssumption ==
  MgReleases \subseteq 1..4 /\ MgReleases # {} /\ MaxMgStarts \in Nat /\ MaxMgFaults \in Nat

VARIABLES
  mgBackend,   \* "sqlite" or "postgres"
  mgSchema,    \* tables, columns and indexes
  mgVersions,  \* versions with a row in _schema_version
  mgLock,      \* the server one of whose connections holds the advisory lock, or "nobody"
  mgAt, mgRelease, mgNext,   \* per server: what it does next, its SCHEMA_VERSION, the next script
  mgCut,       \* ghost: a PostgreSQL script took effect whose row was then not written or not deleted
  mgStarts, mgFaults
mgVars == <<mgBackend, mgSchema, mgVersions, mgLock, mgAt, mgRelease, mgNext, mgCut, mgStarts, mgFaults>>

-----------------------------------------------------------------------------
(* The scripts.                                                              *)

V1 == {"sessions", "messages", "api_keys"}
KeyColumns == {"api_keys.subject_id", "api_keys.requests_per_minute"}
V2Tables == {"api_key_rotation_transitions", "outbound_deliveries", "api_quota_events", "audit_events",
             "audit_chain_state", "api_usage_hourly", "api_usage_integrity", "api_usage_ledger_state",
             "billing_events", "billing_ledger_state", "api_idempotency", "target_grants"}
V3 == {"sessions.custom_name"}
V4 == {"idx_outbound_deliveries_outbox", "idx_outbound_deliveries_actor", "idx_outbound_deliveries_session"}

\* What script v leaves behind. In every script but those of Once a statement
\* passes over what exists already.
Makes(v) == CASE v = 1 -> V1 [] v = 2 -> V2Tables \cup KeyColumns [] v = 3 -> V3 [] v = 4 -> V4
OnceSqlite(v) == CASE v = 2 -> {"target_grants"} [] v = 3 -> V3 [] OTHER -> {}
OncePostgres(v) == IF v = 2 THEN {"target_grants"} ELSE {}
Once(v) == IF mgBackend = "sqlite" THEN OnceSqlite(v) ELSE OncePostgres(v)
\* The tables that script v updates, alters or indexes.
Needs(v) == CASE v = 2 -> {"api_keys"} [] v = 3 -> {"sessions"} [] v = 4 -> {"outbound_deliveries"} [] OTHER -> {}
ScriptRuns(v) == Once(v) \cap mgSchema = {} /\ Needs(v) \subseteq mgSchema

\* What the way back removes; an index goes with its table, a column too. On
\* SQLite the columns of api_keys stay.
Drops(v) ==
  CASE v = 1 -> V1 \cup KeyColumns \cup V3
    [] v = 2 -> V2Tables \cup V4 \cup IF mgBackend = "sqlite" THEN {} ELSE KeyColumns
    [] v = 3 -> V3
    [] v = 4 -> V4
\* A prepared statement of PostgreSQL is one statement, and only that of v3 is.
ScriptRunsBack(v) == mgBackend = "sqlite" \/ v = 3

SchemaVersion == Max(mgVersions \cup {0})     \* get_current_version
HasTables == mgSchema \cap V1 # {}       \* has_existing_tables

-----------------------------------------------------------------------------
MigrationsInit ==
  /\ mgBackend \in {"sqlite", "postgres"} /\ mgSchema = {} /\ mgVersions = {} /\ mgLock = "nobody"
  /\ mgAt = [p \in MgServers |-> "down"] /\ mgRelease = [p \in MgServers |-> Max(MgReleases)]
  /\ mgNext = [p \in MgServers |-> 1] /\ mgCut = FALSE /\ mgStarts = 0 /\ mgFaults = 0

MgFault == mgFaults < MaxMgFaults /\ mgFaults' = mgFaults + 1
MgMoves(p, here, there) == mgAt[p] = here /\ mgAt' = [mgAt EXCEPT ![p] = there]
\* The process ends, and its connections with it.
GoesDown(p, here) == MgMoves(p, here, "down") /\ mgLock' = IF mgLock = p THEN "nobody" ELSE mgLock

\* A file that cannot be opened is replaced by a database in memory; without
\* PostgreSQL there is no start.
MgStart(p, r) ==
  /\ mgStarts < MaxMgStarts /\ mgStarts' = mgStarts + 1 /\ mgRelease' = [mgRelease EXCEPT ![p] = r]
  /\ \/ MgMoves(p, "down", IF mgBackend = "sqlite" THEN "reads" ELSE "locks") /\ UNCHANGED mgFaults
     \/ mgBackend = "sqlite" /\ MgFault /\ MgMoves(p, "down", "memory")
  /\ UNCHANGED <<mgBackend, mgSchema, mgVersions, mgLock, mgNext, mgCut>>

\* The result of taking the lock is not looked at.
MgTakeLock(p) ==
  /\ MgMoves(p, "locks", "reads")
  /\ \/ mgLock = "nobody" /\ mgLock' = p /\ UNCHANGED mgFaults
     \/ MgFault /\ UNCHANGED mgLock
  /\ UNCHANGED <<mgBackend, mgSchema, mgVersions, mgRelease, mgNext, mgCut, mgStarts>>

Onward(p, next) == IF next <= mgRelease[p] THEN "applies" ELSE IF mgBackend = "sqlite" THEN "checks" ELSE "unlocks"

\* A version that cannot be read is 0, tables that cannot be counted are none.
MgRead(p) ==
  \E current \in {SchemaVersion, 0}, tables \in {HasTables, FALSE}:
    /\ IF current = SchemaVersion /\ tables = HasTables THEN UNCHANGED mgFaults ELSE MgFault
    /\ IF current > mgRelease[p] \/ (current = 0 /\ tables)
       THEN GoesDown(p, "reads") /\ UNCHANGED mgNext
       ELSE /\ MgMoves(p, "reads", Onward(p, current + 1)) /\ mgNext' = [mgNext EXCEPT ![p] = current + 1]
            /\ UNCHANGED mgLock
    /\ UNCHANGED <<mgBackend, mgSchema, mgVersions, mgRelease, mgCut, mgStarts>>

\* Mutant: the row is written after the transaction: what a failure leaves is kept.
MgApplySqlite_RowApart(p) ==
  LET v == mgNext[p] IN
  /\ mgBackend = "sqlite" /\ mgAt[p] = "applies" /\ UNCHANGED <<mgBackend, mgRelease, mgCut, mgStarts>>
  /\ \/ /\ ScriptRuns(v) /\ mgSchema' = mgSchema \cup Makes(v) /\ mgVersions' = mgVersions \cup {v}
        /\ mgNext' = [mgNext EXCEPT ![p] = v + 1] /\ MgMoves(p, "applies", Onward(p, v + 1)) /\ UNCHANGED <<mgLock, mgFaults>>
     \/ ~ScriptRuns(v) /\ GoesDown(p, "applies") /\ UNCHANGED <<mgSchema, mgVersions, mgNext, mgFaults>>
     \/ MgFault /\ GoesDown(p, "applies") /\ mgSchema' = mgSchema \cup Makes(v) /\ UNCHANGED <<mgVersions, mgNext>>

\* Script and row in one transaction.
MgApplySqlite(p) ==
  LET v == mgNext[p] IN
  /\ mgBackend = "sqlite" /\ mgAt[p] = "applies" /\ UNCHANGED <<mgBackend, mgRelease, mgCut, mgStarts>>
  /\ \/ /\ ScriptRuns(v) /\ mgSchema' = mgSchema \cup Makes(v) /\ mgVersions' = mgVersions \cup {v}
        /\ mgNext' = [mgNext EXCEPT ![p] = v + 1] /\ MgMoves(p, "applies", Onward(p, v + 1)) /\ UNCHANGED <<mgLock, mgFaults>>
     \/ ~ScriptRuns(v) /\ GoesDown(p, "applies") /\ UNCHANGED <<mgSchema, mgVersions, mgNext, mgFaults>>
     \/ MgFault /\ GoesDown(p, "applies") /\ UNCHANGED <<mgSchema, mgVersions, mgNext>>

\* The script alone; PostgreSQL takes its statements together or not at all.
MgApplyPostgres(p) ==
  LET v == mgNext[p] IN
  /\ mgBackend = "postgres" /\ mgAt[p] = "applies"
  /\ \/ ScriptRuns(v) /\ mgSchema' = mgSchema \cup Makes(v) /\ MgMoves(p, "applies", "records") /\ UNCHANGED <<mgLock, mgFaults>>
     \/ ~ScriptRuns(v) /\ GoesDown(p, "applies") /\ UNCHANGED <<mgSchema, mgFaults>>
     \/ MgFault /\ GoesDown(p, "applies") /\ UNCHANGED mgSchema
  /\ UNCHANGED <<mgBackend, mgVersions, mgRelease, mgNext, mgCut, mgStarts>>

MgRecord(p) ==
  LET v == mgNext[p] IN
  /\ \/ /\ mgVersions' = mgVersions \cup {v} /\ mgNext' = [mgNext EXCEPT ![p] = v + 1]
        /\ MgMoves(p, "records", Onward(p, v + 1)) /\ UNCHANGED <<mgLock, mgCut, mgFaults>>
     \/ MgFault /\ GoesDown(p, "records") /\ mgCut' = TRUE /\ UNCHANGED <<mgVersions, mgNext>>
  /\ UNCHANGED <<mgBackend, mgSchema, mgRelease, mgStarts>>

\* The statement may run on another connection than the one with the lock,
\* which then keeps it until the pool closes that connection (MgReap).
MgUnlock(p) ==
  /\ MgMoves(p, "unlocks", "checks") /\ (mgLock' = mgLock \/ (mgLock = p /\ mgLock' = "nobody"))
  /\ UNCHANGED <<mgBackend, mgSchema, mgVersions, mgRelease, mgNext, mgCut, mgStarts, mgFaults>>
MgReap(p) ==
  /\ mgAt[p] = "running" /\ mgLock = p /\ mgLock' = "nobody"
  /\ UNCHANGED <<mgBackend, mgSchema, mgVersions, mgAt, mgRelease, mgNext, mgCut, mgStarts, mgFaults>>

\* main compares once more. Only the first pool of SQLite is answerable for it.
MgCheck(p) ==
  /\ \E current \in {SchemaVersion, 0}:
       /\ IF current = SchemaVersion THEN UNCHANGED mgFaults ELSE MgFault
       /\ IF current > 0 /\ current # mgRelease[p] THEN GoesDown(p, "checks") ELSE MgMoves(p, "checks", "running") /\ UNCHANGED mgLock
  /\ UNCHANGED <<mgBackend, mgSchema, mgVersions, mgRelease, mgNext, mgCut, mgStarts>>

MgStop(p) ==
  /\ GoesDown(p, mgAt[p]) /\ mgAt[p] # "down"
  /\ IF mgAt[p] \in {"running", "memory"} THEN UNCHANGED mgFaults ELSE MgFault
  /\ mgCut' = (mgCut \/ mgAt[p] = "records")
  /\ UNCHANGED <<mgBackend, mgSchema, mgVersions, mgRelease, mgNext, mgStarts>>

\* One version back, while no server runs.
MgRollback ==
  /\ SchemaVersion > 0 /\ ScriptRunsBack(SchemaVersion) /\ \A p \in MgServers: mgAt[p] = "down"
  /\ mgSchema' = mgSchema \ Drops(SchemaVersion)
  /\ \/ mgVersions' = mgVersions \ {SchemaVersion} /\ UNCHANGED <<mgCut, mgFaults>>
     \/ mgBackend = "postgres" /\ MgFault /\ mgCut' = TRUE /\ UNCHANGED mgVersions
  /\ UNCHANGED <<mgBackend, mgLock, mgAt, mgRelease, mgNext, mgStarts>>

MigrationsNext ==
  \/ \E p \in MgServers: \/ \E r \in MgReleases: MgStart(p, r)
                         \/ MgTakeLock(p) \/ MgRead(p) \/ MgApplySqlite(p) \/ MgApplyPostgres(p) \/ MgRecord(p)
                         \/ MgUnlock(p) \/ MgReap(p) \/ MgCheck(p) \/ MgStop(p)
  \/ MgRollback

-----------------------------------------------------------------------------
MigrationsTypeOK ==
  /\ mgBackend \in {"sqlite", "postgres"} /\ mgSchema \subseteq UNION {Makes(v) : v \in 1..4} /\ mgVersions \subseteq 1..4
  /\ mgLock \in MgServers \cup {"nobody"} /\ mgRelease \in [MgServers -> MgReleases] /\ mgNext \in [MgServers -> 1..5]
  /\ mgAt \in [MgServers -> {"down", "locks", "reads", "applies", "records", "unlocks", "checks", "running", "memory"}]
  /\ mgCut \in BOOLEAN /\ mgStarts \in 0..MaxMgStarts /\ mgFaults \in 0..MaxMgFaults

\* Whatever fails, is killed or starts at the same time, a server that runs
\* finds the tables of its release, and the database is one on which the
\* scripts still to come can run. On PostgreSQL only as long as no failure fell
\* between a script and its row, after which no start succeeds any more.
SchemaServesItsVersion ==
  /\ mgCut \/ \A p \in MgServers: mgAt[p] = "running" => UNION {Makes(v) : v \in 1..mgRelease[p]} \subseteq mgSchema
  /\ \/ mgCut \/ \E p \in MgServers: mgAt[p] = "records"
     \/ /\ UNION {Makes(v) : v \in 1..SchemaVersion} \subseteq mgSchema
        /\ SchemaVersion = 0 => ~HasTables
        /\ \A v \in SchemaVersion + 1..4: Once(v) \cap mgSchema = {}
=============================================================================
