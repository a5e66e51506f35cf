------------------------------ MODULE Sessions ------------------------------
(* One session of core/session/manager.rs: an entry of the in-memory map and a  *)
(* row of the table sessions, written separately. The callers are the session   *)
(* bridge (core/session/bridge.rs), which handles one inbound message after the *)
(* other, and API handlers that rename or delete. The map is a DashMap: its     *)
(* shard lock blocks the thread that wants it, and update_last_message,         *)
(* update_source_fields and update keep it while they await the table. Tasks    *)
(* that wait for the database give their thread back.                           *)
EXTENDS Integers, FiniteSets

CONSTANTS
  Bridge,             \* the task of the session bridge
  Renamers, Deleters, \* handlers of PUT and DELETE /sessions/{key}
  NoTask, Absent,     \* nobody holds the lock; no entry, no row
  Threads,            \* worker threads of the runtime
  Texts,              \* of inbound messages: "short" or "wide"
  MaxSessionCalls,    \* bound: calls in all
  MaxSessionFaults,   \* bound: failing statements
  MaxAges,            \* bound: times the session expires (365 days)
  MaxReloads          \* bound: restarts

SessionTasks == {Bridge} \cup Renamers \cup Deleters

ASSUME SessionAssumption ==
  /\ NoTask \notin SessionTasks /\ IsFiniteSet(SessionTasks)
  /\ Renamers \cap Deleters = {} /\ Bridge \notin Renamers \cup Deleters
  /\ Threads \in Nat \ {0} /\ Texts \subseteq {"short", "wide"}
  /\ MaxSessionCalls \in Nat /\ MaxSessionFaults \in Nat
  /\ MaxAges \in Nat /\ MaxReloads \in Nat

VARIABLES
  entry,              \* the entry of the map
  row,                \* the row of the table
  shard,              \* who keeps the shard lock across an await
  blocked,            \* tasks whose thread waits for the shard lock
  at,                 \* position of each task
  snapshot,           \* the copy a task is about to write
  text,               \* text of the message the bridge handles
  late,               \* ghost: the last statement carried an older state than the map
  version, sessionCalls, sessionFaults, ages, reloads

sessionVars == <<entry, row, shard, blocked, at, snapshot, text, late, version,
                 sessionCalls, sessionFaults, ages, reloads>>

\* v tells two states of a session apart; old: updated_at is before the cutoff.
SessionStates == [v : Nat, old : BOOLEAN]

Positions == {"idle", "create", "createRow", "last", "lastRow", "enrich", "source",
              "sourceRow", "rename", "renameRow", "remove", "removeRow", "dead"}

SessionsTypeOK ==
  /\ entry \in SessionStates \cup {Absent} /\ row \in SessionStates \cup {Absent}
  /\ shard \in SessionTasks \cup {NoTask} /\ blocked \subseteq SessionTasks
  /\ at \in [SessionTasks -> Positions]
  /\ snapshot \in [SessionTasks -> SessionStates \cup {Absent}]
  /\ text \in Texts /\ late \in BOOLEAN /\ version \in Nat
  /\ sessionCalls \in 0 .. MaxSessionCalls /\ sessionFaults \in 0 .. MaxSessionFaults
  /\ ages \in 0 .. MaxAges /\ reloads \in 0 .. MaxReloads

SessionsInit ==
  /\ entry = Absent /\ row = Absent /\ shard = NoTask /\ blocked = {}
  /\ at = [t \in SessionTasks |-> "idle"] /\ snapshot = [t \in SessionTasks |-> Absent]
  /\ text \in Texts /\ late = FALSE /\ version = 0
  /\ sessionCalls = 0 /\ sessionFaults = 0 /\ ages = 0 /\ reloads = 0

Bounds == <<sessionCalls, sessionFaults, ages, reloads>>

-----------------------------------------------------------------------------
\* A task runs on a thread; those that wait for the lock keep theirs.
ThreadFree == Cardinality(blocked) < Threads
Runs(t, p) == at[t] = p /\ t \notin blocked /\ ThreadFree
\* It gets the lock when nobody keeps it, whether it was waiting or not.
GetsLock(t, p) == at[t] = p /\ shard = NoTask /\ (t \in blocked \/ ThreadFree)
Locking == {"create", "last", "source", "rename", "remove"}

Goto(t, p) == at' = [at EXCEPT ![t] = p]
Idle == \A t \in SessionTasks : at[t] \in {"idle", "dead"}

Block(t) ==
  /\ at[t] \in Locking /\ t \notin blocked /\ ThreadFree /\ shard # NoTask
  /\ blocked' = blocked \cup {t}
  /\ UNCHANGED <<entry, row, shard, at, snapshot, text, late, version, Bounds>>

\* A new state of the entry; updated_at is set to now unless keep.
Touched(keep) == [v |-> version + 1, old |-> keep /\ entry # Absent /\ entry.old]

-----------------------------------------------------------------------------
\* An inbound message arrives at the bridge, a request at a handler. The handler
\* of PUT has seen the session; DELETE goes on without one.
BridgeReceives ==
  /\ Runs(Bridge, "idle") /\ sessionCalls < MaxSessionCalls
  /\ sessionCalls' = sessionCalls + 1
  /\ text' \in Texts /\ Goto(Bridge, "create")
  /\ UNCHANGED <<entry, row, shard, blocked, snapshot, late, version, sessionFaults, ages, reloads>>

Request(t) ==
  /\ t # Bridge /\ Runs(t, "idle") /\ sessionCalls < MaxSessionCalls
  /\ sessionCalls' = sessionCalls + 1
  /\ \/ t \in Renamers /\ entry # Absent /\ Goto(t, "rename")
     \/ t \in Deleters /\ Goto(t, "remove")
  /\ UNCHANGED <<entry, row, shard, blocked, snapshot, text, late, version, sessionFaults, ages, reloads>>

\* get_or_create: the entry is created or touched under the shard lock, which is
\* released before the row is written.
GetOrCreate ==
  /\ GetsLock(Bridge, "create")
  /\ entry' = Touched(FALSE) /\ version' = version + 1
  /\ snapshot' = [snapshot EXCEPT ![Bridge] = entry']
  /\ Goto(Bridge, "createRow") /\ blocked' = blocked \ {Bridge}
  /\ UNCHANGED <<row, shard, text, late, Bounds>>

\* upsert_session writes the copy, or fails, which is only logged.
Upsert(t, stale) ==
  \/ row' = snapshot[t] /\ late' = stale /\ UNCHANGED sessionFaults
  \/ /\ sessionFaults < MaxSessionFaults /\ sessionFaults' = sessionFaults + 1
     /\ late' = TRUE /\ UNCHANGED row

WriteCreated ==
  /\ Runs(Bridge, "createRow") /\ Goto(Bridge, "last")
  /\ Upsert(Bridge, entry # snapshot[Bridge])
  /\ UNCHANGED <<entry, shard, blocked, snapshot, text, version, sessionCalls, ages, reloads>>

\* Mutant: an update releases the lock before its statement.
ChangeUnderLock_Released(t, here, next, absent, keep) ==
  /\ GetsLock(t, here) /\ blocked' = blocked \ {t}
  /\ \/ entry = Absent /\ Goto(t, absent) /\ UNCHANGED <<entry, snapshot, version>>
     \/ /\ entry # Absent
        /\ entry' = Touched(keep) /\ version' = version + 1
        /\ snapshot' = [snapshot EXCEPT ![t] = entry'] /\ Goto(t, next)
  /\ UNCHANGED <<row, shard, text, late, Bounds>>

\* get_mut, change, and keep the lock for the statement; no entry, no change.
ChangeUnderLock(t, here, next, absent, keep) ==
  /\ GetsLock(t, here) /\ blocked' = blocked \ {t}
  /\ \/ entry = Absent /\ Goto(t, absent) /\ UNCHANGED <<entry, shard, snapshot, version>>
     \/ /\ entry # Absent
        /\ entry' = Touched(keep) /\ version' = version + 1
        /\ snapshot' = [snapshot EXCEPT ![t] = entry']
        /\ shard' = t /\ Goto(t, next)
  /\ UNCHANGED <<row, text, late, Bounds>>

\* update_last_message cuts a text of more than 100 bytes at byte 97 and panics
\* when a character lies across it; updated_at stays as it is.
UpdateLast ==
  /\ text = "short" \/ entry = Absent
  /\ ChangeUnderLock(Bridge, "last", "lastRow", "enrich", TRUE)

\* The panic unwinds through the bridge's only task; the guard is dropped.
CutPanics ==
  /\ text = "wide" /\ entry # Absent /\ GetsLock(Bridge, "last")
  /\ Goto(Bridge, "dead") /\ blocked' = blocked \ {Bridge}
  /\ UNCHANGED <<entry, row, shard, snapshot, text, late, version, Bounds>>

\* Enrichment asks the adapter when the session is still there; it may know
\* nothing new.
Enrich ==
  /\ Runs(Bridge, "enrich")
  /\ \/ Goto(Bridge, "idle")
     \/ entry # Absent /\ Goto(Bridge, "source")
  /\ UNCHANGED <<entry, row, shard, blocked, snapshot, text, late, version, Bounds>>

UpdateSource == ChangeUnderLock(Bridge, "source", "sourceRow", "idle", FALSE)
UpdateName(t) == t \in Renamers /\ ChangeUnderLock(t, "rename", "renameRow", "idle", FALSE)

\* The statement of an update ends and the guard is dropped.
WriteBack(t, here, next) ==
  /\ Runs(t, here)
  /\ Upsert(t, FALSE) /\ shard' = NoTask /\ Goto(t, next)
  /\ UNCHANGED <<entry, blocked, snapshot, text, version, sessionCalls, ages, reloads>>

WriteLast == WriteBack(Bridge, "lastRow", "enrich")
WriteSource == WriteBack(Bridge, "sourceRow", "idle")
WriteName(t) == t \in Renamers /\ WriteBack(t, "renameRow", "idle")

\* SessionManager::delete: the entry under the lock, then the row.
RemoveEntry(t) ==
  /\ t \in Deleters /\ GetsLock(t, "remove") /\ blocked' = blocked \ {t}
  /\ entry' = Absent
  /\ Goto(t, IF entry = Absent THEN "idle" ELSE "removeRow")
  /\ UNCHANGED <<row, shard, snapshot, text, late, version, Bounds>>

RemoveRow(t) ==
  /\ t \in Deleters /\ Runs(t, "removeRow") /\ Goto(t, "idle")
  /\ \/ row' = Absent /\ late' = (entry # Absent) /\ UNCHANGED sessionFaults
     \/ /\ sessionFaults < MaxSessionFaults /\ sessionFaults' = sessionFaults + 1
        /\ late' = TRUE /\ UNCHANGED row
  /\ UNCHANGED <<entry, shard, blocked, snapshot, text, version, sessionCalls, ages, reloads>>

-----------------------------------------------------------------------------
\* A year without a message; calls last seconds, so none is under way.
Aged(s) == IF s = Absent THEN Absent ELSE [s EXCEPT !.old = TRUE]
Age ==
  /\ Idle /\ ages < MaxAges /\ ages' = ages + 1
  /\ entry' = Aged(entry) /\ row' = Aged(row)
  /\ snapshot' = [t \in SessionTasks |-> Absent]
  /\ UNCHANGED <<shard, blocked, at, text, late, version, sessionCalls, sessionFaults, reloads>>

\* RetentionWorker deletes expired rows, another task expired entries (retain
\* takes the shard lock).
DeleteExpired ==
  /\ row # Absent /\ row.old /\ row' = Absent
  /\ UNCHANGED <<entry, shard, blocked, at, snapshot, text, late, version, Bounds>>
PruneExpired ==
  /\ entry # Absent /\ entry.old /\ shard = NoTask /\ ThreadFree /\ entry' = Absent
  /\ UNCHANGED <<row, shard, blocked, at, snapshot, text, late, version, Bounds>>

\* The process ends; load_from_store fills the map of the next one.
Reload ==
  /\ reloads < MaxReloads /\ reloads' = reloads + 1
  /\ entry' = row /\ late' = FALSE
  /\ shard' = NoTask /\ blocked' = {}
  /\ at' = [t \in SessionTasks |-> "idle"] /\ snapshot' = [t \in SessionTasks |-> Absent]
  /\ UNCHANGED <<row, text, version, sessionCalls, sessionFaults, ages>>

BridgeStep == GetOrCreate \/ WriteCreated \/ UpdateLast \/ CutPanics \/ Enrich
              \/ UpdateSource \/ WriteLast \/ WriteSource
HandlerStep(t) == UpdateName(t) \/ WriteName(t) \/ RemoveEntry(t) \/ RemoveRow(t)

SessionsNext ==
  \/ BridgeReceives \/ BridgeStep
  \/ \E t \in SessionTasks : Request(t) \/ HandlerStep(t) \/ Block(t)
  \/ Age \/ DeleteExpired \/ PruneExpired \/ Reload

-----------------------------------------------------------------------------
\* With nothing in flight the map and the table hold the same session
\* (get_or_create, update, delete, retention and pruning), except for what has
\* expired on one side only, and after one of the three known windows: an older
\* copy written last, a row removed under a new entry, a failed statement.
MapAndTableAgree ==
  (Idle /\ ~late) =>
    \/ entry = row
    \/ entry = Absent /\ row.old
    \/ row = Absent /\ entry.old
=============================================================================
