---------------------------- MODULE ServiceProofs ----------------------------
(* Proofs about the services over the storage: sessions (Sessions), the quota of*)
(* the request gate (RequestGate), the streams of events (EventStreams), the    *)
(* migrations of the schema (Migrations), what an interrupted operation leaves  *)
(* of the plugins (PluginStore, PluginProcess) and of the executable (Updater), *)
(* the ledgers (Ledgers) and the webhooks (Webhooks).                           *)
EXTENDS Sessions, RequestGate, EventStreams, Migrations, PluginStore, Updater, PluginProcess,
        Ledgers, Webhooks, TLAPS, FiniteSetTheorems, WellFoundedInduction

-----------------------------------------------------------------------------
(* Sessions in the map and in the table (Sessions).                          *)
SessionsSpec == SessionsInit /\ [][SessionsNext]_sessionVars

Entries == SessionStates \cup {Absent}

\* An update that has changed the entry keeps the lock until its statement ends,
\* and writes what the map still holds.
UpdateIsCurrent ==
  \A t \in SessionTasks : at[t] \in {"lastRow", "sourceRow", "renameRow"} => shard = t /\ snapshot[t] = entry

Agreement ==
  \/ entry = row
  \/ entry = Absent /\ row.old
  \/ row = Absent /\ entry.old
NothingToWrite == \A t \in SessionTasks : at[t] \notin {"createRow", "lastRow", "sourceRow", "renameRow", "removeRow"}

SessionsInv ==
  /\ entry \in Entries /\ row \in Entries /\ version \in Nat
  /\ at \in [SessionTasks -> Positions] /\ snapshot \in [SessionTasks -> Entries]
  /\ UpdateIsCurrent
  /\ NothingToWrite /\ ~late => Agreement

\* The entry an update writes back to the map.
LEMMA TouchedIsEntry ==
  ASSUME version \in Nat, entry \in Entries, NEW keep \in BOOLEAN
  PROVE  Touched(keep) \in Entries
  BY DEF Touched, Entries, SessionStates

\* Time makes an entry old and changes nothing else of it.
LEMMA AgedIsEntry ==
  ASSUME NEW s \in Entries
  PROVE  Aged(s) \in Entries /\ (s # Absent => Aged(s).old) /\ (s = Absent => Aged(s) = Absent)
  BY DEF Aged, Entries, SessionStates

\* The change of the entry under the lock.
LEMMA UpdateKeepsInv ==
  ASSUME SessionsInv, NEW t \in SessionTasks, NEW here, NEW next \in {"lastRow", "sourceRow", "renameRow"},
         NEW absent \in {"enrich", "idle"}, NEW keep \in BOOLEAN, here \in {"last", "source", "rename"},
         ChangeUnderLock(t, here, next, absent, keep)
  PROVE  SessionsInv'
  <1> USE DEF SessionsInv
  <1>1. at[t] = here /\ shard = NoTask /\ row' = row /\ late' = late
    BY DEF ChangeUnderLock, GetsLock
  <1>2. \A u \in SessionTasks : at[u] \notin {"lastRow", "sourceRow", "renameRow"}
    BY <1>1, SessionAssumption DEF UpdateIsCurrent
  <1>3. CASE entry = Absent /\ Goto(t, absent) /\ UNCHANGED <<entry, shard, snapshot, version>>
    <2>1. at' \in [SessionTasks -> Positions] /\ \A u \in SessionTasks : at'[u] \notin {"lastRow", "sourceRow", "renameRow"}
      BY <1>2, <1>3 DEF Goto, Positions
    <2>2. NothingToWrite' => NothingToWrite
      BY <1>1, <1>2, <1>3 DEF NothingToWrite, Goto
    <2> QED BY <1>1, <1>3, <2>1, <2>2 DEF UpdateIsCurrent, Agreement
  <1>4. CASE /\ entry' = Touched(keep) /\ version' = version + 1
             /\ snapshot' = [snapshot EXCEPT ![t] = entry'] /\ shard' = t /\ Goto(t, next)
    <2>1. entry' \in Entries /\ version' \in Nat /\ snapshot' \in [SessionTasks -> Entries] /\ snapshot'[t] = entry'
      BY <1>4, TouchedIsEntry
    <2>2. at' \in [SessionTasks -> Positions] /\ at'[t] = next /\ \A u \in SessionTasks \ {t} : at'[u] = at[u]
      BY <1>4 DEF Goto, Positions
    <2>3. UpdateIsCurrent' /\ ~NothingToWrite'
      BY <1>2, <1>4, <2>1, <2>2 DEF UpdateIsCurrent, NothingToWrite
    <2> QED BY <1>1, <2>1, <2>2, <2>3
  <1> QED BY <1>3, <1>4 DEF ChangeUnderLock

\* The end of its statement.
LEMMA WriteKeepsInv ==
  ASSUME SessionsInv, NEW t \in SessionTasks, NEW here \in {"lastRow", "sourceRow", "renameRow"},
         NEW next \in {"enrich", "idle"}, WriteBack(t, here, next)
  PROVE  SessionsInv'
  <1> USE DEF SessionsInv
  <1>1. at[t] = here /\ Goto(t, next) /\ UNCHANGED <<entry, snapshot, version>> /\ shard' = NoTask
    BY DEF WriteBack, Runs
  <1>2. shard = t /\ snapshot[t] = entry
    BY <1>1 DEF UpdateIsCurrent
  <1>3. (row' = entry /\ late' = FALSE) \/ (row' = row /\ late' = TRUE)
    BY <1>2 DEF WriteBack, Upsert
  <1>4. at' \in [SessionTasks -> Positions] /\ at'[t] = next /\ \A u \in SessionTasks \ {t} : at'[u] = at[u]
    BY <1>1 DEF Goto, Positions
  <1>5. \A u \in SessionTasks : at'[u] \notin {"lastRow", "sourceRow", "renameRow"}
    BY <1>2, <1>4 DEF UpdateIsCurrent
  <1> QED BY <1>1, <1>3, <1>4, <1>5 DEF UpdateIsCurrent, Agreement

\* A step of task t that touches neither the entry nor the row.
LEMMA MoveKeepsInv ==
  ASSUME SessionsInv, NEW t \in SessionTasks, NEW to \in {"idle", "dead", "create", "last", "enrich", "source", "rename", "remove"},
         at[t] \in {"idle", "create", "last", "enrich", "source", "rename", "remove"},
         Goto(t, to), UNCHANGED <<entry, row, shard, snapshot, late, version>>
  PROVE  SessionsInv'
  <1> USE DEF SessionsInv
  <1>1. at' \in [SessionTasks -> Positions] /\ at'[t] = to /\ \A u \in SessionTasks \ {t} : at'[u] = at[u]
    BY DEF Goto, Positions
  <1>2. UpdateIsCurrent'
    BY <1>1 DEF UpdateIsCurrent
  <1>3. NothingToWrite' => NothingToWrite
    BY <1>1 DEF NothingToWrite
  <1> QED BY <1>1, <1>2, <1>3 DEF Agreement

\* Every step of a bridge task, of a request handler, of the cleaner and of time keeps the invariant of the sessions.
LEMMA SessionsInvStep == SessionsInv /\ [SessionsNext]_sessionVars => SessionsInv'
  <1> SUFFICES ASSUME SessionsInv, [SessionsNext]_sessionVars PROVE SessionsInv'
    OBVIOUS
  <1> USE DEF SessionsInv
  <1>0. Bridge \in SessionTasks /\ Renamers \subseteq SessionTasks /\ Deleters \subseteq SessionTasks
    BY DEF SessionTasks
  <1>1. CASE BridgeReceives
    BY <1>0, <1>1, MoveKeepsInv DEF BridgeReceives, Runs
  <1>2. CASE GetOrCreate
    <2>1. at[Bridge] = "create" /\ shard = NoTask /\ UNCHANGED <<row, shard, late>>
      BY <1>2 DEF GetOrCreate, GetsLock
    <2>2. entry' \in Entries /\ version' \in Nat /\ snapshot' \in [SessionTasks -> Entries]
      <3>1. entry' = Touched(FALSE) /\ version' = version + 1 /\ snapshot' = [snapshot EXCEPT ![Bridge] = entry']
        BY <1>2 DEF GetOrCreate
      <3>2. Touched(FALSE) \in Entries
        BY TouchedIsEntry
      <3>3. entry' \in Entries
        BY <3>1, <3>2, Zenon
      <3>4. snapshot' = [snapshot EXCEPT ![Bridge] = entry'] /\ version' = version + 1
        BY <3>1
      <3>5. version' \in Nat
        BY <3>4
      <3>6. snapshot' \in [SessionTasks -> Entries]
        <4>1. snapshot \in [SessionTasks -> Entries]
          OBVIOUS
        <4> HIDE DEF SessionsInv
        <4> QED BY <1>0, <3>3, <3>4, <4>1
      <3> QED BY <3>3, <3>5, <3>6
    <2>3. at' \in [SessionTasks -> Positions] /\ at'[Bridge] = "createRow" /\ \A u \in SessionTasks \ {Bridge} : at'[u] = at[u]
      BY <1>0, <1>2 DEF GetOrCreate, Goto, Positions
    <2>4. \A u \in SessionTasks : at'[u] \notin {"lastRow", "sourceRow", "renameRow"}
      BY <2>1, <2>3, SessionAssumption DEF UpdateIsCurrent
    <2> QED BY <1>0, <2>1, <2>2, <2>3, <2>4 DEF UpdateIsCurrent, NothingToWrite
  <1>3. CASE WriteCreated
    <2>1. /\ at[Bridge] = "createRow" /\ Goto(Bridge, "last") /\ UNCHANGED <<entry, shard, snapshot, version>>
          /\ \/ row' = snapshot[Bridge] /\ late' = (entry # snapshot[Bridge])
             \/ late' = TRUE /\ row' = row
      BY <1>3 DEF WriteCreated, Runs, Upsert
    <2>2. at' \in [SessionTasks -> Positions] /\ at'[Bridge] = "last" /\ \A u \in SessionTasks \ {Bridge} : at'[u] = at[u]
      BY <1>0, <2>1 DEF Goto, Positions
    <2>3. UpdateIsCurrent'
      BY <2>1, <2>2 DEF UpdateIsCurrent
    <2>4. row' \in Entries /\ (~late' => row' = entry')
      BY <1>0, <2>1
    <2> QED BY <2>1, <2>2, <2>3, <2>4 DEF Agreement
  <1>4. CASE UpdateLast
    BY <1>0, <1>4, UpdateKeepsInv DEF UpdateLast
  <1>5. CASE CutPanics
    BY <1>0, <1>5, MoveKeepsInv DEF CutPanics, GetsLock
  <1>6. CASE Enrich
    BY <1>0, <1>6, MoveKeepsInv DEF Enrich, Runs
  <1>7. CASE UpdateSource
    BY <1>0, <1>7, UpdateKeepsInv DEF UpdateSource
  <1>8. CASE WriteLast
    BY <1>0, <1>8, WriteKeepsInv DEF WriteLast
  <1>9. CASE WriteSource
    BY <1>0, <1>9, WriteKeepsInv DEF WriteSource
  <1>10. CASE \E t \in SessionTasks : Request(t)
    BY <1>10, MoveKeepsInv DEF Request, Runs
  <1>11. CASE \E t \in SessionTasks : UpdateName(t)
    BY <1>11, UpdateKeepsInv DEF UpdateName
  <1>12. CASE \E t \in SessionTasks : WriteName(t)
    BY <1>12, WriteKeepsInv DEF WriteName
  <1>13. CASE \E t \in SessionTasks : RemoveEntry(t)
    <2> PICK t \in SessionTasks : RemoveEntry(t)
      BY <1>13
    <2>1. /\ at[t] = "remove" /\ shard = NoTask /\ UNCHANGED <<row, shard, snapshot, late, version>> /\ entry' = Absent
          /\ Goto(t, IF entry = Absent THEN "idle" ELSE "removeRow")
      BY DEF RemoveEntry, GetsLock
    <2>2. CASE entry = Absent
      BY <2>1, <2>2, MoveKeepsInv
    <2>3. CASE entry # Absent
      <3>1. at' \in [SessionTasks -> Positions] /\ at'[t] = "removeRow" /\ \A u \in SessionTasks \ {t} : at'[u] = at[u]
        BY <2>1, <2>3 DEF Goto, Positions
      <3>2. \A u \in SessionTasks : at'[u] \notin {"lastRow", "sourceRow", "renameRow"}
        BY <2>1, <3>1, SessionAssumption DEF UpdateIsCurrent
      <3> QED BY <2>1, <3>1, <3>2 DEF UpdateIsCurrent, NothingToWrite, Entries
    <2> QED BY <2>2, <2>3
  <1>14. CASE \E t \in SessionTasks : RemoveRow(t)
    <2> PICK t \in SessionTasks : RemoveRow(t)
      BY <1>14
    <2>1. /\ at[t] = "removeRow" /\ Goto(t, "idle") /\ UNCHANGED <<entry, shard, snapshot, version>>
          /\ (row' = Absent /\ late' = (entry # Absent)) \/ (late' = TRUE /\ row' = row)
      BY DEF RemoveRow, Runs
    <2>2. at' \in [SessionTasks -> Positions] /\ at'[t] = "idle" /\ \A u \in SessionTasks \ {t} : at'[u] = at[u]
      BY <2>1 DEF Goto, Positions
    <2>3. UpdateIsCurrent'
      BY <2>1, <2>2 DEF UpdateIsCurrent
    <2>4. row' \in Entries /\ (~late' => row' = entry')
      BY <2>1 DEF Entries
    <2> QED BY <2>1, <2>2, <2>3, <2>4 DEF Agreement
  <1>15. CASE \E t \in SessionTasks : Block(t)
    BY <1>15 DEF Block, UpdateIsCurrent, NothingToWrite, Agreement
  <1>16. CASE Age
    <2>1. entry' = Aged(entry) /\ row' = Aged(row) /\ snapshot' = [t \in SessionTasks |-> Absent] /\ UNCHANGED <<shard, at, late, version>>
      BY <1>16 DEF Age
    <2>2. \A t \in SessionTasks : at[t] \in {"idle", "dead"}
      BY <1>16 DEF Age, Idle
    <2>3. entry' \in Entries /\ row' \in Entries /\ snapshot' \in [SessionTasks -> Entries]
      BY <2>1, AgedIsEntry DEF Entries
    <2>4. UpdateIsCurrent'
      BY <2>1, <2>2 DEF UpdateIsCurrent
    <2>5. Agreement => Agreement'
      BY <2>1, AgedIsEntry DEF Agreement
    <2> QED BY <2>1, <2>2, <2>3, <2>4, <2>5 DEF NothingToWrite
  <1>17. CASE DeleteExpired
    <2>1. row # Absent /\ row.old /\ row' = Absent /\ UNCHANGED <<entry, shard, at, snapshot, late, version>>
      BY <1>17 DEF DeleteExpired
    <2>2. Agreement => Agreement'
      BY <2>1 DEF Agreement
    <2> QED BY <2>1, <2>2 DEF UpdateIsCurrent, NothingToWrite, Entries
  <1>18. CASE PruneExpired
    <2>1. entry # Absent /\ entry.old /\ shard = NoTask /\ entry' = Absent /\ UNCHANGED <<row, shard, at, snapshot, late, version>>
      BY <1>18 DEF PruneExpired
    <2>2. Agreement => Agreement'
      BY <2>1 DEF Agreement
    <2>3. UpdateIsCurrent'
      BY <2>1, SessionAssumption DEF UpdateIsCurrent
    <2> QED BY <2>1, <2>2, <2>3 DEF NothingToWrite, Entries
  <1>19. CASE Reload
    BY <1>19 DEF Reload, UpdateIsCurrent, NothingToWrite, Agreement, Positions, Entries
  <1>20. CASE UNCHANGED sessionVars
    BY <1>20 DEF sessionVars, UpdateIsCurrent, NothingToWrite, Agreement
  <1> QED BY <1>1, <1>2, <1>3, <1>4, <1>5, <1>6, <1>7, <1>8, <1>9, <1>10, <1>11, <1>12, <1>13, <1>14, <1>15,
             <1>16, <1>17, <1>18, <1>19, <1>20 DEF SessionsNext, BridgeStep, HandlerStep

\* A manager that starts with an empty map and an empty table.
LEMMA SessionsStart == SessionsInit => SessionsInv
  BY DEF SessionsInit, SessionsInv, UpdateIsCurrent, Agreement, Positions, Entries

\* When nothing is about to write and no late answer of the database is outstanding,
\* the session in the map and its row in the table are the same, or the one that is
\* missing has expired in the other (session/manager.rs): MapAndTableAgree for every
\* number of tasks, whatever order their locks and statements come in.
THEOREM CopiesAgree == SessionsSpec => []MapAndTableAgree
  <1>1. SessionsInv => MapAndTableAgree
    BY DEF SessionsInv, MapAndTableAgree, NothingToWrite, Agreement, Idle
  <1> QED BY <1>1, SessionsStart, SessionsInvStep, PTL DEF SessionsSpec

\* Who keeps the lock and waits for it, the text at hand, and the bounds.
SessionsRest ==
  /\ shard \in SessionTasks \cup {NoTask} /\ blocked \subseteq SessionTasks
  /\ text \in Texts
  /\ sessionCalls \in 0 .. MaxSessionCalls /\ sessionFaults \in 0 .. MaxSessionFaults
  /\ ages \in 0 .. MaxAges /\ reloads \in 0 .. MaxReloads

\* The ghost is one of the two truth values.
LateOK == late \in BOOLEAN

\* No step makes anything else of it.
LEMMA LateStep == LateOK /\ [SessionsNext]_sessionVars => LateOK'
  <1> SUFFICES ASSUME LateOK, [SessionsNext]_sessionVars PROVE late' \in BOOLEAN
    BY DEF LateOK
  <1> USE DEF LateOK
  <1>1. CASE UNCHANGED late
    BY <1>1
  <1>2. CASE late' = TRUE \/ late' = FALSE
    BY <1>2, Zenon
  <1>3. CASE late' = (entry # snapshot[Bridge]) \/ late' = (entry # Absent)
    BY <1>3, Zenon
  <1>4. UNCHANGED late \/ late' = TRUE \/ late' = FALSE \/ late' = (entry # snapshot[Bridge]) \/ late' = (entry # Absent)
    <2>1. CASE SessionsNext
      <3>1. CASE WriteCreated
        BY <3>1, Zenon DEF WriteCreated, Upsert
      <3>2. CASE WriteLast \/ WriteSource \/ \E t \in SessionTasks : WriteName(t)
        BY <3>2, Zenon DEF WriteLast, WriteSource, WriteName, WriteBack, Upsert
      <3>3. CASE \E t \in SessionTasks : RemoveRow(t)
        BY <3>3, Zenon DEF RemoveRow
      <3>4. CASE Reload
        BY <3>4, Zenon DEF Reload
      <3>5. CASE BridgeReceives \/ GetOrCreate \/ UpdateLast \/ CutPanics \/ Enrich \/ UpdateSource \/ Age \/ DeleteExpired \/ PruneExpired
        BY <3>5 DEF BridgeReceives, GetOrCreate, UpdateLast, CutPanics, Enrich, UpdateSource, ChangeUnderLock, Age, DeleteExpired, PruneExpired
      <3>6. CASE \E t \in SessionTasks : Request(t) \/ UpdateName(t) \/ RemoveEntry(t) \/ Block(t)
        BY <3>6 DEF Request, UpdateName, ChangeUnderLock, RemoveEntry, Block
      <3> QED BY <2>1, <3>1, <3>2, <3>3, <3>4, <3>5, <3>6 DEF SessionsNext, BridgeStep, HandlerStep
    <2>2. CASE UNCHANGED sessionVars
      BY <2>2 DEF sessionVars
    <2> QED BY <2>1, <2>2
  <1> QED BY <1>1, <1>2, <1>3, <1>4

\* Every step of a task, and of the clock and the restart, keeps the rest.
LEMMA SessionsRestStep == SessionsRest /\ [SessionsNext]_sessionVars => SessionsRest'
  <1> SUFFICES ASSUME SessionsRest, [SessionsNext]_sessionVars PROVE SessionsRest'
    OBVIOUS
  <1> USE SessionAssumption DEF SessionsRest, Bounds
  <1>0. Bridge \in SessionTasks /\ Renamers \subseteq SessionTasks /\ Deleters \subseteq SessionTasks
    BY DEF SessionTasks
  <1>1. CASE BridgeReceives
    BY <1>1 DEF BridgeReceives
  <1>2. CASE GetOrCreate \/ CutPanics \/ Enrich
    BY <1>2 DEF GetOrCreate, CutPanics, Enrich
  <1>3. CASE WriteCreated
    BY <1>3 DEF WriteCreated, Upsert
  <1>4. CASE UpdateLast \/ UpdateSource \/ \E t \in SessionTasks : UpdateName(t)
    BY <1>0, <1>4 DEF UpdateLast, UpdateSource, UpdateName, ChangeUnderLock
  <1>5. CASE WriteLast \/ WriteSource \/ \E t \in SessionTasks : WriteName(t)
    BY <1>0, <1>5 DEF WriteLast, WriteSource, WriteName, WriteBack, Upsert
  <1>6. CASE \E t \in SessionTasks : Request(t) \/ RemoveEntry(t) \/ Block(t)
    BY <1>6 DEF Request, RemoveEntry, Block
  <1>7. CASE \E t \in SessionTasks : RemoveRow(t)
    BY <1>7 DEF RemoveRow
  <1>8. CASE Age \/ DeleteExpired \/ PruneExpired
    BY <1>8 DEF Age, DeleteExpired, PruneExpired
  <1>9. CASE Reload
    BY <1>9 DEF Reload
  <1>10. CASE UNCHANGED sessionVars
    BY <1>10 DEF sessionVars
  <1> QED BY <1>1, <1>2, <1>3, <1>4, <1>5, <1>6, <1>7, <1>8, <1>9, <1>10 DEF SessionsNext, BridgeStep, HandlerStep

\* The types of the variables of the sessions: SessionsTypeOK.
LEMMA SessionsTypes == SessionsSpec => []SessionsTypeOK
  <1>2. SessionsInit => SessionsRest
    BY SessionAssumption DEF SessionsInit, SessionsRest
  <1>3. SessionsInit => LateOK
    BY Zenon DEF SessionsInit, LateOK
  <1>4. SessionsInv /\ SessionsRest /\ LateOK => SessionsTypeOK
    BY DEF LateOK, SessionsInv, SessionsRest, SessionsTypeOK, Entries
  <1> QED BY <1>2, <1>3, <1>4, LateStep, SessionsStart, SessionsInvStep, SessionsRestStep, PTL DEF SessionsSpec

-----------------------------------------------------------------------------
(* The quota of a subject (RequestGate).                                     *)
GateSpec == RequestGateInit /\ [][RequestGateNext]_rgVars

\* The row of spending n is in the table, at a time no earlier than the spending
\* less the wait, or a minute less the wait has passed since.
HasRow(s, n) == \E e \in rgQuota : e.subject = s /\ e.id = n - 1 /\ rgSpent[s][n] - Lag <= e.time
Expired(s, n) == rgSpent[s][n] + Window - Lag <= rgClock
RowsKeepSpending == \A s \in RgSubjects : \A n \in DOMAIN rgSpent[s] : HasRow(s, n) \/ Expired(s, n)
SpendingIsOrdered ==
  \A s \in RgSubjects :
    /\ \A n \in DOMAIN rgSpent[s] : rgSpent[s][n] <= rgClock
    /\ \A m, n \in DOMAIN rgSpent[s] : m <= n => rgSpent[s][m] <= rgSpent[s][n]
GateInv ==
  /\ rgClock \in Nat /\ rgSpent \in [RgSubjects -> Seq(Int)]
  /\ rgReq \in [RgRequests -> [subject : RgSubjects \cup {"none"}, now : Nat]]
  /\ \A r \in RgRequests : rgReq[r].now <= rgClock /\ (RgWaits(r) => rgReq[r].subject \in RgSubjects)
  /\ IsFiniteSet(rgQuota) /\ \A e \in rgQuota : e.time \in Int /\ e.id \in Int
  /\ RowsKeepSpending /\ SpendingIsOrdered /\ QuotaIsNotOversold

\* A table with room for one more row of a subject has lost one of its last
\* QuotaLimit rows.
LEMMA RoomMeansExpired ==
  ASSUME GateInv, NEW s \in RgSubjects, NEW mine, IsFiniteSet(mine), Cardinality(mine) < QuotaLimit,
         NEW i \in Nat, NEW n \in Nat, n = i + QuotaLimit
  PROVE  \E j \in i .. n - 1 : \A e \in mine : e.id # j - 1
  <1> SUFFICES ASSUME \A j \in i .. n - 1 : \E e \in mine : e.id = j - 1 PROVE FALSE
    OBVIOUS
  <1> DEFINE Ids == {e.id : e \in mine}
  <1>1. IsFiniteSet(Ids) /\ Cardinality(Ids) <= Cardinality(mine)
    <2> DEFINE f == [e \in mine |-> e.id]
    <2>1. f \in Surjection(mine, Ids)
      BY DEF Surjection
    <2> HIDE DEF f, Ids
    <2> QED BY <2>1, FS_Surjection
  <1>2. i - 1 .. n - 2 \subseteq Ids
    <2> SUFFICES ASSUME NEW k \in i - 1 .. n - 2 PROVE k \in Ids
      OBVIOUS
    <2>1. QuotaLimit \in Nat
      BY RequestGateAssumption
    <2>2. k + 1 \in i .. n - 1 /\ k + 1 - 1 = k
      BY <2>1
    <2>3. PICK e \in mine : e.id = k
      BY <2>2
    <2> QED BY <2>3
  <1>3. Cardinality(i - 1 .. n - 2) = QuotaLimit /\ QuotaLimit \in Nat
    <2>1. QuotaLimit \in Nat /\ i - 1 \in Int /\ n - 2 \in Int /\ QuotaLimit > 0
      BY RequestGateAssumption
    <2>2. Cardinality(i - 1 .. n - 2) = IF i - 1 > n - 2 THEN 0 ELSE (n - 2) - (i - 1) + 1
      BY <2>1, FS_Interval
    <2> QED BY <2>1, <2>2
  <1>4. Cardinality(i - 1 .. n - 2) <= Cardinality(Ids)
    BY <1>1, <1>2, FS_Subset
  <1>5. Cardinality(Ids) \in Nat /\ Cardinality(mine) \in Nat
    BY <1>1, FS_CardinalityType
  <1> QED BY <1>1, <1>3, <1>4, <1>5

\* A request that reads the table, finds room in it and adds its row.
LEMMA SpendKeepsInv ==
  ASSUME GateInv, NEW r \in RgRequests, RgSpend(r)
  PROVE  GateInv'
  <1> USE DEF GateInv
  <1> DEFINE now == rgReq[r].now
             s == rgReq[r].subject
             kept == {e \in rgQuota : e.time > now - Window}
             mine == {e \in kept : e.subject = s}
             spent == [subject |-> s, time |-> now, id |-> Len(rgSpent[s])]
  <1>0. Window \in Nat /\ Lag \in Nat /\ QuotaLimit \in Nat \ {0} /\ now \in Nat /\ now <= rgClock /\ rgClock - now <= Lag /\ s \in RgSubjects
        /\ Lag < Window /\ rgClock' = rgClock
    BY RequestGateAssumption DEF RgSpend
  <1>1. IsFiniteSet(kept) /\ IsFiniteSet(mine) /\ \A e \in kept : e.time \in Int /\ e.id \in Int
    BY FS_Subset
  <1>2. /\ rgReq' \in [RgRequests -> [subject : RgSubjects \cup {"none"}, now : Nat]]
        /\ \A q \in RgRequests : rgReq'[q].now <= rgClock /\ (rgReq'[q] # RgIdle => rgReq'[q].subject \in RgSubjects)
    <2>1. RgIdle \in [subject : RgSubjects \cup {"none"}, now : Nat] /\ RgIdle.now = 0 /\ rgReq' = [rgReq EXCEPT ![r] = RgIdle]
      BY DEF RgIdle, RgSpend
    <2> QED BY <1>0, <2>1 DEF RgWaits
  <1>3. \A t \in RgSubjects : \A n \in DOMAIN rgSpent[t] :
          (\E e \in kept : e.subject = t /\ e.id = n - 1 /\ rgSpent[t][n] - Lag <= e.time) \/ Expired(t, n)
    <2> SUFFICES ASSUME NEW t \in RgSubjects, NEW n \in DOMAIN rgSpent[t], ~Expired(t, n)
                 PROVE  \E e \in kept : e.subject = t /\ e.id = n - 1 /\ rgSpent[t][n] - Lag <= e.time
      OBVIOUS
    <2>1. PICK e \in rgQuota : e.subject = t /\ e.id = n - 1 /\ rgSpent[t][n] - Lag <= e.time
      BY DEF RowsKeepSpending, HasRow
    <2>2. rgSpent[t][n] \in Int /\ e.time \in Int
      OBVIOUS
    <2>3. e.time > now - Window
      BY SMTT(30), <1>0, <2>1, <2>2 DEF Expired
    <2> QED BY <2>1, <2>3
  <1>4. CASE rgQuota' = kept /\ UNCHANGED rgSpent
    <2>1. RowsKeepSpending'
      BY <1>0, <1>3, <1>4 DEF RowsKeepSpending, HasRow, Expired
    <2>2. SpendingIsOrdered' /\ QuotaIsNotOversold'
      BY <1>0, <1>4 DEF SpendingIsOrdered, QuotaIsNotOversold
    <2> QED BY <1>0, <1>1, <1>2, <1>4, <2>1, <2>2 DEF RgWaits
  <1>5. CASE /\ ~(Cardinality(mine) >= QuotaLimit) /\ rgQuota' = kept \cup {spent}
             /\ rgSpent' = [rgSpent EXCEPT ![s] = Append(@, rgClock)]
    <2> DEFINE old == rgSpent[s]
               last == Len(old) + 1
    <2>1. /\ rgSpent' \in [RgSubjects -> Seq(Int)] /\ rgSpent'[s] = Append(old, rgClock)
          /\ \A t \in RgSubjects \ {s} : rgSpent'[t] = rgSpent[t]
      BY <1>0, <1>5
    <2>2. /\ old \in Seq(Int) /\ Len(old) \in Nat /\ DOMAIN rgSpent'[s] = 1 .. last /\ rgSpent'[s][last] = rgClock
          /\ DOMAIN old = 1 .. Len(old) /\ \A n \in 1 .. Len(old) : rgSpent'[s][n] = old[n] /\ old[n] \in Int
      BY <1>0, <2>1
    <2>3. IsFiniteSet(rgQuota') /\ \A e \in rgQuota' : e.time \in Int /\ e.id \in Int
      <3>1. IsFiniteSet({spent}) /\ spent.time \in Int /\ spent.id \in Int
        <4>1. spent.time = now /\ spent.id = Len(old)
          OBVIOUS
        <4>2. IsFiniteSet({spent})
          BY FS_Singleton
        <4>3. now \in Int /\ Len(old) \in Int
          BY <1>0, <2>2
        <4> QED BY <4>1, <4>2, <4>3
      <3> QED BY <1>1, <1>5, <3>1, FS_Union
    <2>4. RowsKeepSpending'
      <3> SUFFICES ASSUME NEW t \in RgSubjects, NEW n \in DOMAIN rgSpent'[t] PROVE HasRow(t, n)' \/ Expired(t, n)'
        BY DEF RowsKeepSpending
      <3>1. CASE t = s /\ n = last
        <4>1. spent.subject = s /\ spent.id = n - 1 /\ spent.time = now /\ spent \in rgQuota'
          BY <1>5, <2>2, <3>1
        <4>2. rgSpent'[s][n] - Lag <= spent.time
          BY <1>0, <2>2, <3>1, <4>1
        <4> QED BY <3>1, <4>1, <4>2 DEF HasRow
      <3>2. CASE ~(t = s /\ n = last)
        <4>1. n \in DOMAIN rgSpent[t] /\ rgSpent'[t][n] = rgSpent[t][n]
          <5>1. CASE t = s
            <6>1. n \in 1 .. Len(old)
              BY <2>2, <3>2, <5>1
            <6> QED BY <2>2, <5>1, <6>1
          <5>2. CASE t # s
            BY <2>1, <5>2
          <5> QED BY <5>1, <5>2
        <4> QED BY <1>0, <1>3, <1>5, <4>1 DEF HasRow, Expired
      <3> QED BY <3>1, <3>2
    <2>5. SpendingIsOrdered'
      <3>0. /\ \A n \in 1 .. Len(old) : old[n] <= rgClock
            /\ \A m, n \in 1 .. Len(old) : m <= n => old[m] <= old[n]
        BY <1>0, <2>2 DEF SpendingIsOrdered
      <3> HIDE DEF old
      <3>9. rgClock \in Nat
        OBVIOUS
      <3> HIDE DEF GateInv
      <3>2. \A n \in 1 .. last : rgSpent'[s][n] <= rgClock
        <4> SUFFICES ASSUME NEW n \in 1 .. last PROVE rgSpent'[s][n] <= rgClock
          OBVIOUS
        <4>1. n \in 1 .. Len(old) \/ n = last
          BY <2>2
        <4>2. CASE n = last
          <5>1. rgSpent'[s][n] = rgClock /\ rgClock \in Nat
            BY <2>2, <3>9, <4>2
          <5> QED BY <5>1
        <4>3. CASE n \in 1 .. Len(old)
          BY <2>2, <3>0, <4>3
        <4> QED BY <4>1, <4>2, <4>3
      <3>1. \A m, n \in 1 .. last : m <= n => rgSpent'[s][m] <= rgSpent'[s][n]
        <4> SUFFICES ASSUME NEW m \in 1 .. last, NEW n \in 1 .. last, m <= n PROVE rgSpent'[s][m] <= rgSpent'[s][n]
          OBVIOUS
        <4>1. n = last \/ (m \in 1 .. Len(old) /\ n \in 1 .. Len(old))
          BY <2>2
        <4> QED BY <1>0, <2>2, <3>0, <3>2, <4>1
      <3> SUFFICES ASSUME NEW t \in RgSubjects
                   PROVE  /\ \A n \in DOMAIN rgSpent'[t] : rgSpent'[t][n] <= rgClock'
                          /\ \A m, n \in DOMAIN rgSpent'[t] : m <= n => rgSpent'[t][m] <= rgSpent'[t][n]
        BY DEF SpendingIsOrdered
      <3>3. CASE t = s
        BY <1>0, <2>2, <3>1, <3>2, <3>3
      <3>4. CASE t # s
        BY <1>0, <2>1, <3>4 DEF GateInv, SpendingIsOrdered
      <3> QED BY <3>3, <3>4
    <2>6. QuotaIsNotOversold'
      <3> SUFFICES ASSUME NEW t \in RgSubjects, NEW i \in DOMAIN rgSpent'[t], i + QuotaLimit \in DOMAIN rgSpent'[t]
                   PROVE  rgSpent'[t][i + QuotaLimit] - rgSpent'[t][i] >= Window - Lag
        BY DEF QuotaIsNotOversold
      <3>1. CASE t = s /\ i + QuotaLimit = last
        <4>1. i \in 1 .. Len(old)
          <5>0. i \in 1 .. last
            BY <2>2, <3>1
          <5>1. i \in 1 .. last /\ i + QuotaLimit = last /\ QuotaLimit > 0
            <6> HIDE DEF GateInv, old, last
            <6> QED BY <1>0, <3>1, <5>0
          <5> HIDE DEF GateInv, old
          <5> QED BY <1>0, <2>2, <5>1
        <4>2. Cardinality(mine) < QuotaLimit
          <5>1. Cardinality(mine) \in Nat
            BY <1>1, FS_CardinalityType
          <5> QED BY <1>0, <1>5, <5>1
        <4>3. PICK j \in i .. last - 1 : \A e \in mine : e.id # j - 1
          <5> HIDE DEF mine, GateInv, last
          <5>1. i \in Nat /\ last \in Nat /\ last = i + QuotaLimit
            BY <2>2, <3>1, <4>1 DEF last
          <5> QED BY <1>0, <1>1, <4>2, <5>1, RoomMeansExpired
        <4>4. j \in DOMAIN rgSpent[s] /\ Expired(s, j)
          <5>1. j \in DOMAIN rgSpent[s]
            BY <1>0, <2>2, <3>1, <4>1
          <5>2. ~\E e \in kept : e.subject = s /\ e.id = j - 1 /\ rgSpent[s][j] - Lag <= e.time
            BY <4>3
          <5> QED BY <1>0, <1>3, <5>1, <5>2
        <4>5. rgSpent[s][i] <= rgSpent[s][j]
          <5>1. \A m, n \in DOMAIN rgSpent[s] : m <= n => rgSpent[s][m] <= rgSpent[s][n]
            <6> HIDE DEF old, last, mine, kept, spent, QuotaIsNotOversold, RowsKeepSpending
            <6> QED BY <1>0 DEF SpendingIsOrdered
          <5>2. i \in DOMAIN rgSpent[s] /\ i <= j
            BY <1>0, <2>2, <4>1, <4>3
          <5> HIDE DEF GateInv, old, last, mine, kept, spent
          <5> QED BY <4>4, <5>1, <5>2
        <4>6. rgSpent[s][i] \in Int /\ rgSpent[s][j] \in Int
          BY <1>0, <2>2, <4>1, <4>4
        <4>7. rgClock - rgSpent[s][i] >= Window - Lag
          BY SMTT(30), <1>0, <4>4, <4>5, <4>6 DEF Expired
        <4> QED BY <2>2, <3>1, <4>1, <4>7
      <3>2. CASE ~(t = s /\ i + QuotaLimit = last)
        <4>1. i \in DOMAIN rgSpent[t] /\ i + QuotaLimit \in DOMAIN rgSpent[t]
              /\ rgSpent'[t][i] = rgSpent[t][i] /\ rgSpent'[t][i + QuotaLimit] = rgSpent[t][i + QuotaLimit]
          <5>1. CASE t = s
            <6>1. i \in 1 .. last /\ i + QuotaLimit \in 1 .. last
              BY <2>2, <5>1
            <6>2. i \in 1 .. Len(old) /\ i + QuotaLimit \in 1 .. Len(old)
              <7> HIDE DEF GateInv, old
              <7> QED BY <1>0, <2>2, <3>2, <5>1, <6>1
            <6> QED BY <2>2, <5>1, <6>2
          <5>2. CASE t # s
            BY <2>1, <5>2
          <5> QED BY <5>1, <5>2
        <4> QED BY <4>1 DEF QuotaIsNotOversold
      <3> QED BY <3>1, <3>2
    <2> QED BY <1>0, <1>2, <2>1, <2>3, <2>4, <2>5, <2>6 DEF RgWaits
  <1> QED BY <1>4, <1>5 DEF RgSpend

\* Every step of a request and of the clock keeps the invariant of the gate.
LEMMA GateInvStep == GateInv /\ [RequestGateNext]_rgVars => GateInv'
  <1> SUFFICES ASSUME GateInv, [RequestGateNext]_rgVars PROVE GateInv'
    OBVIOUS
  <1>0. ASSUME UNCHANGED <<rgClock, rgQuota, rgSpent>>,
               rgReq' \in [RgRequests -> [subject : RgSubjects \cup {"none"}, now : Nat]],
               \A r \in RgRequests : rgReq'[r].now <= rgClock /\ (rgReq'[r] # RgIdle => rgReq'[r].subject \in RgSubjects)
        PROVE  GateInv'
    BY <1>0 DEF GateInv, RowsKeepSpending, HasRow, Expired, SpendingIsOrdered, QuotaIsNotOversold, RgWaits
  <1>1. CASE \E r \in RgRequests : RgArrive(r)
    <2> PICK r \in RgRequests : RgArrive(r)
      BY <1>1
    <2>1. UNCHANGED <<rgClock, rgQuota, rgSpent>> /\ rgClock \in Nat
      BY DEF RgArrive, GateInv
    <2>2. rgReq' = rgReq \/ \E s \in RgSubjects : rgReq' = [rgReq EXCEPT ![r] = [subject |-> s, now |-> rgClock]]
      BY DEF RgArrive
    <2>3. CASE rgReq' = rgReq
      BY <1>0, <2>1, <2>3 DEF GateInv, RgWaits
    <2>4. ASSUME NEW s \in RgSubjects, rgReq' = [rgReq EXCEPT ![r] = [subject |-> s, now |-> rgClock]] PROVE GateInv'
      <3> DEFINE req == [subject |-> s, now |-> rgClock]
      <3>1. req \in [subject : RgSubjects \cup {"none"}, now : Nat] /\ req.now = rgClock /\ req.subject = s
        BY <2>1
      <3>2. rgReq' = [rgReq EXCEPT ![r] = req] /\ rgClock <= rgClock
        BY <2>1, <2>4
      <3> HIDE DEF req
      <3>3. rgReq' \in [RgRequests -> [subject : RgSubjects \cup {"none"}, now : Nat]]
        BY <3>1, <3>2 DEF GateInv
      <3>4. \A q \in RgRequests : rgReq'[q].now <= rgClock /\ (rgReq'[q] # RgIdle => rgReq'[q].subject \in RgSubjects)
        <4> SUFFICES ASSUME NEW q \in RgRequests
                     PROVE  rgReq'[q].now <= rgClock /\ (rgReq'[q] # RgIdle => rgReq'[q].subject \in RgSubjects)
          OBVIOUS
        <4>1. CASE q = r
          BY <3>1, <3>2, <4>1 DEF GateInv
        <4>2. CASE q # r
          BY <3>2, <4>2 DEF GateInv, RgWaits
        <4> QED BY <4>1, <4>2
      <3> QED BY <1>0, <2>1, <3>3, <3>4
    <2> QED BY <2>2, <2>3, <2>4
  <1>2. CASE \E r \in RgRequests : RgSpend(r)
    BY <1>2, SpendKeepsInv
  <1>3. CASE \E r \in RgRequests : RgQuotaFails(r)
    <2>1. RgIdle \in [subject : RgSubjects \cup {"none"}, now : Nat] /\ RgIdle.now = 0
      BY DEF RgIdle
    <2> QED BY <1>0, <1>3, <2>1 DEF RgQuotaFails, GateInv, RgWaits
  <1>4. CASE RgForget
    BY <1>0, <1>4 DEF RgForget, GateInv, RgWaits
  <1>5. CASE RgTick
    <2> USE DEF GateInv
    <2>1. rgClock' = rgClock + 1 /\ UNCHANGED <<rgReq, rgQuota, rgSpent>> /\ rgClock \in Nat /\ Lag \in Int /\ Window \in Int
      BY <1>5, RequestGateAssumption DEF RgTick
    <2>2. RowsKeepSpending'
      BY <2>1 DEF RowsKeepSpending, HasRow, Expired
    <2>3. SpendingIsOrdered'
      BY <2>1 DEF SpendingIsOrdered
    <2>4. QuotaIsNotOversold'
      BY <2>1 DEF QuotaIsNotOversold
    <2>5. \A r \in RgRequests : rgReq'[r].now <= rgClock' /\ (RgWaits(r)' => rgReq'[r].subject \in RgSubjects)
      <3> SUFFICES ASSUME NEW r \in RgRequests
                   PROVE  rgReq'[r].now <= rgClock' /\ (RgWaits(r)' => rgReq'[r].subject \in RgSubjects)
        OBVIOUS
      <3>1. rgReq[r].now \in Nat /\ rgReq[r].now <= rgClock /\ rgReq'[r] = rgReq[r]
        BY <2>1
      <3>2. rgReq'[r].now <= rgClock'
        BY <2>1, <3>1
      <3> QED BY <2>1, <3>2 DEF RgWaits
    <2>6. rgClock' \in Nat
      BY <2>1
    <2>7. rgSpent' \in [RgSubjects -> Seq(Int)] /\ rgReq' \in [RgRequests -> [subject : RgSubjects \cup {"none"}, now : Nat]]
      BY <2>1
    <2>8. IsFiniteSet(rgQuota') /\ \A e \in rgQuota' : e.time \in Int /\ e.id \in Int
      BY <2>1
    <2> HIDE DEF GateInv
    <2>9. GateInv'
      BY <2>2, <2>3, <2>4, <2>5, <2>6, <2>7, <2>8 DEF GateInv
    <2> QED BY <2>9
  <1>6. CASE UNCHANGED rgVars
    BY <1>0, <1>6 DEF rgVars, GateInv, RgWaits
  <1> QED BY <1>1, <1>2, <1>3, <1>4, <1>5, <1>6 DEF RequestGateNext

\* A server that has seen no request.
LEMMA GateStart == RequestGateInit => GateInv
  BY FS_EmptySet DEF RequestGateInit, GateInv, RowsKeepSpending, SpendingIsOrdered, QuotaIsNotOversold, RgIdle, RgWaits

\* In no window does a subject spend more than its quota, the wait between the clock a
\* request reads and the row it writes allowed for (consume_subject_quota in
\* auth/api_key/keys.rs): QuotaIsNotOversold for every number of subjects, requests and permits.
THEOREM QuotaHolds == GateSpec => []QuotaIsNotOversold
  <1>1. GateInv => QuotaIsNotOversold
    BY DEF GateInv
  <1> QED BY <1>1, GateStart, GateInvStep, PTL DEF GateSpec

\* What is kept of the window is no longer than the window.
LEMMA WithinIsShort ==
  ASSUME NEW s \in Seq(Nat), NEW from
  PROVE  Within(s, from) \in Seq(Nat) /\ Len(Within(s, from)) <= Len(s)
  <1> DEFINE I == {i \in 1 .. Len(s) : s[i] >= from}
             first == IF I # {} THEN Min(I) ELSE 0
  <1>1. Within(s, from) = IF first = 0 THEN <<>> ELSE SubSeq(s, first, Len(s))
    BY DEF Within, SelectInSeq
  <1>2. CASE I = {}
    <2>1. <<>> \in Seq(Nat) /\ Len(<<>>) = 0 /\ Len(s) \in Nat
      OBVIOUS
    <2> QED BY <1>1, <1>2, <2>1
  <1>3. CASE I # {}
    <2>1. I \subseteq Nat
      OBVIOUS
    <2>2. first \in I
      <3> DEFINE R == OpToRel(<, Nat)
      <3>1. IsWellFoundedOn(R, Nat)
        BY NatLessThanWellFounded
      <3> HIDE DEF R, I
      <3>2. PICK m \in I : \A y \in I : ~(<<y, m>> \in R)
        BY <1>3, <2>1, <3>1, WFMin
      <3>3. \A y \in I : ~(y < m)
        BY <2>1, <3>2 DEF R, OpToRel
      <3>4. \A y \in I : m <= y
        BY <2>1, <3>3
      <3> QED BY <1>3, <3>4 DEF Min
    <2>3. first \in 1 .. Len(s)
      BY <2>2
    <2> HIDE DEF first, I
    <2> QED BY <1>1, <2>3
  <1> QED BY <1>2, <1>3

\* The clock within its bound, a window that is not too long, and rows that are
\* not of the future.
GateRest ==
  /\ rgClock <= MaxClock
  /\ rgBucket \in Seq(Nat) /\ Len(rgBucket) <= RateLimit
  /\ \A e \in rgQuota : e.subject \in RgSubjects /\ e.time <= rgClock

\* Every step of a request and of the clock keeps the rest.
LEMMA GateRestStep == GateInv /\ GateRest /\ [RequestGateNext]_rgVars => GateRest'
  <1> SUFFICES ASSUME GateInv, GateRest, [RequestGateNext]_rgVars PROVE GateRest'
    OBVIOUS
  <1>0. rgClock \in Nat /\ MaxClock \in Nat /\ RateLimit \in Nat /\ RateLimit >= 1
    BY RequestGateAssumption DEF GateInv
  <1>1. CASE \E r \in RgRequests : RgArrive(r)
    <2> DEFINE kept == Within(rgBucket, rgClock - Window)
    <2>1. UNCHANGED <<rgClock, rgQuota>> /\ rgBucket' = IF Full(kept) THEN kept ELSE Append(kept, rgClock)
      BY <1>1 DEF RgArrive
    <2>2. kept \in Seq(Nat) /\ Len(kept) <= Len(rgBucket)
      BY WithinIsShort DEF GateRest
    <2> HIDE DEF kept
    <2>3. Len(kept) \in Nat /\ Len(rgBucket) \in Nat
      BY <2>2 DEF GateRest
    <2>4. rgBucket' \in Seq(Nat) /\ Len(rgBucket') <= RateLimit
      <3>1. CASE Full(kept)
        BY <1>0, <2>1, <2>2, <2>3, <3>1 DEF GateRest
      <3>2. CASE ~Full(kept)
        BY <1>0, <2>1, <2>2, <2>3, <3>2 DEF Full
      <3> QED BY <3>1, <3>2
    <2> QED BY <2>1, <2>4 DEF GateRest
  <1>2. CASE \E r \in RgRequests : RgSpend(r)
    <2> PICK r \in RgRequests : RgSpend(r)
      BY <1>2
    <2>1. rgReq[r].subject \in RgSubjects /\ rgReq[r].now <= rgClock
      BY DEF RgSpend, GateInv
    <2>2. UNCHANGED <<rgClock, rgBucket>>
      BY DEF RgSpend
    <2>3. \A e \in rgQuota' : e \in rgQuota \/ (e.subject = rgReq[r].subject /\ e.time = rgReq[r].now)
      BY DEF RgSpend
    <2> QED BY <2>1, <2>2, <2>3 DEF GateRest
  <1>3. CASE \E r \in RgRequests : RgQuotaFails(r)
    BY <1>3 DEF RgQuotaFails, GateRest
  <1>4. CASE RgForget
    BY <1>0, <1>4 DEF RgForget, GateRest
  <1>5. CASE RgTick
    <2>1. \A e \in rgQuota : e.time \in Int
      BY DEF GateInv
    <2> QED BY <1>0, <1>5, <2>1 DEF RgTick, GateRest
  <1>6. CASE UNCHANGED rgVars
    BY <1>6 DEF rgVars, GateRest
  <1> QED BY <1>1, <1>2, <1>3, <1>4, <1>5, <1>6 DEF RequestGateNext

\* The types of the variables of the gate, and the window no longer than the limit: RequestGateTypeOK.
LEMMA GateTypes == GateSpec => []RequestGateTypeOK
  <1>2. RequestGateInit => GateRest
    BY RequestGateAssumption DEF RequestGateInit, GateRest
  <1>3. GateInv /\ GateRest => RequestGateTypeOK
    <2> SUFFICES ASSUME GateInv, GateRest PROVE RequestGateTypeOK
      OBVIOUS
    <2>1. rgClock \in Nat /\ MaxClock \in Nat /\ rgClock <= MaxClock
      BY RequestGateAssumption DEF GateInv, GateRest
    <2>2. rgReq \in [RgRequests -> [subject : RgSubjects \cup {"none"}, now : Nat]] /\ \A r \in RgRequests : rgReq[r].now <= rgClock
      BY DEF GateInv
    <2>3. \A r \in RgRequests : rgReq[r] \in [subject : RgSubjects \cup {"none"}, now : 0 .. MaxClock]
      <3> TAKE r \in RgRequests
      <3>1. rgReq[r] \in [subject : RgSubjects \cup {"none"}, now : Nat] /\ rgReq[r].now <= rgClock
        BY <2>2
      <3>2. rgReq[r].now \in 0 .. MaxClock
        BY <2>1, <3>1
      <3> QED BY <3>1, <3>2
    <2> QED BY <2>2, <2>3 DEF GateRest, RequestGateTypeOK
  <1> QED BY <1>2, <1>3, GateStart, GateInvStep, GateRestStep, PTL DEF GateSpec

-----------------------------------------------------------------------------
(* Streams of events (EventStreams).                                         *)
StreamsSpec == EventStreamsInit /\ [][EventStreamsNext]_esVars

Connection == [at : {"away", "unknown", "streams"}, global : BOOLEAN, cursor : Nat, seq : Nat,
               drops : Nat, tries : Nat, beats : Nat]
Frame == [event : Nat, seq : Nat]
MayRead(me, k) == me.global \/ esStream[esRing[k]] = "granted"
Tells(me, one, next) ==
  /\ next.event > one.event /\ next.seq > one.seq
  /\ next.seq = one.seq + 1 => \A k \in DOMAIN esRing : one.event < esRing[k] /\ esRing[k] < next.event => ~MayRead(me, k)
RingIsInOrder ==
  /\ esStream \in Seq(WsChats) /\ esFan \in Nat /\ 1 <= esFan /\ esFan <= Len(esStream) + 1 /\ esRing \in Seq(Nat)
  /\ \A k \in DOMAIN esRing : 1 <= esRing[k] /\ esRing[k] < esFan
  /\ \A j, k \in DOMAIN esRing : j < k => esRing[j] < esRing[k]
FramesFollow(me, got) ==
  /\ me.at # "streams" => got = <<>>
  /\ me.at = "streams" => 1 <= me.cursor /\ me.cursor <= Len(esRing) + 1
  /\ \A i \in 1 .. Len(got) : got[i].seq <= me.seq /\ \E m \in DOMAIN esRing : m < me.cursor /\ esRing[m] = got[i].event
  /\ \A i \in 1 .. Len(got) - 1 : Tells(me, got[i], got[i + 1])
  /\ Len(got) > 0 /\ got[Len(got)].seq = me.seq =>
       \A k \in DOMAIN esRing : k < me.cursor /\ got[Len(got)].event < esRing[k] => ~MayRead(me, k)
StreamsInv ==
  /\ RingIsInOrder
  /\ esClient \in [EsClients -> Connection] /\ esGot \in [EsClients -> Seq(Frame)]
  /\ \A c \in EsClients : FramesFollow(esClient[c], esGot[c])

\* A connection that was sent nothing.
LEMMA NothingReceived ==
  ASSUME NEW me \in Connection, me.at = "streams" => 1 <= me.cursor /\ me.cursor <= Len(esRing) + 1
  PROVE  FramesFollow(me, <<>>)
  BY DEF FramesFollow

\* What the ring gains is newer than anything a connection was sent.
LEMMA RingGrows ==
  ASSUME RingIsInOrder, EsPublish \/ EsFan, NEW me \in Connection, NEW got \in Seq(Frame), FramesFollow(me, got)
  PROVE  RingIsInOrder' /\ FramesFollow(me, got)'
  <1>1. CASE EsPublish
    <2> PICK chat \in WsChats : esStream' = Append(esStream, chat) /\ UNCHANGED <<esFan, esRing>>
      BY <1>1 DEF EsPublish
    <2>1. RingIsInOrder'
      BY DEF RingIsInOrder
    <2>2. \A k \in DOMAIN esRing : esRing'[k] = esRing[k] /\ esStream'[esRing'[k]] = esStream[esRing[k]]
      BY DEF RingIsInOrder
    <2>3. \A k \in DOMAIN esRing : MayRead(me, k)' <=> MayRead(me, k)
      BY <2>2 DEF MayRead
    <2>4. \A one, next : Tells(me, one, next) => Tells(me, one, next)'
      BY <2>3 DEF Tells
    <2> QED BY <2>1, <2>3, <2>4 DEF FramesFollow
  <1>2. CASE EsFan /\ UNCHANGED esRing
    <2>1. esFan' = Oldest(Len(esStream)) /\ esFan < esFan' /\ esStream' = esStream
      <3>1. Overrun(esFan, Len(esStream)) \/ esRing' = Append(esRing, esFan)
        BY <1>2 DEF EsFan
      <3>2. Overrun(esFan, Len(esStream))
        BY <1>2, <3>1 DEF RingIsInOrder
      <3> QED BY <1>2, <3>2 DEF EsFan, Overrun
    <2>2. esFan' \in Nat /\ 1 <= esFan' /\ esFan' <= Len(esStream) + 1
      BY <2>1, RingAssumption DEF Oldest, RingIsInOrder
    <2>3. RingIsInOrder'
      BY <1>2, <2>1, <2>2 DEF RingIsInOrder
    <2>4. FramesFollow(me, got)'
      BY <1>2, <2>1 DEF FramesFollow, Tells, MayRead
    <2> QED BY <2>3, <2>4
  <1>3. CASE esRing' = Append(esRing, esFan) /\ esFan' = esFan + 1 /\ esStream' = esStream /\ esFan <= Len(esStream)
    <2>1. /\ Len(esRing) \in Nat /\ DOMAIN esRing = 1 .. Len(esRing) /\ DOMAIN esRing' = 1 .. Len(esRing) + 1
          /\ esRing' \in Seq(Nat) /\ Len(esRing') = Len(esRing) + 1
          /\ esRing'[Len(esRing) + 1] = esFan /\ \A k \in DOMAIN esRing : esRing'[k] = esRing[k]
      BY <1>3 DEF RingIsInOrder
    <2>2. \A k \in DOMAIN esRing' : k \in DOMAIN esRing \/ k = Len(esRing) + 1
      BY <2>1
    <2>3. RingIsInOrder'
      BY <1>3, <2>1, <2>2 DEF RingIsInOrder
    <2>4. \A k \in DOMAIN esRing : MayRead(me, k)' <=> MayRead(me, k)
      BY <1>3, <2>1 DEF MayRead
    <2>5. ASSUME NEW i \in 1 .. Len(got) - 1 PROVE Tells(me, got[i], got[i + 1])'
      <3>1. PICK m \in DOMAIN esRing : esRing[m] = got[i + 1].event
        <4>1. i + 1 \in 1 .. Len(got)
          OBVIOUS
        <4> QED BY <4>1 DEF FramesFollow
      <3>2. got[i + 1].event < esFan /\ got[i + 1].event \in Nat /\ esFan \in Nat
        BY <3>1 DEF RingIsInOrder
      <3>3. Tells(me, got[i], got[i + 1])
        BY DEF FramesFollow
      <3>4. ~(esRing'[Len(esRing) + 1] < got[i + 1].event)
        BY <2>1, <3>2
      <3> QED BY <2>1, <2>2, <2>4, <3>3, <3>4 DEF Tells
    <2>6. me.at = "streams" => 1 <= me.cursor /\ me.cursor <= Len(esRing') + 1
      <3>1. me.cursor \in Nat
        BY DEF Connection
      <3> QED BY <2>1, <3>1 DEF FramesFollow
    <2>7. \A i \in 1 .. Len(got) : got[i].seq <= me.seq /\ \E m \in DOMAIN esRing' : m < me.cursor /\ esRing'[m] = got[i].event
      <3>1. \A m \in DOMAIN esRing : m \in DOMAIN esRing' /\ esRing'[m] = esRing[m]
        BY <2>1
      <3> QED BY <3>1 DEF FramesFollow
    <2>8. ASSUME Len(got) > 0, got[Len(got)].seq = me.seq,
                 NEW k \in DOMAIN esRing', k < me.cursor, got[Len(got)].event < esRing'[k]
          PROVE  ~MayRead(me, k)'
      <3>1. me.at = "streams"
        BY <2>8 DEF FramesFollow
      <3>2. k \in DOMAIN esRing
        <4>1. me.cursor \in Nat /\ me.cursor <= Len(esRing) + 1
          BY <3>1 DEF FramesFollow, Connection
        <4> QED BY <2>1, <2>8, <4>1
      <3>3. esRing'[k] = esRing[k]
        BY <2>1, <3>2
      <3> QED BY <2>4, <2>8, <3>2, <3>3 DEF FramesFollow
    <2>9. me.at # "streams" => got = <<>>
      BY DEF FramesFollow
    <2> HIDE DEF Connection
    <2>10. FramesFollow(me, got)'
      BY <2>5, <2>6, <2>7, <2>8, <2>9 DEF FramesFollow
    <2> QED BY <2>3, <2>10
  <1>4. EsFan => (EsFan /\ UNCHANGED esRing) \/ (esRing' = Append(esRing, esFan) /\ esFan' = esFan + 1 /\ esStream' = esStream /\ esFan <= Len(esStream))
    BY DEF EsFan, Ready
  <1> QED BY <1>1, <1>2, <1>3, <1>4

\* A connection's step concerns that connection.
LEMMA ConnectionSteps ==
  ASSUME StreamsInv, NEW c \in EsClients, NEW me \in Connection, NEW got \in Seq(Frame), FramesFollow(me, got),
         WsGoes(c, me), esGot' = [esGot EXCEPT ![c] = got]
  PROVE  StreamsInv'
  <1>1. esClient' = [esClient EXCEPT ![c] = me] /\ esStream' = esStream /\ esFan' = esFan /\ esRing' = esRing
    BY DEF WsGoes
  <1>2. esClient' \in [EsClients -> Connection] /\ esGot' \in [EsClients -> Seq(Frame)]
    BY <1>1 DEF StreamsInv
  <1>3. ASSUME NEW d \in EsClients PROVE FramesFollow(esClient[d], esGot[d])'
    <2>1. FramesFollow(esClient'[d], esGot'[d])
      <3>1. CASE d = c
        <4>1. esClient'[d] = me /\ esGot'[d] = got
          BY <1>1, <3>1 DEF StreamsInv
        <4> QED BY <4>1
      <3>2. CASE d # c
        <4>1. esClient'[d] = esClient[d] /\ esGot'[d] = esGot[d]
          BY <1>1, <3>2 DEF StreamsInv
        <4> QED BY <4>1 DEF StreamsInv
      <3> QED BY <3>1, <3>2
    <2> QED BY <1>1, <2>1 DEF FramesFollow, Tells, MayRead
  <1>4. RingIsInOrder'
    BY <1>1 DEF StreamsInv, RingIsInOrder
  <1> QED BY <1>2, <1>3, <1>4 DEF StreamsInv

\* A connection ends.
LEMMA LeavingKeeps ==
  ASSUME StreamsInv, NEW c \in EsClients, Leaves(c)
  PROVE  StreamsInv'
  <1>1. Disconnected \in Connection /\ Disconnected.at # "streams" /\ <<>> \in Seq(Frame)
    BY DEF Disconnected, Connection
  <1>2. FramesFollow(Disconnected, <<>>)
    BY <1>1, NothingReceived
  <1> QED BY <1>1, <1>2, ConnectionSteps DEF Leaves

\* A step that leaves the position in the ring and the number alone.
LEMMA StayingKeeps ==
  ASSUME StreamsInv, NEW c \in EsClients, NEW me \in Connection, WsGoes(c, me), UNCHANGED esGot,
         me.at = esClient[c].at, me.global = esClient[c].global, me.cursor = esClient[c].cursor, me.seq = esClient[c].seq
  PROVE  StreamsInv'
  <1>1. esGot' = [esGot EXCEPT ![c] = esGot[c]] /\ esGot[c] \in Seq(Frame)
    BY DEF StreamsInv
  <1>2. FramesFollow(me, esGot[c])
    <2>1. FramesFollow(esClient[c], esGot[c])
      BY DEF StreamsInv
    <2>2. \A k : MayRead(me, k) <=> MayRead(esClient[c], k)
      BY DEF MayRead
    <2>3. \A one, next : Tells(me, one, next) <=> Tells(esClient[c], one, next)
      BY <2>2 DEF Tells
    <2> QED BY <2>1, <2>2, <2>3 DEF FramesFollow
  <1> QED BY <1>1, <1>2, ConnectionSteps

\* The event at the cursor is not for this connection.
LEMMA SkippingKeeps ==
  ASSUME StreamsInv, NEW c \in EsClients, Streams(c), ~Entitled(c, esStream[esRing[esClient[c].cursor]]),
         WsGoes(c, [esClient[c] EXCEPT !.cursor = @ + 1]), UNCHANGED esGot
  PROVE  StreamsInv'
  <1> DEFINE me == esClient[c]
             to == [me EXCEPT !.cursor = @ + 1]
             got == esGot[c]
  <1>1. me \in Connection /\ got \in Seq(Frame) /\ FramesFollow(me, got) /\ me.at = "streams" /\ me.cursor \in Nat
    BY DEF StreamsInv, Streams, Connection
  <1>2. to \in Connection /\ to.at = me.at /\ to.global = me.global /\ to.seq = me.seq /\ to.cursor = me.cursor + 1
    BY <1>1 DEF Connection
  <1>3. me.cursor <= Len(esRing) /\ ~MayRead(me, me.cursor)
    BY DEF Streams, Ready, Entitled, MayRead
  <1>4. WsGoes(c, to) /\ esGot' = [esGot EXCEPT ![c] = got]
    BY DEF StreamsInv
  <1> HIDE DEF to, got, me
  <1>5. \A k : MayRead(to, k) <=> MayRead(me, k)
    BY <1>2 DEF MayRead
  <1>6. \A one, next : Tells(to, one, next) <=> Tells(me, one, next)
    BY <1>5 DEF Tells
  <1>7. Len(esRing) \in Nat /\ DOMAIN esRing = 1 .. Len(esRing)
    BY DEF StreamsInv, RingIsInOrder
  <1>8. \A k \in DOMAIN esRing : k < to.cursor <=> k < me.cursor \/ k = me.cursor
    BY <1>1, <1>2, <1>7
  <1>9. FramesFollow(to, got)
    <2>1. to.at # "streams" => got = <<>>
      BY <1>1, <1>2
    <2>2. to.at = "streams" => 1 <= to.cursor /\ to.cursor <= Len(esRing) + 1
      BY <1>1, <1>2, <1>3, <1>7 DEF FramesFollow
    <2>3. \A i \in 1 .. Len(got) : got[i].seq <= to.seq /\ \E m \in DOMAIN esRing : m < to.cursor /\ esRing[m] = got[i].event
      BY <1>1, <1>2, <1>8 DEF FramesFollow
    <2>4. \A i \in 1 .. Len(got) - 1 : Tells(to, got[i], got[i + 1])
      BY <1>1, <1>6 DEF FramesFollow
    <2>5. Len(got) > 0 /\ got[Len(got)].seq = to.seq =>
            \A k \in DOMAIN esRing : k < to.cursor /\ got[Len(got)].event < esRing[k] => ~MayRead(to, k)
      BY <1>1, <1>2, <1>3, <1>5, <1>8 DEF FramesFollow
    <2> QED BY <2>1, <2>2, <2>3, <2>4, <2>5 DEF FramesFollow
  <1> QED BY <1>1, <1>2, <1>4, <1>9, ConnectionSteps

\* An event is numbered: its frame is received or it is not.
LEMMA SendingKeeps ==
  ASSUME StreamsInv, NEW c \in EsClients, Streams(c), NEW to \in Connection, WsGoes(c, to),
         to.at = esClient[c].at, to.global = esClient[c].global,
         to.cursor = esClient[c].cursor + 1, to.seq = esClient[c].seq + 1,
         \/ esGot' = esGot
         \/ esGot' = [esGot EXCEPT ![c] = Append(@, [event |-> esRing[esClient[c].cursor], seq |-> esClient[c].seq + 1])]
  PROVE  StreamsInv'
  <1> DEFINE me == esClient[c]
             got == esGot[c]
             frame == [event |-> esRing[me.cursor], seq |-> me.seq + 1]
  <1>1. me \in Connection /\ got \in Seq(Frame) /\ FramesFollow(me, got) /\ me.at = "streams"
        /\ me.cursor \in Nat /\ me.seq \in Nat /\ me.cursor <= Len(esRing)
    BY DEF StreamsInv, Streams, Ready, Connection
  <1>2. to.at = "streams" /\ to.global = me.global /\ to.cursor = me.cursor + 1 /\ to.seq = me.seq + 1
    BY <1>1
  <1>3. esGot' = [esGot EXCEPT ![c] = got] \/ esGot' = [esGot EXCEPT ![c] = Append(got, frame)]
    BY DEF StreamsInv
  <1>4. /\ Len(esRing) \in Nat /\ DOMAIN esRing = 1 .. Len(esRing) /\ \A k \in DOMAIN esRing : esRing[k] \in Nat
        /\ \A j, k \in DOMAIN esRing : j < k => esRing[j] < esRing[k]
    BY DEF StreamsInv, RingIsInOrder
  <1>5. 1 <= me.cursor /\ me.cursor \in DOMAIN esRing
    BY <1>1, <1>4 DEF FramesFollow
  <1>6. frame.event = esRing[me.cursor] /\ frame.seq = me.seq + 1 /\ frame \in Frame
    BY <1>1, <1>4, <1>5 DEF Frame
  <1> HIDE DEF me, got, frame
  <1>7. \A k : MayRead(to, k) <=> MayRead(me, k)
    BY <1>2 DEF MayRead
  <1>8. \A one, next : Tells(to, one, next) <=> Tells(me, one, next)
    BY <1>7 DEF Tells
  <1>9. /\ Len(got) \in Nat /\ DOMAIN got = 1 .. Len(got) /\ \A i \in 1 .. Len(got) : got[i].seq \in Nat /\ got[i].event \in Nat
    <2>1. Len(got) \in Nat /\ DOMAIN got = 1 .. Len(got) /\ \A i \in 1 .. Len(got) : got[i] \in Frame
      BY <1>1
    <2>2. \A f \in Frame : f.seq \in Nat /\ f.event \in Nat
      BY DEF Frame
    <2> QED BY <2>1, <2>2
  <1>10. \A i \in 1 .. Len(got) :
           got[i].seq <= me.seq /\ got[i].seq <= to.seq /\ got[i].seq < to.seq
           /\ \E m \in DOMAIN esRing : m < me.cursor /\ m < to.cursor /\ esRing[m] = got[i].event
    <2> TAKE i \in 1 .. Len(got)
    <2>1. got[i].seq <= me.seq /\ got[i].seq \in Nat
      BY <1>1, <1>9 DEF FramesFollow
    <2>2. PICK m \in DOMAIN esRing : m < me.cursor /\ esRing[m] = got[i].event
      BY <1>1 DEF FramesFollow
    <2>3. m \in Nat
      BY <1>4
    <2> QED BY <1>1, <1>2, <2>1, <2>2, <2>3
  <1>11. 1 <= to.cursor /\ to.cursor <= Len(esRing) + 1
    BY <1>1, <1>2, <1>4, <1>5
  <1>12. FramesFollow(to, got)
    <2>1. \A i \in 1 .. Len(got) - 1 : Tells(to, got[i], got[i + 1])
      BY <1>1, <1>8 DEF FramesFollow
    <2>2. Len(got) > 0 => got[Len(got)].seq # to.seq
      <3>1. Len(got) > 0 => Len(got) \in 1 .. Len(got)
        BY <1>9
      <3>2. to.seq \in Nat
        BY <1>1, <1>2
      <3> QED BY <1>9, <1>10, <3>1, <3>2
    <2> QED BY <1>2, <1>10, <1>11, <2>1, <2>2 DEF FramesFollow
  <1>13. Append(got, frame) \in Seq(Frame) /\ FramesFollow(to, Append(got, frame))
    <2> DEFINE new == Append(got, frame)
    <2>1. /\ new \in Seq(Frame) /\ Len(new) = Len(got) + 1 /\ new[Len(got) + 1] = frame
          /\ \A i \in 1 .. Len(got) : new[i] = got[i]
      BY <1>1, <1>6
    <2> HIDE DEF new
    <2>2. \A i \in 1 .. Len(new) : i \in 1 .. Len(got) \/ i = Len(got) + 1
      BY <1>9, <2>1
    <2>3. ASSUME NEW i \in 1 .. Len(new)
          PROVE  new[i].seq <= to.seq /\ \E m \in DOMAIN esRing : m < to.cursor /\ esRing[m] = new[i].event
      <3>1. CASE i \in 1 .. Len(got)
        BY <1>10, <2>1, <3>1
      <3>2. CASE i = Len(got) + 1
        <4>1. new[i] = frame
          BY <2>1, <3>2
        <4>2. new[i].seq = to.seq /\ new[i].event = esRing[me.cursor] /\ to.seq \in Nat /\ me.cursor < to.cursor
          BY <1>1, <1>2, <1>6, <4>1
        <4> QED BY <1>5, <4>2
      <3> QED BY <2>2, <3>1, <3>2
    <2>4. ASSUME NEW i \in 1 .. Len(new) - 1 PROVE Tells(to, new[i], new[i + 1])
      <3>1. CASE i + 1 \in 1 .. Len(got)
        <4>1. i \in 1 .. Len(got) - 1 /\ new[i] = got[i] /\ new[i + 1] = got[i + 1]
          BY <1>9, <2>1, <3>1
        <4> QED BY <1>1, <1>8, <4>1 DEF FramesFollow
      <3>2. CASE i = Len(got)
        <4>1. i \in 1 .. Len(got) /\ new[i] = got[i] /\ new[i + 1] = frame /\ Len(got) > 0
          BY <1>9, <2>1, <3>2
        <4>2. got[i].seq <= me.seq /\ got[i].seq \in Nat
          BY <1>9, <1>10, <4>1
        <4>3. PICK m \in DOMAIN esRing : m < me.cursor /\ esRing[m] = got[i].event
          BY <1>10, <4>1
        <4>4. got[i].event < frame.event
          BY <1>4, <1>5, <1>6, <4>3
        <4>5. frame.seq > got[i].seq
          BY <1>1, <1>6, <4>2
        <4>6. ASSUME frame.seq = got[i].seq + 1, NEW k \in DOMAIN esRing, got[i].event < esRing[k], esRing[k] < frame.event
              PROVE  ~MayRead(to, k)
          <5>1. got[Len(got)].seq = me.seq
            BY <1>1, <1>6, <3>2, <4>2, <4>6
          <5>2. k < me.cursor
            <6>1. ~(me.cursor < k) /\ k # me.cursor
              BY <1>4, <1>5, <1>6, <4>6
            <6> QED BY <1>1, <1>4, <6>1
          <5> QED BY <1>1, <1>7, <3>2, <4>1, <4>6, <5>1, <5>2 DEF FramesFollow
        <4>7. frame.event > got[i].event
          BY <1>4, <1>5, <1>6, <1>9, <4>1, <4>4
        <4> QED BY <4>1, <4>5, <4>6, <4>7 DEF Tells
      <3>3. i + 1 \in 1 .. Len(got) \/ i = Len(got)
        <4>1. i \in 1 .. Len(got) /\ Len(got) \in Nat
          BY <1>9, <2>1, <2>4
        <4> QED BY <4>1
      <3> QED BY <3>1, <3>2, <3>3
    <2>5. ASSUME NEW k \in DOMAIN esRing, k < to.cursor, new[Len(new)].event < esRing[k] PROVE FALSE
      <3>1. new[Len(new)].event = esRing[me.cursor]
        BY <1>6, <2>1
      <3>2. k = me.cursor \/ k < me.cursor
        BY <1>1, <1>2, <1>4, <2>5
      <3> QED BY <1>4, <1>5, <2>5, <3>1, <3>2
    <2>6. FramesFollow(to, new)
      BY <1>2, <1>11, <2>3, <2>4, <2>5 DEF FramesFollow
    <2> QED BY <2>1, <2>6 DEF new
  <1> QED BY <1>1, <1>3, <1>12, <1>13, ConnectionSteps

\* Every step of the publisher, of the fan-out and of a connection keeps the invariant of the streams.
LEMMA StreamsInvStep == StreamsInv /\ [EventStreamsNext]_esVars => StreamsInv'
  <1> SUFFICES ASSUME StreamsInv, [EventStreamsNext]_esVars PROVE StreamsInv'
    OBVIOUS
  <1>0. Connected \subseteq EsClients /\ \A c \in EsClients : esClient[c] \in Connection
    BY DEF Connected, StreamsInv
  <1>1. CASE EsPublish \/ EsFan
    <2>1. UNCHANGED <<esClient, esGot>>
      BY <1>1 DEF EsPublish, EsFan
    <2>2. RingIsInOrder' /\ \A c \in EsClients : FramesFollow(esClient[c], esGot[c])'
      <3>1. ASSUME NEW me \in Connection, NEW got \in Seq(Frame), FramesFollow(me, got)
            PROVE  RingIsInOrder' /\ FramesFollow(me, got)'
        BY <1>1, <3>1, RingGrows DEF StreamsInv
      <3>2. RingIsInOrder'
        <4>1. Disconnected \in Connection /\ Disconnected.at # "streams" /\ <<>> \in Seq(Frame)
          BY DEF Disconnected, Connection
        <4>2. FramesFollow(Disconnected, <<>>)
          BY <4>1, NothingReceived
        <4> QED BY <3>1, <4>1, <4>2
      <3>3. ASSUME NEW c \in EsClients PROVE FramesFollow(esClient[c], esGot[c])'
        <4>1. FramesFollow(esClient[c], esGot[c]) /\ esClient[c] \in Connection /\ esGot[c] \in Seq(Frame)
          BY DEF StreamsInv
        <4>2. esClient'[c] = esClient[c] /\ esGot'[c] = esGot[c]
          BY <2>1
        <4> QED BY <3>1, <4>1, <4>2
      <3> QED BY <3>2, <3>3
    <2> QED BY <2>1, <2>2 DEF StreamsInv
  <1>2. CASE WsConnect
    <2> PICK c \in EsClients : esClient[c].at = "away" /\ WsGoes(c, [Disconnected EXCEPT !.at = "unknown"]) /\ UNCHANGED esGot
      BY <1>2 DEF WsConnect
    <2> DEFINE me == [Disconnected EXCEPT !.at = "unknown"]
    <2>1. me \in Connection /\ me.at # "streams"
      BY DEF Disconnected, Connection
    <2>2. esGot[c] = <<>> /\ esGot' = [esGot EXCEPT ![c] = <<>>]
      <3>1. esGot[c] = <<>>
        BY DEF StreamsInv, FramesFollow
      <3> QED BY <3>1 DEF StreamsInv
    <2> HIDE DEF me
    <2>3. FramesFollow(me, <<>>) /\ <<>> \in Seq(Frame)
      BY <2>1, NothingReceived
    <2>4. WsGoes(c, me)
      BY DEF me
    <2> QED BY <2>1, <2>2, <2>3, <2>4, ConnectionSteps
  <1>3. CASE WsAuthenticate
    <2> PICK c \in EsClients, global \in BOOLEAN :
               /\ esClient[c].at = "unknown"
               /\ \/ WsGoes(c, [esClient[c] EXCEPT !.tries = esClient[c].tries + 1]) /\ UNCHANGED esGot
                  \/ /\ UNCHANGED esGot
                     /\ WsGoes(c, [esClient[c] EXCEPT !.tries = esClient[c].tries + 1, !.at = "streams",
                                                      !.global = global, !.cursor = Subscribe(Len(esRing))])
                  \/ Leaves(c)
      BY <1>3 DEF WsAuthenticate
    <2>1. esClient[c] \in Connection
      BY <1>0
    <2>2. CASE WsGoes(c, [esClient[c] EXCEPT !.tries = esClient[c].tries + 1]) /\ UNCHANGED esGot
      <3> DEFINE me == [esClient[c] EXCEPT !.tries = esClient[c].tries + 1]
      <3>1. me \in Connection /\ me.at = esClient[c].at /\ me.global = esClient[c].global
            /\ me.cursor = esClient[c].cursor /\ me.seq = esClient[c].seq
        BY <2>1 DEF Connection
      <3> HIDE DEF me
      <3>2. WsGoes(c, me)
        BY <2>2 DEF me
      <3> QED BY <2>2, <3>1, <3>2, StayingKeeps
    <2>3. CASE /\ UNCHANGED esGot
               /\ WsGoes(c, [esClient[c] EXCEPT !.tries = esClient[c].tries + 1, !.at = "streams",
                                                !.global = global, !.cursor = Subscribe(Len(esRing))])
      <3> DEFINE me == [esClient[c] EXCEPT !.tries = esClient[c].tries + 1, !.at = "streams",
                                           !.global = global, !.cursor = Subscribe(Len(esRing))]
      <3>1. Len(esRing) \in Nat
        BY DEF StreamsInv, RingIsInOrder
      <3>2. me \in Connection /\ me.cursor = Len(esRing) + 1
        <4>1. esClient[c].tries + 1 \in Nat /\ Subscribe(Len(esRing)) = Len(esRing) + 1 /\ Len(esRing) + 1 \in Nat
          BY <2>1, <3>1 DEF Connection, Subscribe
        <4>2. PICK x \in Connection, tries \in Nat, cursor \in Nat :
                x = esClient[c] /\ tries = esClient[c].tries + 1 /\ cursor = Subscribe(Len(esRing))
          BY <2>1, <4>1
        <4> DEFINE to == [x EXCEPT !.tries = tries, !.at = "streams", !.global = global, !.cursor = cursor]
        <4>3. to \in Connection
          BY DEF Connection
        <4>4. to.cursor = cursor
          BY DEF Connection
        <4>5. me = to
          BY <4>2
        <4> HIDE DEF to, me
        <4> QED BY <4>1, <4>2, <4>3, <4>4, <4>5
      <3>3. esGot[c] = <<>> /\ esGot' = [esGot EXCEPT ![c] = <<>>]
        <4>1. esGot[c] = <<>>
          BY DEF StreamsInv, FramesFollow
        <4> QED BY <2>3, <4>1 DEF StreamsInv
      <3> HIDE DEF me
      <3>4. FramesFollow(me, <<>>) /\ <<>> \in Seq(Frame)
        BY <3>1, <3>2, NothingReceived
      <3>5. WsGoes(c, me)
        BY <2>3 DEF me
      <3> QED BY <3>2, <3>3, <3>4, <3>5, ConnectionSteps
    <2> QED BY <2>2, <2>3, LeavingKeeps
  <1>4. CASE WsLeave
    BY <1>0, <1>4, LeavingKeeps DEF WsLeave
  <1>5. CASE WsBeat
    <2> PICK c \in Connected : Leaves(c) \/ (WsGoes(c, [esClient[c] EXCEPT !.beats = @ + 1]) /\ UNCHANGED esGot)
      BY <1>5 DEF WsBeat
    <2>1. CASE WsGoes(c, [esClient[c] EXCEPT !.beats = @ + 1]) /\ UNCHANGED esGot
      <3> DEFINE me == [esClient[c] EXCEPT !.beats = @ + 1]
      <3>1. me \in Connection /\ me.at = esClient[c].at /\ me.global = esClient[c].global
            /\ me.cursor = esClient[c].cursor /\ me.seq = esClient[c].seq
        BY <1>0 DEF Connection
      <3> HIDE DEF me
      <3>2. WsGoes(c, me)
        BY <2>1 DEF me
      <3> QED BY <1>0, <2>1, <3>1, <3>2, StayingKeeps
    <2> QED BY <1>0, <2>1, LeavingKeeps
  <1>6. CASE WsPong
    <2> PICK c \in Connected : WsGoes(c, [esClient[c] EXCEPT !.beats = 0]) /\ UNCHANGED esGot
      BY <1>6 DEF WsPong
    <2> DEFINE me == [esClient[c] EXCEPT !.beats = 0]
    <2>1. me \in Connection /\ me.at = esClient[c].at /\ me.global = esClient[c].global
          /\ me.cursor = esClient[c].cursor /\ me.seq = esClient[c].seq
      BY <1>0 DEF Connection
    <2> HIDE DEF me
    <2>2. WsGoes(c, me)
      BY DEF me
    <2> QED BY <1>0, <2>1, <2>2, StayingKeeps
  <1>7. CASE WsSkip
    BY <1>0, <1>7, SkippingKeeps DEF WsSkip
  <1>8. CASE WsSend
    <2> PICK c \in Connected :
          LET me == esClient[c]
              taken == [me EXCEPT !.cursor = @ + 1, !.seq = @ + 1]
              frame == [event |-> esRing[me.cursor], seq |-> me.seq + 1]
          IN /\ Streams(c)
             /\ \/ WsGoes(c, [taken EXCEPT !.drops = 0]) /\ esGot' = [esGot EXCEPT ![c] = Append(@, frame)]
                \/ Leaves(c)
                \/ /\ WsGoes(c, [taken EXCEPT !.drops = @ + 1])
                   /\ esGot' \in {esGot, [esGot EXCEPT ![c] = Append(@, frame)]}
      BY <1>8 DEF WsSend
    <2> DEFINE me == esClient[c]
               taken == [me EXCEPT !.cursor = @ + 1, !.seq = @ + 1]
    <2>1. /\ taken \in Connection /\ taken.at = me.at /\ taken.global = me.global
          /\ taken.cursor = me.cursor + 1 /\ taken.seq = me.seq + 1
      <3>1. me \in Connection /\ me.cursor + 1 \in Nat /\ me.seq + 1 \in Nat
        BY <1>0 DEF Connection
      <3>2. PICK x \in Connection, cursor \in Nat, seq \in Nat : x = me /\ cursor = me.cursor + 1 /\ seq = me.seq + 1
        BY <3>1
      <3> DEFINE to == [x EXCEPT !.cursor = cursor, !.seq = seq]
      <3>3. to \in Connection
        BY DEF Connection
      <3>4. to.at = x.at /\ to.global = x.global /\ to.cursor = cursor /\ to.seq = seq
        BY DEF Connection
      <3>5. taken = to
        BY <3>2
      <3> HIDE DEF to, taken
      <3> QED BY <3>2, <3>3, <3>4, <3>5
    <2> HIDE DEF taken
    <2>2. ASSUME NEW d \in Nat
          PROVE  LET to == [taken EXCEPT !.drops = d]
                 IN to \in Connection /\ to.at = me.at /\ to.global = me.global /\ to.cursor = me.cursor + 1 /\ to.seq = me.seq + 1
      BY <2>1 DEF Connection
    <2>3. 0 \in Nat /\ taken.drops + 1 \in Nat
      BY <2>1 DEF Connection
    <2>4. CASE WsGoes(c, [taken EXCEPT !.drops = 0]) /\ esGot' = [esGot EXCEPT ![c] = Append(@, [event |-> esRing[me.cursor], seq |-> me.seq + 1])]
      <3> DEFINE to == [taken EXCEPT !.drops = 0]
      <3>1. to \in Connection /\ to.at = me.at /\ to.global = me.global /\ to.cursor = me.cursor + 1 /\ to.seq = me.seq + 1
        BY <2>2, <2>3
      <3>2. WsGoes(c, to)
        BY <2>4
      <3> HIDE DEF to
      <3> QED BY <1>0, <2>4, <3>1, <3>2, SendingKeeps
    <2>5. CASE /\ WsGoes(c, [taken EXCEPT !.drops = @ + 1])
               /\ esGot' \in {esGot, [esGot EXCEPT ![c] = Append(@, [event |-> esRing[me.cursor], seq |-> me.seq + 1])]}
      <3> DEFINE to == [taken EXCEPT !.drops = taken.drops + 1]
      <3>1. to \in Connection /\ to.at = me.at /\ to.global = me.global /\ to.cursor = me.cursor + 1 /\ to.seq = me.seq + 1
        BY <2>2, <2>3
      <3>2. WsGoes(c, to)
        BY <2>5
      <3> HIDE DEF to
      <3> QED BY <1>0, <2>5, <3>1, <3>2, SendingKeeps
    <2> QED BY <1>0, <2>4, <2>5, LeavingKeeps DEF taken
  <1>9. CASE WsLagged
    BY <1>0, <1>9, LeavingKeeps DEF WsLagged
  <1>10. CASE UNCHANGED esVars
    BY <1>10 DEF esVars, StreamsInv, RingIsInOrder, FramesFollow, Tells, MayRead
  <1> QED BY <1>1, <1>2, <1>3, <1>4, <1>5, <1>6, <1>7, <1>8, <1>9, <1>10 DEF EventStreamsNext

\* A server that has published nothing, and no connection.
LEMMA StreamsStart == EventStreamsInit => StreamsInv
  <1> SUFFICES ASSUME EventStreamsInit PROVE StreamsInv
    OBVIOUS
  <1>1. RingIsInOrder
    BY DEF EventStreamsInit, RingIsInOrder
  <1>2. Disconnected \in Connection /\ Disconnected.at # "streams" /\ <<>> \in Seq(Frame)
    BY DEF Disconnected, Connection
  <1>3. FramesFollow(Disconnected, <<>>)
    BY <1>2, NothingReceived
  <1> QED BY <1>1, <1>2, <1>3 DEF EventStreamsInit, StreamsInv

\* Of two frames with consecutive numbers a client misses no event in between that it
\* may read: what was left out for a slow client shows as a gap in the numbers
\* (api/ws): GapsAreVisible for every number of clients, chats and lengths of the ring.
THEOREM GapsShow == StreamsSpec => []GapsAreVisible
  <1>1. StreamsInv => GapsAreVisible
    BY DEF StreamsInv, GapsAreVisible, FramesFollow, Tells, MayRead, Entitled, Connected
  <1> QED BY <1>1, StreamsStart, StreamsInvStep, PTL DEF StreamsSpec

\* The counters of a connection and the number of connections stay within their limits.
CountersFit(me) == me.drops \in 0 .. DropLimit /\ me.tries \in 0 .. AuthLimit /\ me.beats \in 0 .. 2
StreamsRest ==
  /\ IsFiniteSet(Connected) /\ Cardinality(Connected) <= WsLimit
  /\ \A c \in EsClients : CountersFit(esClient[c])

\* A connection that is there, or for which there is room, goes on.
LEMMA GoingKeepsLimits ==
  ASSUME StreamsInv, StreamsRest, NEW c \in EsClients, NEW me, WsGoes(c, me), CountersFit(me),
         me.at = "away" \/ c \in Connected \/ Cardinality(Connected) < WsLimit
  PROVE  StreamsRest'
  <1>1. esClient' = [esClient EXCEPT ![c] = me] /\ DOMAIN esClient = EsClients
    BY DEF WsGoes, StreamsInv
  <1>2. \A d \in EsClients : esClient'[d] = IF d = c THEN me ELSE esClient[d]
    BY <1>1
  <1>3. \A d \in EsClients : CountersFit(esClient[d])'
    <2> SUFFICES ASSUME NEW d \in EsClients PROVE CountersFit(esClient'[d])
      BY DEF CountersFit
    <2> QED BY <1>2 DEF StreamsRest
  <1>4. WsLimit \in Nat /\ Cardinality(Connected) \in Nat
    BY EsAssumption, FS_CardinalityType DEF StreamsRest
  <1>5. Connected' = {d \in EsClients : esClient'[d].at # "away"}
    BY DEF Connected
  <1>6. CASE me.at = "away" \/ c \in Connected
    <2>1. Connected' \subseteq Connected
      BY <1>2, <1>5, <1>6 DEF Connected
    <2>2. IsFiniteSet(Connected') /\ Cardinality(Connected') <= Cardinality(Connected) /\ Cardinality(Connected') \in Nat
      BY <2>1, FS_Subset, FS_CardinalityType DEF StreamsRest
    <2> QED BY <1>3, <1>4, <2>2 DEF StreamsRest
  <1>7. CASE Cardinality(Connected) < WsLimit
    <2>1. Connected' \subseteq Connected \cup {c}
      BY <1>2, <1>5 DEF Connected
    <2>2. IsFiniteSet(Connected \cup {c}) /\ Cardinality(Connected \cup {c}) <= Cardinality(Connected) + 1 /\ Cardinality(Connected \cup {c}) \in Nat
      <3>1. IsFiniteSet(Connected)
        BY DEF StreamsRest
      <3>2. IsFiniteSet(Connected \cup {c}) /\ Cardinality(Connected \cup {c}) = IF c \in Connected THEN Cardinality(Connected) ELSE Cardinality(Connected) + 1
        BY <3>1, FS_AddElement
      <3> QED BY <1>4, <3>2
    <2>3. IsFiniteSet(Connected') /\ Cardinality(Connected') <= Cardinality(Connected \cup {c}) /\ Cardinality(Connected') \in Nat
      BY <2>1, <2>2, FS_Subset, FS_CardinalityType
    <2>4. Cardinality(Connected') <= WsLimit
      BY <1>4, <1>7, <2>2, <2>3
    <2> QED BY <1>3, <2>3, <2>4 DEF StreamsRest
  <1> QED BY <1>6, <1>7

\* A connection that ends.
LEMMA LeavingKeepsLimits ==
  ASSUME StreamsInv, StreamsRest, NEW c \in EsClients, Leaves(c)
  PROVE  StreamsRest'
  <1>1. 0 \in 0 .. DropLimit /\ 0 \in 0 .. AuthLimit /\ 0 \in 0 .. 2
    BY EsAssumption
  <1>2. CountersFit(Disconnected) /\ Disconnected.at = "away"
    BY <1>1 DEF CountersFit, Disconnected
  <1> QED BY <1>2, GoingKeepsLimits DEF Leaves

\* Every step of the publisher, of the fan-out and of a connection keeps the limits.
LEMMA StreamsRestStep == StreamsInv /\ StreamsRest /\ [EventStreamsNext]_esVars => StreamsRest'
  <1> SUFFICES ASSUME StreamsInv, StreamsRest, [EventStreamsNext]_esVars PROVE StreamsRest'
    OBVIOUS
  <1>0. /\ Connected \subseteq EsClients /\ DropLimit \in Nat /\ AuthLimit \in Nat
        /\ \A c \in EsClients : esClient[c] \in Connection /\ CountersFit(esClient[c])
    BY EsAssumption DEF Connected, StreamsInv, StreamsRest
  <1>1. CASE UNCHANGED esClient
    BY <1>1 DEF StreamsRest, Connected, CountersFit
  <1>2. CASE WsConnect
    <2> PICK c \in EsClients : Cardinality(Connected) < WsLimit /\ WsGoes(c, [Disconnected EXCEPT !.at = "unknown"])
      BY <1>2 DEF WsConnect
    <2>1. CountersFit([Disconnected EXCEPT !.at = "unknown"])
      BY <1>0 DEF CountersFit, Disconnected
    <2> QED BY <2>1, GoingKeepsLimits
  <1>3. CASE WsAuthenticate
    <2> PICK c \in EsClients, global \in BOOLEAN :
          /\ esClient[c].at = "unknown"
          /\ LET tries == esClient[c].tries + 1
             IN \/ tries <= AuthLimit /\ WsGoes(c, [esClient[c] EXCEPT !.tries = tries])
                \/ /\ tries <= AuthLimit
                   /\ WsGoes(c, [esClient[c] EXCEPT !.tries = tries, !.at = "streams", !.global = global, !.cursor = Subscribe(Len(esRing))])
                \/ Leaves(c)
      BY <1>3 DEF WsAuthenticate
    <2>1. c \in Connected
      BY DEF Connected
    <2>2. CASE Leaves(c)
      BY <2>2, LeavingKeepsLimits
    <2>3. CASE esClient[c].tries + 1 <= AuthLimit
      <3> DEFINE tries == esClient[c].tries + 1
                 one == [esClient[c] EXCEPT !.tries = tries]
                 two == [esClient[c] EXCEPT !.tries = tries, !.at = "streams", !.global = global, !.cursor = Subscribe(Len(esRing))]
      <3>1. esClient[c] \in Connection /\ CountersFit(esClient[c])
        BY <1>0
      <3>2. tries \in 0 .. AuthLimit
        BY <1>0, <2>3, <3>1 DEF CountersFit
      <3>3. one.drops = esClient[c].drops /\ one.tries = tries /\ one.beats = esClient[c].beats
        BY <3>1 DEF Connection
      <3>4. two.drops = esClient[c].drops /\ two.tries = tries /\ two.beats = esClient[c].beats
        BY <3>1 DEF Connection
      <3>5. CountersFit(one) /\ CountersFit(two)
        <4> HIDE DEF one, two, tries
        <4> QED BY <3>1, <3>2, <3>3, <3>4 DEF CountersFit
      <3> QED BY <2>1, <3>5, GoingKeepsLimits, LeavingKeepsLimits
    <2> QED BY <2>2, <2>3
  <1>4. CASE WsLeave \/ WsLagged
    BY <1>0, <1>4, LeavingKeepsLimits DEF WsLeave, WsLagged
  <1>5. CASE WsBeat
    <2> PICK c \in Connected : IF esClient[c].beats = 2 THEN Leaves(c) ELSE WsGoes(c, [esClient[c] EXCEPT !.beats = @ + 1])
      BY <1>5 DEF WsBeat
    <2>1. CASE esClient[c].beats = 2
      BY <1>0, <2>1, LeavingKeepsLimits
    <2>2. CASE esClient[c].beats # 2
      <3> DEFINE me == [esClient[c] EXCEPT !.beats = @ + 1]
      <3>1. esClient[c] \in Connection /\ CountersFit(esClient[c]) /\ c \in EsClients
        BY <1>0
      <3>2. me.drops = esClient[c].drops /\ me.tries = esClient[c].tries /\ me.beats = esClient[c].beats + 1
        BY <3>1 DEF Connection
      <3>3. WsGoes(c, me)
        BY <2>2
      <3> HIDE DEF me
      <3>4. CountersFit(me)
        BY <2>2, <3>1, <3>2 DEF CountersFit
      <3> QED BY <3>1, <3>3, <3>4, GoingKeepsLimits
    <2> QED BY <2>1, <2>2
  <1>6. CASE WsPong
    <2> PICK c \in Connected : WsGoes(c, [esClient[c] EXCEPT !.beats = 0])
      BY <1>6 DEF WsPong
    <2> DEFINE me == [esClient[c] EXCEPT !.beats = 0]
    <2>1. esClient[c] \in Connection /\ CountersFit(esClient[c]) /\ c \in EsClients
      BY <1>0
    <2>2. me.drops = esClient[c].drops /\ me.tries = esClient[c].tries /\ me.beats = 0
      BY <2>1 DEF Connection
    <2>3. WsGoes(c, me)
      OBVIOUS
    <2> HIDE DEF me
    <2>4. CountersFit(me)
      BY <2>1, <2>2 DEF CountersFit
    <2> QED BY <2>1, <2>3, <2>4, GoingKeepsLimits
  <1>7. CASE WsSkip
    <2> PICK c \in Connected : WsGoes(c, [esClient[c] EXCEPT !.cursor = @ + 1])
      BY <1>7 DEF WsSkip
    <2> DEFINE me == [esClient[c] EXCEPT !.cursor = @ + 1]
    <2>1. esClient[c] \in Connection /\ CountersFit(esClient[c]) /\ c \in EsClients
      BY <1>0
    <2>2. me.drops = esClient[c].drops /\ me.tries = esClient[c].tries /\ me.beats = esClient[c].beats
      BY <2>1 DEF Connection
    <2>3. WsGoes(c, me)
      OBVIOUS
    <2> HIDE DEF me
    <2>4. CountersFit(me)
      BY <2>1, <2>2 DEF CountersFit
    <2> QED BY <2>1, <2>3, <2>4, GoingKeepsLimits
  <1>8. CASE WsSend
    <2> PICK c \in Connected :
          LET taken == [esClient[c] EXCEPT !.cursor = @ + 1, !.seq = @ + 1]
          IN  \/ WsGoes(c, [taken EXCEPT !.drops = 0])
              \/ Leaves(c)
              \/ esClient[c].drops < DropLimit /\ WsGoes(c, [taken EXCEPT !.drops = @ + 1])
      BY <1>8 DEF WsSend
    <2> DEFINE taken == [esClient[c] EXCEPT !.cursor = @ + 1, !.seq = @ + 1]
               sent == [taken EXCEPT !.drops = 0]
               dropped == [taken EXCEPT !.drops = @ + 1]
    <2>1. esClient[c] \in Connection /\ CountersFit(esClient[c]) /\ c \in EsClients
      BY <1>0
    <2>2. /\ sent.drops = 0 /\ sent.tries = esClient[c].tries /\ sent.beats = esClient[c].beats
          /\ dropped.drops = esClient[c].drops + 1 /\ dropped.tries = esClient[c].tries /\ dropped.beats = esClient[c].beats
      BY <2>1 DEF Connection
    <2>3. WsGoes(c, sent) \/ Leaves(c) \/ (esClient[c].drops < DropLimit /\ WsGoes(c, dropped))
      OBVIOUS
    <2> HIDE DEF taken, sent, dropped
    <2>4. CountersFit(sent) /\ (esClient[c].drops < DropLimit => CountersFit(dropped))
      BY <1>0, <2>1, <2>2 DEF CountersFit
    <2> QED BY <2>1, <2>3, <2>4, GoingKeepsLimits, LeavingKeepsLimits
  <1> QED BY <1>1, <1>2, <1>3, <1>4, <1>5, <1>6, <1>7, <1>8 DEF EventStreamsNext, EsPublish, EsFan, esVars

\* The types of the streams, and no more connections than the limit: EventStreamsTypeOK.
LEMMA StreamsTypes == StreamsSpec => []EventStreamsTypeOK
  <1>2. EventStreamsInit => StreamsRest
    <2> SUFFICES ASSUME EventStreamsInit PROVE StreamsRest
      OBVIOUS
    <2>1. \A c \in EsClients : esClient[c] = Disconnected
      BY DEF EventStreamsInit
    <2>2. Connected = {}
      BY <2>1 DEF Connected, Disconnected
    <2>3. IsFiniteSet(Connected) /\ Cardinality(Connected) = 0
      BY <2>2, FS_EmptySet
    <2>4. CountersFit(Disconnected)
      BY EsAssumption DEF CountersFit, Disconnected
    <2> QED BY <2>1, <2>3, <2>4, EsAssumption DEF StreamsRest
  <1>3. StreamsInv /\ StreamsRest => EventStreamsTypeOK
    BY DEF StreamsInv, RingIsInOrder, StreamsRest, CountersFit, EventStreamsTypeOK
  <1> QED BY <1>2, <1>3, StreamsStart, StreamsInvStep, StreamsRestStep, PTL DEF StreamsSpec

-----------------------------------------------------------------------------
(* Migrations of the schema (Migrations).                                    *)
MgSpec == MigrationsInit /\ [][MigrationsNext]_mgVars

Places == {"down", "locks", "reads", "applies", "records", "unlocks", "checks", "running", "memory"}
\* A server that has read the versions: those before its next script are in the table.
Placed(p) ==
  /\ mgAt[p] \in {"applies", "records", "unlocks", "checks", "running"} => 1 .. mgNext[p] - 1 \subseteq mgVersions
  /\ mgAt[p] \in {"applies", "records"} => mgNext[p] <= mgRelease[p]
  /\ mgAt[p] \in {"unlocks", "checks", "running"} => mgNext[p] > mgRelease[p]
\* What tells that script v ran already.
Marks(v) == IF v = 1 THEN V1 ELSE Once(v)
Made ==
  /\ \A v \in mgVersions : Makes(v) \subseteq mgSchema
  /\ \A p \in MgServers : mgAt[p] = "records" => Makes(mgNext[p]) \subseteq mgSchema
Unmade == \A v \in (1 .. 4) \ mgVersions :
            Marks(v) \cap mgSchema = {} \/ \E p \in MgServers : mgAt[p] = "records" /\ mgNext[p] = v
MgTypes ==
  /\ mgAt \in [MgServers -> Places] /\ mgNext \in [MgServers -> Nat \ {0}] /\ mgRelease \in [MgServers -> 1 .. 4]
  /\ mgBackend \in {"sqlite", "postgres"} /\ mgCut \in BOOLEAN
MigrationInv ==
  /\ MgTypes
  /\ \E n \in 0 .. 4 : mgVersions = 1 .. n
  /\ \A p \in MgServers : Placed(p)
  /\ mgCut \/ (Made /\ Unmade)

\* Versions are recorded without a gap, and the schema version is the last.
LEMMA LargestVersion ==
  ASSUME NEW n \in 0 .. 4, mgVersions = 1 .. n
  PROVE  SchemaVersion = n
  <1> DEFINE S == 1 .. n \cup {0}
  <1>1. n \in S /\ \A y \in S : n >= y
    OBVIOUS
  <1>2. \A x \in S : (\A y \in S : x >= y) => x = n
    BY <1>1
  <1>3. Max(S) = n
    BY <1>1, <1>2 DEF Max
  <1> QED BY <1>3 DEF SchemaVersion

\* No script makes what another is recognised by, or drops what an earlier one made.
LEMMA ScriptsDiffer ==
  ASSUME mgBackend \in {"sqlite", "postgres"}, NEW v \in 1 .. 4
  PROVE  /\ \A w \in 1 .. 4 : v # w => Makes(v) \cap Marks(w) = {}
         /\ \A w \in 1 .. 4 : w < v => Makes(w) \cap Drops(v) = {}
         /\ Marks(v) \subseteq Drops(v)
  <1>1. v = 1 \/ v = 2 \/ v = 3 \/ v = 4
    OBVIOUS
  <1>2. /\ Marks(1) = V1 /\ Marks(2) = {"target_grants"} /\ Marks(3) \subseteq V3 /\ Marks(4) = {}
        /\ Makes(1) = V1 /\ Makes(2) = V2Tables \cup KeyColumns /\ Makes(3) = V3 /\ Makes(4) = V4
        /\ V1 \subseteq Drops(1) /\ "target_grants" \in Drops(2) /\ Drops(2) \subseteq V2Tables \cup V4 \cup KeyColumns
        /\ Drops(3) = V3 /\ Drops(4) = V4
    BY DEF Marks, Once, OnceSqlite, OncePostgres, Makes, Drops, V2Tables
  <1>3. /\ V1 \cap (V2Tables \cup KeyColumns) = {} /\ V1 \cap V3 = {} /\ V1 \cap V4 = {}
        /\ V3 \cap (V2Tables \cup KeyColumns) = {} /\ V4 \cap (V2Tables \cup KeyColumns) = {} /\ V3 \cap V4 = {}
        /\ "target_grants" \in V2Tables
    BY DEF V1, V2Tables, KeyColumns, V3, V4
  <1> HIDE DEF V1, V2Tables, V3, V4, KeyColumns
  <1>4. \A w \in 1 .. 4 : w = 1 \/ w = 2 \/ w = 3 \/ w = 4
    OBVIOUS
  <1>5. ASSUME NEW w \in 1 .. 4, v # w PROVE Makes(v) \cap Marks(w) = {}
    BY <1>1, <1>2, <1>3, <1>4, <1>5
  <1>6. ASSUME NEW w \in 1 .. 4, w < v PROVE Makes(w) \cap Drops(v) = {}
    BY <1>1, <1>2, <1>3, <1>4, <1>6
  <1>7. Marks(v) \subseteq Drops(v)
    BY <1>1, <1>2
  <1> QED BY <1>5, <1>6, <1>7

\* A server moves on to a script it may run: those before it are recorded.
LEMMA PlacesKept ==
  ASSUME MigrationInv, NEW p \in MgServers, NEW there \in Places, NEW next \in Nat \ {0},
         mgAt' = [mgAt EXCEPT ![p] = there], mgNext' = [mgNext EXCEPT ![p] = next],
         mgRelease' = mgRelease, mgBackend' = mgBackend, mgCut' \in BOOLEAN, mgVersions \subseteq mgVersions',
         there \in {"applies", "records", "unlocks", "checks", "running"} => 1 .. next - 1 \subseteq mgVersions',
         there \in {"applies", "records"} => next <= mgRelease[p],
         there \in {"unlocks", "checks", "running"} => next > mgRelease[p]
  PROVE  MgTypes' /\ \A q \in MgServers : Placed(q)'
  <1>1. MgTypes'
    BY DEF MigrationInv, MgTypes
  <1>2. ASSUME NEW q \in MgServers PROVE Placed(q)'
    <2>1. CASE q = p
      <3>1. mgAt'[q] = there /\ mgNext'[q] = next /\ mgRelease'[q] = mgRelease[p]
        BY <2>1 DEF MigrationInv, MgTypes
      <3> QED BY <3>1 DEF Placed
    <2>2. CASE q # p
      <3>1. mgAt'[q] = mgAt[q] /\ mgNext'[q] = mgNext[q] /\ mgRelease'[q] = mgRelease[q] /\ Placed(q)
        BY <2>2 DEF MigrationInv, MgTypes
      <3> QED BY <3>1 DEF Placed
    <2> QED BY <2>1, <2>2
  <1> QED BY <1>1, <1>2

\* A server that is not between a script and its row moves.
LEMMA SchemaStays ==
  ASSUME MigrationInv, NEW p \in MgServers, mgAt[p] # "records", mgAt'[p] # "records",
         \A q \in MgServers \ {p} : mgAt'[q] = mgAt[q] /\ mgNext'[q] = mgNext[q],
         UNCHANGED <<mgBackend, mgSchema, mgVersions, mgCut>>
  PROVE  mgCut' \/ (Made' /\ Unmade')
  <1>1. CASE mgCut
    BY <1>1
  <1>2. CASE Made /\ Unmade
    <2>1. Made'
      <3>1. \A q \in MgServers : mgAt'[q] = "records" => mgAt[q] = "records" /\ mgNext'[q] = mgNext[q]
        OBVIOUS
      <3>2. \A v : Makes(v)' = Makes(v)
        BY DEF Makes
      <3> QED BY <1>2, <3>1, <3>2 DEF Made
    <2>2. \A v : Marks(v)' = Marks(v)
      BY DEF Marks, Once, OnceSqlite, OncePostgres
    <2>3. Unmade'
      BY <1>2, <2>2 DEF Unmade
    <2> QED BY <2>1, <2>3
  <1> QED BY <1>1, <1>2 DEF MigrationInv

\* A step that leaves the database alone.
LEMMA QuietMigration ==
  ASSUME MigrationInv, NEW p \in MgServers, mgAt[p] # "records", NEW there \in Places \ {"records"}, NEW next \in Nat \ {0},
         mgAt' = [mgAt EXCEPT ![p] = there], mgNext' = [mgNext EXCEPT ![p] = next],
         UNCHANGED <<mgBackend, mgSchema, mgVersions, mgCut, mgRelease>>,
         there \in {"applies", "records", "unlocks", "checks", "running"} => 1 .. next - 1 \subseteq mgVersions,
         there \in {"applies", "records"} => next <= mgRelease[p],
         there \in {"unlocks", "checks", "running"} => next > mgRelease[p]
  PROVE  MigrationInv'
  <1>1. MgTypes' /\ \A q \in MgServers : Placed(q)'
    BY PlacesKept DEF MigrationInv, MgTypes
  <1>2. mgCut' \/ (Made' /\ Unmade')
    <2>1. mgAt'[p] = there /\ \A q \in MgServers \ {p} : mgAt'[q] = mgAt[q] /\ mgNext'[q] = mgNext[q]
      BY DEF MigrationInv, MgTypes
    <2> QED BY <2>1, SchemaStays
  <1> QED BY <1>1, <1>2 DEF MigrationInv

\* A server that is not between a script and its record goes down.
LEMMA GoingDownKeeps ==
  ASSUME MigrationInv, NEW p \in MgServers, mgAt[p] # "records", mgAt' = [mgAt EXCEPT ![p] = "down"],
         UNCHANGED <<mgBackend, mgSchema, mgVersions, mgCut, mgRelease, mgNext>>
  PROVE  MigrationInv'
  <1>1. mgNext' = [mgNext EXCEPT ![p] = mgNext[p]] /\ mgNext[p] \in Nat \ {0}
    BY DEF MigrationInv, MgTypes
  <1>2. "down" \in Places /\ "down" \notin {"applies", "records", "unlocks", "checks", "running"}
    BY DEF Places
  <1> QED BY <1>1, <1>2, QuietMigration

\* A failure between a script and its row.
LEMMA CutKeeps ==
  ASSUME MigrationInv, NEW p \in MgServers, mgAt' = [mgAt EXCEPT ![p] = "down"], mgCut' = TRUE,
         UNCHANGED <<mgBackend, mgVersions, mgRelease, mgNext>>
  PROVE  MigrationInv'
  <1>1. mgNext' = [mgNext EXCEPT ![p] = mgNext[p]] /\ mgNext[p] \in Nat \ {0}
    BY DEF MigrationInv, MgTypes
  <1>2. "down" \in Places /\ "down" \notin {"applies", "records", "unlocks", "checks", "running"}
    BY DEF Places
  <1>3. mgCut' \in BOOLEAN
    OBVIOUS
  <1>4. MgTypes' /\ \A q \in MgServers : Placed(q)'
    BY <1>1, <1>2, <1>3, PlacesKept
  <1> QED BY <1>4 DEF MigrationInv

\* Where a server goes with its next script.
LEMMA OnwardIsPlaced ==
  ASSUME MigrationInv, NEW p \in MgServers, NEW next \in Nat \ {0}
  PROVE  /\ Onward(p, next) \in Places \ {"records"}
         /\ Onward(p, next) \in {"applies", "records"} => next <= mgRelease[p]
         /\ Onward(p, next) \in {"unlocks", "checks", "running"} => next > mgRelease[p]
  <1>1. mgRelease[p] \in 1 .. 4
    BY DEF MigrationInv, MgTypes
  <1> QED BY <1>1 DEF Onward, Places

\* The database gains what script v makes, and its row.
LEMMA AppliedKeeps ==
  ASSUME MigrationInv, NEW p \in MgServers, mgAt[p] \in {"applies", "records"},
         mgAt[p] = "applies" => mgSchema' = mgSchema \cup Makes(mgNext[p]),
         mgAt[p] = "records" => mgSchema' = mgSchema,
         mgVersions' = mgVersions \cup {mgNext[p]}, mgNext' = [mgNext EXCEPT ![p] = mgNext[p] + 1],
         mgAt' = [mgAt EXCEPT ![p] = Onward(p, mgNext[p] + 1)], UNCHANGED <<mgBackend, mgRelease, mgCut>>
  PROVE  MigrationInv'
  <1> DEFINE v == mgNext[p]
  <1>1. v \in 1 .. 4 /\ v \in Nat \ {0} /\ v + 1 \in Nat \ {0} /\ 1 .. v - 1 \subseteq mgVersions
    <2>1. v \in Nat \ {0} /\ mgRelease[p] \in 1 .. 4 /\ v <= mgRelease[p] /\ 1 .. v - 1 \subseteq mgVersions
      BY DEF MigrationInv, MgTypes, Placed
    <2> HIDE DEF v
    <2> QED BY <2>1
  <1>2. \E n \in 0 .. 4 : mgVersions' = 1 .. n
    <2> HIDE DEF v
    <2>1. PICK n \in 0 .. 4 : mgVersions = 1 .. n
      BY DEF MigrationInv
    <2>2. mgVersions' = mgVersions \cup {v}
      BY DEF v
    <2>3. CASE v <= n
      <3>1. mgVersions' = 1 .. n
        BY <1>1, <2>1, <2>2, <2>3
      <3> QED BY <3>1
    <2>4. CASE n < v
      <3>1. v = n + 1
        <4>1. CASE n + 1 < v
          <5>1. n + 1 \in 1 .. v - 1
            BY <1>1, <2>1, <4>1
          <5>2. n + 1 \in 1 .. n
            BY <1>1, <2>1, <5>1
          <5> QED BY <5>2
        <4> QED BY <1>1, <2>1, <2>4, <4>1
      <3>2. mgVersions' = 1 .. n + 1
        BY <1>1, <2>1, <2>2, <3>1
      <3>3. n + 1 \in 0 .. 4
        BY <1>1, <3>1
      <3> QED BY <3>2, <3>3
    <2> QED BY <1>1, <2>3, <2>4
  <1>3. MgTypes' /\ \A q \in MgServers : Placed(q)'
    <2>1. 1 .. (v + 1) - 1 \subseteq mgVersions'
      <3>1. v \in mgVersions' /\ mgVersions \subseteq mgVersions'
        OBVIOUS
      <3> HIDE DEF v
      <3> QED BY <1>1, <3>1
    <2>2. mgCut' \in BOOLEAN
      BY DEF MigrationInv, MgTypes
    <2>3. /\ Onward(p, v + 1) \in Places
          /\ Onward(p, v + 1) \in {"applies", "records"} => v + 1 <= mgRelease[p]
          /\ Onward(p, v + 1) \in {"unlocks", "checks", "running"} => v + 1 > mgRelease[p]
      BY <1>1, OnwardIsPlaced
    <2>4. mgVersions \subseteq mgVersions' /\ mgAt' = [mgAt EXCEPT ![p] = Onward(p, v + 1)] /\ mgNext' = [mgNext EXCEPT ![p] = v + 1]
      OBVIOUS
    <2> DEFINE next == v + 1
               there == Onward(p, next)
    <2>5. next \in Nat \ {0}
      BY <1>1
    <2>6. there \in Places /\ (there \in {"applies", "records"} => next <= mgRelease[p])
          /\ (there \in {"unlocks", "checks", "running"} => next > mgRelease[p])
          /\ 1 .. next - 1 \subseteq mgVersions' /\ mgAt' = [mgAt EXCEPT ![p] = there] /\ mgNext' = [mgNext EXCEPT ![p] = next]
      BY <2>1, <2>3, <2>4
    <2> HIDE DEF next, there, v
    <2> QED BY <2>2, <2>4, <2>5, <2>6, PlacesKept
  <1>4. ASSUME ~mgCut PROVE Made' /\ Unmade'
    <2> HIDE DEF v
    <2>1. Made /\ Unmade
      BY <1>4 DEF MigrationInv
    <2>2. mgSchema' = mgSchema \cup Makes(v) /\ mgVersions' = mgVersions \cup {v}
      <3>1. CASE mgAt[p] = "applies"
        BY <3>1 DEF v
      <3>2. CASE mgAt[p] = "records"
        BY <2>1, <3>2 DEF v, Made
      <3> QED BY <3>1, <3>2
    <2>3. \A w : Makes(w)' = Makes(w) /\ Marks(w)' = Marks(w)
      BY DEF Makes, Marks, Once, OnceSqlite, OncePostgres
    <2>4. Made'
      <3>1. \A q \in MgServers : mgAt'[q] = "records" => mgAt[q] = "records" /\ mgNext'[q] = mgNext[q]
        <4> TAKE q \in MgServers
        <4>1. Onward(p, v + 1) # "records"
          BY <1>1, OnwardIsPlaced
        <4>2. CASE q = p
          BY <4>1, <4>2 DEF MigrationInv, MgTypes, v
        <4>3. CASE q # p
          BY <4>3 DEF MigrationInv, MgTypes
        <4> QED BY <4>2, <4>3
      <3> QED BY <2>1, <2>2, <2>3, <3>1 DEF Made
    <2>5. ASSUME NEW w \in (1 .. 4) \ mgVersions'
          PROVE  Marks(w) \cap mgSchema' = {} \/ \E q \in MgServers : mgAt'[q] = "records" /\ mgNext'[q] = w
      <3>1. w # v /\ w \notin mgVersions
        BY <2>2, <2>5
      <3>2. CASE Marks(w) \cap mgSchema = {}
        <4>1. Makes(v) \cap Marks(w) = {}
          BY <1>1, <3>1, ScriptsDiffer DEF MigrationInv, MgTypes
        <4> QED BY <2>2, <3>2, <4>1
      <3>3. CASE \E q \in MgServers : mgAt[q] = "records" /\ mgNext[q] = w
        <4> PICK q \in MgServers : mgAt[q] = "records" /\ mgNext[q] = w
          BY <3>3
        <4>1. q # p
          BY <3>1 DEF v
        <4>2. mgAt'[q] = mgAt[q] /\ mgNext'[q] = mgNext[q]
          BY <4>1 DEF MigrationInv, MgTypes
        <4> QED BY <4>2
      <3> QED BY <2>1, <3>1, <3>2, <3>3 DEF Unmade
    <2>6. Unmade'
      BY <2>3, <2>5 DEF Unmade
    <2> QED BY <2>4, <2>6
  <1>5. mgCut' = mgCut
    OBVIOUS
  <1>6. mgCut' \/ (Made' /\ Unmade')
    BY <1>4, <1>5
  <1> QED BY <1>2, <1>3, <1>6 DEF MigrationInv

\* On PostgreSQL the script comes first.
LEMMA ScriptKeeps ==
  ASSUME MigrationInv, NEW p \in MgServers, mgAt[p] = "applies", mgAt' = [mgAt EXCEPT ![p] = "records"],
         mgSchema' = mgSchema \cup Makes(mgNext[p]), UNCHANGED <<mgBackend, mgVersions, mgRelease, mgNext, mgCut>>
  PROVE  MigrationInv'
  <1>1. mgNext' = [mgNext EXCEPT ![p] = mgNext[p]] /\ mgNext[p] \in Nat \ {0} /\ "records" \in Places /\ mgCut' \in BOOLEAN
        /\ 1 .. mgNext[p] - 1 \subseteq mgVersions /\ mgNext[p] <= mgRelease[p] /\ mgRelease[p] \in 1 .. 4
    BY DEF MigrationInv, MgTypes, Placed, Places
  <1>2. MgTypes' /\ \A q \in MgServers : Placed(q)'
    BY <1>1, PlacesKept
  <1>3. ASSUME ~mgCut PROVE Made' /\ Unmade'
    <2>1. Made /\ Unmade /\ mgAt'[p] = "records" /\ \A q \in MgServers : q # p => mgAt'[q] = mgAt[q]
      BY <1>3 DEF MigrationInv, MgTypes
    <2>2. \A w : Makes(w)' = Makes(w) /\ Marks(w)' = Marks(w)
      BY DEF Makes, Marks, Once, OnceSqlite, OncePostgres
    <2>3. Made'
      BY <2>1, <2>2 DEF Made
    <2>4. ASSUME NEW w \in (1 .. 4) \ mgVersions
          PROVE  Marks(w) \cap mgSchema' = {} \/ \E q \in MgServers : mgAt'[q] = "records" /\ mgNext'[q] = w
      <3>1. CASE w = mgNext[p]
        BY <2>1, <3>1
      <3>2. CASE w # mgNext[p] /\ Marks(w) \cap mgSchema = {}
        <4>1. Makes(mgNext[p]) \cap Marks(w) = {}
          BY <1>1, <3>2, ScriptsDiffer DEF MigrationInv, MgTypes
        <4> QED BY <3>2, <4>1
      <3>3. CASE \E q \in MgServers : mgAt[q] = "records" /\ mgNext[q] = w
        <4> PICK q \in MgServers : mgAt[q] = "records" /\ mgNext[q] = w
          BY <3>3
        <4> QED BY <2>1
      <3> QED BY <2>1, <3>1, <3>2, <3>3 DEF Unmade
    <2> QED BY <2>2, <2>3, <2>4 DEF Unmade
  <1>4. mgCut' \/ (Made' /\ Unmade')
    BY <1>3
  <1> QED BY <1>2, <1>4 DEF MigrationInv

\* The operator rolls the last script back while every server is down.
LEMMA RollbackKeeps ==
  ASSUME MigrationInv, MgRollback
  PROVE  MigrationInv'
  <1>1. PICK n \in 0 .. 4 : mgVersions = 1 .. n
    BY DEF MigrationInv
  <1>2. SchemaVersion = n /\ n \in 1 .. 4
    BY <1>1, LargestVersion DEF MgRollback
  <1>3. /\ mgSchema' = mgSchema \ Drops(n) /\ UNCHANGED <<mgBackend, mgAt, mgRelease, mgNext>>
        /\ \A p \in MgServers : mgAt[p] = "down"
        /\ (mgVersions' = mgVersions \ {n} /\ mgCut' = mgCut) \/ (mgCut' = TRUE /\ mgVersions' = mgVersions)
    BY <1>2 DEF MgRollback
  <1>4. \E m \in 0 .. 4 : mgVersions' = 1 .. m
    <2>1. CASE mgVersions' = mgVersions
      BY <1>1, <2>1
    <2>2. CASE mgVersions' = mgVersions \ {n}
      <3>1. mgVersions' = 1 .. n - 1 /\ n - 1 \in 0 .. 4
        BY <1>1, <1>2, <2>2
      <3> QED BY <3>1
    <2> QED BY <1>3, <2>1, <2>2
  <1>5. MgTypes'
    <2>1. mgCut' \in BOOLEAN
      BY <1>3 DEF MigrationInv, MgTypes
    <2> QED BY <1>3, <2>1 DEF MigrationInv, MgTypes
  <1>6. \A p \in MgServers : Placed(p)'
    BY <1>3 DEF Placed
  <1>7. mgCut' \/ (Made' /\ Unmade')
    <2>1. CASE mgCut' = TRUE
      BY <2>1
    <2>2. CASE mgVersions' = mgVersions \ {n} /\ mgCut' = mgCut /\ mgCut
      BY <2>2
    <2>3. CASE mgVersions' = mgVersions \ {n} /\ Made /\ Unmade
      <3>1. \A w : Makes(w)' = Makes(w) /\ Marks(w)' = Marks(w)
        BY <1>3 DEF Makes, Marks, Once, OnceSqlite, OncePostgres
      <3>2. /\ \A w \in 1 .. 4 : w < n => Makes(w) \cap Drops(n) = {}
            /\ Marks(n) \subseteq Drops(n)
        BY <1>2, ScriptsDiffer DEF MigrationInv, MgTypes
      <3>3. \A w \in mgVersions' : w \in 1 .. 4 /\ w < n /\ w \in mgVersions
        BY <1>1, <1>2, <2>3
      <3>4. Made'
        BY <1>3, <2>3, <3>1, <3>2, <3>3 DEF Made
      <3>5. ASSUME NEW w \in (1 .. 4) \ mgVersions' PROVE Marks(w) \cap mgSchema' = {}
        <4>1. CASE w = n
          BY <1>3, <3>2, <4>1
        <4>2. CASE w # n
          <5>1. w \notin mgVersions
            BY <2>3, <3>5, <4>2
          <5>2. Marks(w) \cap mgSchema = {}
            BY <1>3, <2>3, <5>1 DEF Unmade
          <5> QED BY <1>3, <5>2
        <4> QED BY <4>1, <4>2
      <3>6. Unmade'
        BY <3>1, <3>5 DEF Unmade
      <3> QED BY <3>4, <3>6
    <2>4. mgCut \/ (Made /\ Unmade)
      BY DEF MigrationInv
    <2> QED BY <1>3, <2>1, <2>2, <2>3, <2>4
  <1> QED BY <1>4, <1>5, <1>6, <1>7 DEF MigrationInv

\* A server reads the version of the schema.
LEMMA ReadingKeeps ==
  ASSUME MigrationInv, NEW p \in MgServers, MgRead(p)
  PROVE  MigrationInv'
  <1>1. PICK current \in {SchemaVersion, 0} :
          /\ mgAt[p] = "reads" /\ UNCHANGED <<mgBackend, mgSchema, mgVersions, mgRelease, mgCut>>
          /\ \/ mgAt' = [mgAt EXCEPT ![p] = "down"] /\ UNCHANGED mgNext
             \/ /\ mgAt' = [mgAt EXCEPT ![p] = Onward(p, current + 1)] /\ mgNext' = [mgNext EXCEPT ![p] = current + 1]
    BY DEF MgRead, GoesDown, MgMoves
  <1>2. current \in Nat /\ 1 .. (current + 1) - 1 \subseteq mgVersions
    <2>1. PICK n \in 0 .. 4 : mgVersions = 1 .. n
      BY DEF MigrationInv
    <2>2. SchemaVersion = n
      BY <2>1, LargestVersion
    <2>3. current = n \/ current = 0
      BY <2>2
    <2> QED BY <2>1, <2>3
  <1>3. CASE mgAt' = [mgAt EXCEPT ![p] = "down"] /\ UNCHANGED mgNext
    BY <1>1, <1>3, GoingDownKeeps
  <1>4. CASE mgAt' = [mgAt EXCEPT ![p] = Onward(p, current + 1)] /\ mgNext' = [mgNext EXCEPT ![p] = current + 1]
    <2> DEFINE next == current + 1
               there == Onward(p, next)
    <2>1. next \in Nat \ {0}
      BY <1>2
    <2>2. there \in Places \ {"records"} /\ (there \in {"applies", "records"} => next <= mgRelease[p])
          /\ (there \in {"unlocks", "checks", "running"} => next > mgRelease[p])
      BY <2>1, OnwardIsPlaced
    <2>3. mgAt' = [mgAt EXCEPT ![p] = there] /\ mgNext' = [mgNext EXCEPT ![p] = next] /\ 1 .. next - 1 \subseteq mgVersions
          /\ mgAt[p] # "records"
      BY <1>1, <1>2, <1>4
    <2> HIDE DEF next, there
    <2> QED BY <1>1, <2>1, <2>2, <2>3, QuietMigration
  <1> QED BY <1>1, <1>3, <1>4

\* A server that is past its scripts moves on, or one that has not read yet.
LEMMA MovingOnKeeps ==
  ASSUME MigrationInv, NEW p \in MgServers, NEW there \in Places, mgAt' = [mgAt EXCEPT ![p] = there],
         \/ mgAt[p] = "locks" /\ there = "reads"
         \/ mgAt[p] \in {"unlocks", "checks", "running"} /\ there \in {"checks", "running"},
         UNCHANGED <<mgBackend, mgSchema, mgVersions, mgCut, mgRelease, mgNext>>
  PROVE  MigrationInv'
  <1>1. mgNext' = [mgNext EXCEPT ![p] = mgNext[p]] /\ mgNext[p] \in Nat \ {0} /\ Placed(p)
    BY DEF MigrationInv, MgTypes
  <1>2. mgAt[p] # "records" /\ there \in Places \ {"records"}
    OBVIOUS
  <1>3. /\ there \in {"applies", "records", "unlocks", "checks", "running"} => 1 .. mgNext[p] - 1 \subseteq mgVersions
        /\ there \in {"applies", "records"} => mgNext[p] <= mgRelease[p]
        /\ there \in {"unlocks", "checks", "running"} => mgNext[p] > mgRelease[p]
    BY <1>1 DEF Placed
  <1> QED BY <1>1, <1>2, <1>3, QuietMigration

\* Every step of every server, of a rollback and of a crash keeps the invariant of the migrations.
LEMMA MigrationInvStep == MigrationInv /\ [MigrationsNext]_mgVars => MigrationInv'
  <1> SUFFICES ASSUME MigrationInv, [MigrationsNext]_mgVars PROVE MigrationInv'
    OBVIOUS
  <1>1. ASSUME NEW p \in MgServers, NEW r \in MgReleases, MgStart(p, r) PROVE MigrationInv'
    <2>1. /\ mgAt[p] = "down" /\ mgRelease' = [mgRelease EXCEPT ![p] = r] /\ r \in 1 .. 4
          /\ UNCHANGED <<mgBackend, mgSchema, mgVersions, mgNext, mgCut>>
      BY <1>1, MgAssumption DEF MgStart, MgMoves
    <2>2. PICK there \in {"reads", "locks", "memory"} : mgAt' = [mgAt EXCEPT ![p] = there]
      BY <1>1 DEF MgStart, MgMoves
    <2>3. MgTypes'
      BY <2>1, <2>2 DEF MigrationInv, MgTypes, Places
    <2>4. ASSUME NEW q \in MgServers PROVE Placed(q)'
      <3>1. CASE q = p
        <4>1. mgAt'[q] = there
          BY <2>2, <3>1 DEF MigrationInv, MgTypes
        <4> QED BY <4>1 DEF Placed
      <3>2. CASE q # p
        <4>1. mgAt'[q] = mgAt[q] /\ mgNext'[q] = mgNext[q] /\ mgRelease'[q] = mgRelease[q] /\ mgVersions' = mgVersions
          BY <2>1, <2>2, <3>2 DEF MigrationInv, MgTypes
        <4> QED BY <4>1 DEF Placed, MigrationInv
      <3> QED BY <3>1, <3>2
    <2>5. mgCut' \/ (Made' /\ Unmade')
      <3>1. mgAt'[p] # "records" /\ \A q \in MgServers \ {p} : mgAt'[q] = mgAt[q] /\ mgNext'[q] = mgNext[q]
        BY <2>1, <2>2 DEF MigrationInv, MgTypes
      <3> QED BY <2>1, <3>1, SchemaStays
    <2> QED BY <2>1, <2>3, <2>4, <2>5 DEF MigrationInv
  <1>2. ASSUME NEW p \in MgServers, MgTakeLock(p) PROVE MigrationInv'
    <2>1. "reads" \in Places
      BY DEF Places
    <2> QED BY <1>2, <2>1, MovingOnKeeps DEF MgTakeLock, MgMoves
  <1>3. ASSUME NEW p \in MgServers, MgRead(p) PROVE MigrationInv'
    BY <1>3, ReadingKeeps
  <1>4. ASSUME NEW p \in MgServers, MgApplySqlite(p) PROVE MigrationInv'
    <2>1. mgAt[p] = "applies" /\ UNCHANGED <<mgBackend, mgRelease, mgCut>>
      BY <1>4 DEF MgApplySqlite
    <2>2. \/ /\ mgSchema' = mgSchema \cup Makes(mgNext[p]) /\ mgVersions' = mgVersions \cup {mgNext[p]}
             /\ mgNext' = [mgNext EXCEPT ![p] = mgNext[p] + 1] /\ mgAt' = [mgAt EXCEPT ![p] = Onward(p, mgNext[p] + 1)]
          \/ mgAt' = [mgAt EXCEPT ![p] = "down"] /\ UNCHANGED <<mgSchema, mgVersions, mgNext>>
      BY <1>4 DEF MgApplySqlite, GoesDown, MgMoves
    <2>3. mgAt[p] # "records" /\ mgAt[p] \in {"applies", "records"}
      BY <2>1
    <2> QED BY <2>1, <2>2, <2>3, AppliedKeeps, GoingDownKeeps
  <1>5. ASSUME NEW p \in MgServers, MgApplyPostgres(p) PROVE MigrationInv'
    <2>1. mgAt[p] = "applies" /\ mgAt[p] # "records" /\ UNCHANGED <<mgBackend, mgVersions, mgRelease, mgNext, mgCut>>
      BY <1>5 DEF MgApplyPostgres
    <2>2. \/ mgSchema' = mgSchema \cup Makes(mgNext[p]) /\ mgAt' = [mgAt EXCEPT ![p] = "records"]
          \/ mgAt' = [mgAt EXCEPT ![p] = "down"] /\ UNCHANGED mgSchema
      BY <1>5 DEF MgApplyPostgres, GoesDown, MgMoves
    <2> QED BY <2>1, <2>2, ScriptKeeps, GoingDownKeeps
  <1>6. ASSUME NEW p \in MgServers, MgRecord(p) PROVE MigrationInv'
    <2>1. mgAt[p] = "records" /\ mgAt[p] \in {"applies", "records"} /\ UNCHANGED <<mgBackend, mgSchema, mgRelease>>
      BY <1>6 DEF MgRecord, GoesDown, MgMoves
    <2>2. CASE /\ mgVersions' = mgVersions \cup {mgNext[p]} /\ mgNext' = [mgNext EXCEPT ![p] = mgNext[p] + 1]
               /\ mgAt' = [mgAt EXCEPT ![p] = Onward(p, mgNext[p] + 1)] /\ UNCHANGED mgCut
      <3>1. mgAt[p] # "applies"
        BY <2>1
      <3> QED BY <2>1, <2>2, <3>1, AppliedKeeps
    <2>3. CASE mgAt' = [mgAt EXCEPT ![p] = "down"] /\ mgCut' = TRUE /\ UNCHANGED <<mgVersions, mgNext>>
      BY <2>1, <2>3, CutKeeps
    <2> QED BY <1>6, <2>2, <2>3 DEF MgRecord, GoesDown, MgMoves
  <1>7. ASSUME NEW p \in MgServers, MgUnlock(p) PROVE MigrationInv'
    <2>1. "checks" \in Places
      BY DEF Places
    <2> QED BY <1>7, <2>1, MovingOnKeeps DEF MgUnlock, MgMoves
  <1>8. ASSUME NEW p \in MgServers, MgReap(p) PROVE MigrationInv'
    <2>1. "running" \in Places /\ mgAt' = [mgAt EXCEPT ![p] = "running"]
      BY <1>8 DEF Places, MgReap, MigrationInv, MgTypes
    <2> QED BY <1>8, <2>1, MovingOnKeeps DEF MgReap
  <1>9. ASSUME NEW p \in MgServers, MgCheck(p) PROVE MigrationInv'
    <2>1. mgAt[p] = "checks" /\ mgAt[p] # "records" /\ UNCHANGED <<mgBackend, mgSchema, mgVersions, mgRelease, mgNext, mgCut>>
      BY <1>9 DEF MgCheck, GoesDown, MgMoves
    <2>2. mgAt' = [mgAt EXCEPT ![p] = "down"] \/ mgAt' = [mgAt EXCEPT ![p] = "running"]
      BY <1>9 DEF MgCheck, GoesDown, MgMoves
    <2>3. "running" \in Places
      BY DEF Places
    <2> QED BY <2>1, <2>2, <2>3, MovingOnKeeps, GoingDownKeeps
  <1>10. ASSUME NEW p \in MgServers, MgStop(p) PROVE MigrationInv'
    <2>1. mgAt' = [mgAt EXCEPT ![p] = "down"] /\ UNCHANGED <<mgBackend, mgSchema, mgVersions, mgRelease, mgNext>>
          /\ mgCut' = (mgCut \/ mgAt[p] = "records")
      BY <1>10 DEF MgStop, GoesDown, MgMoves
    <2>2. CASE mgAt[p] = "records"
      <3>1. mgCut' = TRUE
        BY <2>1, <2>2, Zenon
      <3> QED BY <2>1, <3>1, CutKeeps
    <2>3. CASE mgAt[p] # "records"
      <3>1. mgCut \in BOOLEAN
        BY DEF MigrationInv, MgTypes
      <3>2. mgCut' = mgCut
        BY <2>1, <2>3, <3>1
      <3> QED BY <2>1, <2>3, <3>2, GoingDownKeeps
    <2> QED BY <2>2, <2>3
  <1>11. CASE MgRollback
    BY <1>11, RollbackKeeps
  <1>12. CASE UNCHANGED mgVars
    BY <1>12 DEF mgVars, MigrationInv, MgTypes, Placed, Made, Unmade, Makes, Marks, Once, OnceSqlite, OncePostgres
  <1> QED BY <1>1, <1>2, <1>3, <1>4, <1>5, <1>6, <1>7, <1>8, <1>9, <1>10, <1>11, <1>12 DEF MigrationsNext

\* The release that started last is one of the releases.
LEMMA LargestRelease == Max(MgReleases) \in MgReleases
  <1>1. MgReleases \subseteq 1 .. 4 /\ MgReleases # {}
    BY MgAssumption
  <1>2. \E m \in MgReleases : \A y \in MgReleases : m >= y
    <2>1. \A y \in MgReleases : y \in Nat /\ (y = 1 \/ y = 2 \/ y = 3 \/ y = 4)
      BY <1>1
    <2>2. CASE 4 \in MgReleases
      <3>1. \A y \in MgReleases : 4 >= y
        BY <2>1
      <3> QED BY <2>2, <3>1
    <2>3. CASE 4 \notin MgReleases /\ 3 \in MgReleases
      <3>1. \A y \in MgReleases : 3 >= y
        BY <2>1, <2>3
      <3> QED BY <2>3, <3>1
    <2>4. CASE 4 \notin MgReleases /\ 3 \notin MgReleases /\ 2 \in MgReleases
      <3>1. \A y \in MgReleases : 2 >= y
        BY <2>1, <2>4
      <3> QED BY <2>4, <3>1
    <2>5. CASE 4 \notin MgReleases /\ 3 \notin MgReleases /\ 2 \notin MgReleases
      <3>1. \A y \in MgReleases : 1 >= y
        BY <2>1, <2>5
      <3>2. 1 \in MgReleases
        BY <1>1, <2>1, <2>5
      <3> QED BY <3>1, <3>2
    <2> QED BY <2>2, <2>3, <2>4, <2>5
  <1> QED BY <1>2 DEF Max

\* A database that no server has seen.
LEMMA MigrationStart == MigrationsInit => MigrationInv
  <1> SUFFICES ASSUME MigrationsInit PROVE MigrationInv
    OBVIOUS
  <1>1. MgTypes
    <2>1. MgReleases \subseteq 1 .. 4 /\ MgReleases # {}
      BY MgAssumption
    <2>2. Max(MgReleases) \in MgReleases
      BY LargestRelease
    <2>3. mgCut \in BOOLEAN
      <3>1. mgCut = FALSE
        BY DEF MigrationsInit
      <3> QED BY <3>1, Zenon
    <2>4. "down" \in Places /\ 1 \in Nat \ {0} /\ Max(MgReleases) \in 1 .. 4
      <3>1. "down" \in Places
        BY DEF Places
      <3>2. PICK m \in MgReleases : m = Max(MgReleases)
        BY <2>2
      <3>3. m \in 1 .. 4
        BY <2>1
      <3> QED BY <3>1, <3>2, <3>3
    <2>5. mgAt \in [MgServers -> Places] /\ mgNext \in [MgServers -> Nat \ {0}] /\ mgRelease \in [MgServers -> 1 .. 4]
      BY <2>4 DEF MigrationsInit
    <2>6. mgBackend \in {"sqlite", "postgres"}
      BY DEF MigrationsInit
    <2> QED BY <2>3, <2>5, <2>6 DEF MgTypes
  <1>2. mgVersions = 1 .. 0 /\ 0 \in 0 .. 4
    BY DEF MigrationsInit
  <1>3. \A p \in MgServers : Placed(p)
    BY DEF MigrationsInit, Placed
  <1>4. Made /\ Unmade
    BY DEF MigrationsInit, Made, Unmade
  <1> QED BY <1>1, <1>2, <1>3, <1>4 DEF MigrationInv

\* A server that runs finds in the schema what the scripts of its release make
\* (storage/migrations): SchemaServesItsVersion, however many servers start at once, go
\* down between a script and its record, and are rolled back, on either backend.
THEOREM SchemaServes == MgSpec => []SchemaServesItsVersion
  <1>2. MigrationInv => SchemaServesItsVersion
    <2> SUFFICES ASSUME MigrationInv, ~mgCut PROVE SchemaServesItsVersion
      BY DEF SchemaServesItsVersion
    <2>1. Made /\ Unmade
      BY DEF MigrationInv
    <2>2. PICK n \in 0 .. 4 : mgVersions = 1 .. n
      BY DEF MigrationInv
    <2>3. SchemaVersion = n
      BY <2>2, LargestVersion
    <2>4. ASSUME NEW p \in MgServers, mgAt[p] = "running"
          PROVE  UNION {Makes(v) : v \in 1 .. mgRelease[p]} \subseteq mgSchema
      <3>1. mgNext[p] \in Nat /\ mgRelease[p] \in 1 .. 4 /\ mgNext[p] > mgRelease[p] /\ 1 .. mgNext[p] - 1 \subseteq mgVersions
        BY <2>4 DEF MigrationInv, MgTypes, Placed
      <3>2. \A v \in 1 .. mgRelease[p] : v \in mgVersions
        BY <3>1
      <3> QED BY <2>1, <3>2 DEF Made
    <2>5. ASSUME ~\E p \in MgServers : mgAt[p] = "records"
          PROVE  /\ UNION {Makes(v) : v \in 1 .. SchemaVersion} \subseteq mgSchema
                 /\ SchemaVersion = 0 => ~HasTables
                 /\ \A v \in SchemaVersion + 1 .. 4 : Once(v) \cap mgSchema = {}
      <3>1. UNION {Makes(v) : v \in 1 .. SchemaVersion} \subseteq mgSchema
        BY <2>1, <2>2, <2>3 DEF Made
      <3>2. \A v \in n + 1 .. 4 : v \in (1 .. 4) \ mgVersions
        BY <2>2
      <3>3. \A v \in n + 1 .. 4 : Marks(v) \cap mgSchema = {}
        BY <2>1, <2>5, <3>2 DEF Unmade
      <3>4. SchemaVersion = 0 => ~HasTables
        <4>1. n = 0 => 1 \in n + 1 .. 4
          OBVIOUS
        <4>2. Marks(1) = V1
          BY DEF Marks
        <4> QED BY <2>3, <3>3, <4>1, <4>2 DEF HasTables
      <3>5. \A v \in 1 .. 4 : Once(v) \subseteq Marks(v)
        <4>1. Once(1) = {}
          BY DEF Once, OnceSqlite, OncePostgres
        <4> QED BY <4>1 DEF Marks
      <3> QED BY <2>2, <2>3, <3>1, <3>2, <3>3, <3>4, <3>5
    <2> QED BY <2>4, <2>5 DEF SchemaServesItsVersion
  <1> QED BY <1>2, MigrationStart, MigrationInvStep, PTL DEF MgSpec

\* The schema is made of what the scripts make; the lock, the releases, the next
\* scripts and the bounds.
AllMade == UNION {Makes(v) : v \in 1 .. 4}
MgRest ==
  /\ mgSchema \subseteq AllMade /\ mgLock \in MgServers \cup {"nobody"}
  /\ mgRelease \in [MgServers -> MgReleases] /\ mgNext \in [MgServers -> 1 .. 5]
  /\ mgStarts \in 0 .. MaxMgStarts /\ mgFaults \in 0 .. MaxMgFaults

\* A step of one server that moves it, and may use up a fault.
LEMMA MovingKeepsRest ==
  ASSUME MgRest, NEW p \in MgServers, mgSchema' \subseteq mgSchema \cup AllMade, mgLock' \in {mgLock, p, "nobody"},
         mgRelease' = mgRelease, mgNext' = mgNext \/ (\E n \in 1 .. 5 : mgNext' = [mgNext EXCEPT ![p] = n]),
         mgStarts' = mgStarts, mgFaults' = mgFaults \/ MgFault
  PROVE  MgRest'
  <1>1. mgNext' \in [MgServers -> 1 .. 5]
    BY DEF MgRest
  <1>2. mgFaults' \in 0 .. MaxMgFaults
    BY MgAssumption DEF MgRest, MgFault
  <1>3. mgSchema' \subseteq AllMade
    BY DEF MgRest
  <1>4. AllMade' = AllMade
    BY DEF AllMade, Makes, V1, V2Tables, KeyColumns, V3, V4
  <1>5. mgSchema' \subseteq AllMade' /\ mgLock' \in MgServers \cup {"nobody"} /\ mgRelease' \in [MgServers -> MgReleases]
        /\ mgStarts' \in 0 .. MaxMgStarts
    BY <1>3, <1>4 DEF MgRest
  <1> QED BY <1>1, <1>2, <1>5 DEF MgRest

\* The lock of a process that ends is free.
LEMMA DownFrees == ASSUME NEW p, NEW here, GoesDown(p, here) PROVE mgLock' \in {mgLock, p, "nobody"}
  BY DEF GoesDown

\* Every step of a server and of a rollback keeps the rest.
LEMMA MgRestStep == MigrationInv /\ MgRest /\ [MigrationsNext]_mgVars => MgRest'
  <1> SUFFICES ASSUME MigrationInv, MgRest, [MigrationsNext]_mgVars PROVE MgRest'
    OBVIOUS
  <1>0. /\ SchemaVersion \in 0 .. 4 /\ \A v \in 1 .. 4 : Makes(v) \subseteq AllMade
        /\ \A p \in MgServers : mgAt[p] \in {"applies", "records"} => mgNext[p] \in 1 .. 4
    <2>1. PICK n \in 0 .. 4 : mgVersions = 1 .. n
      BY DEF MigrationInv
    <2>2. SchemaVersion = n
      BY <2>1, LargestVersion
    <2>3. \A p \in MgServers : mgAt[p] \in {"applies", "records"} => mgNext[p] \in 1 .. 4
      <3> SUFFICES ASSUME NEW p \in MgServers, mgAt[p] \in {"applies", "records"} PROVE mgNext[p] \in 1 .. 4
        OBVIOUS
      <3>1. mgNext[p] \in 1 .. 5 /\ mgRelease[p] \in 1 .. 4 /\ mgNext[p] <= mgRelease[p]
        BY DEF MigrationInv, MgTypes, Placed, MgRest
      <3> QED BY <3>1
    <2> QED BY <2>2, <2>3 DEF AllMade
  <1>1. CASE \E p \in MgServers : \E r \in MgReleases : MgStart(p, r)
    <2> PICK p \in MgServers, r \in MgReleases : MgStart(p, r)
      BY <1>1
    <2>1. mgRelease' \in [MgServers -> MgReleases] /\ UNCHANGED <<mgSchema, mgLock, mgNext>>
      BY DEF MgStart, MgRest
    <2>2. mgStarts' \in 0 .. MaxMgStarts /\ mgFaults' \in 0 .. MaxMgFaults
      BY MgAssumption DEF MgStart, MgFault, MgRest
    <2>3. AllMade' = AllMade
      BY DEF AllMade, Makes, V1, V2Tables, KeyColumns, V3, V4
    <2> QED BY <2>1, <2>2, <2>3 DEF MgRest
  <1>2. CASE \E p \in MgServers : MgTakeLock(p)
    <2> PICK p \in MgServers : MgTakeLock(p)
      BY <1>2
    <2>1. mgLock' \in {mgLock, p, "nobody"} /\ (mgFaults' = mgFaults \/ MgFault) /\ UNCHANGED <<mgSchema, mgRelease, mgNext, mgStarts>>
      BY DEF MgTakeLock
    <2> QED BY <2>1, MovingKeepsRest
  <1>3. CASE \E p \in MgServers : MgRead(p)
    <2> PICK p \in MgServers : MgRead(p)
      BY <1>3
    <2>1. (mgFaults' = mgFaults \/ MgFault) /\ UNCHANGED <<mgSchema, mgRelease, mgStarts>>
      BY DEF MgRead
    <2>2. mgLock' \in {mgLock, p, "nobody"}
      BY DownFrees DEF MgRead
    <2>3. mgNext' = mgNext \/ \E current \in {SchemaVersion, 0} : mgNext' = [mgNext EXCEPT ![p] = current + 1]
      BY DEF MgRead
    <2>4. \A current \in {SchemaVersion, 0} : current + 1 \in 1 .. 5
      BY <1>0
    <2>5. mgNext' = mgNext \/ \E n \in 1 .. 5 : mgNext' = [mgNext EXCEPT ![p] = n]
      BY <2>3, <2>4
    <2> QED BY <2>1, <2>2, <2>5, MovingKeepsRest
  <1>4. CASE \E p \in MgServers : MgApplySqlite(p)
    <2> PICK p \in MgServers : MgApplySqlite(p)
      BY <1>4
    <2>1. mgNext[p] \in 1 .. 4 /\ mgNext[p] + 1 \in 1 .. 5
      <3>1. mgNext[p] \in 1 .. 4
        BY <1>0 DEF MgApplySqlite
      <3> QED BY <3>1
    <2>2. (mgFaults' = mgFaults \/ MgFault) /\ mgRelease' = mgRelease /\ mgStarts' = mgStarts
      BY DEF MgApplySqlite
    <2>3. mgSchema' = mgSchema \/ mgSchema' = mgSchema \cup Makes(mgNext[p])
      BY DEF MgApplySqlite
    <2>4. mgLock' \in {mgLock, p, "nobody"}
      BY DownFrees DEF MgApplySqlite
    <2>5. mgNext' = mgNext \/ mgNext' = [mgNext EXCEPT ![p] = mgNext[p] + 1]
      BY DEF MgApplySqlite
    <2> QED BY <1>0, <2>1, <2>2, <2>3, <2>4, <2>5, MovingKeepsRest
  <1>5. CASE \E p \in MgServers : MgApplyPostgres(p)
    <2> PICK p \in MgServers : MgApplyPostgres(p)
      BY <1>5
    <2>1. mgNext[p] \in 1 .. 4
      BY <1>0 DEF MgApplyPostgres
    <2>2. (mgFaults' = mgFaults \/ MgFault) /\ UNCHANGED <<mgRelease, mgNext, mgStarts>>
      BY DEF MgApplyPostgres
    <2>3. mgSchema' = mgSchema \/ mgSchema' = mgSchema \cup Makes(mgNext[p])
      BY DEF MgApplyPostgres
    <2>4. mgLock' \in {mgLock, p, "nobody"}
      BY DownFrees DEF MgApplyPostgres
    <2> QED BY <1>0, <2>1, <2>2, <2>3, <2>4, MovingKeepsRest
  <1>6. CASE \E p \in MgServers : MgRecord(p)
    <2> PICK p \in MgServers : MgRecord(p)
      BY <1>6
    <2>1. mgNext[p] \in 1 .. 4 /\ mgNext[p] + 1 \in 1 .. 5
      <3>1. mgAt[p] = "records"
        BY DEF MgRecord, MgMoves, GoesDown
      <3> QED BY <1>0, <3>1
    <2>2. (mgFaults' = mgFaults \/ MgFault) /\ UNCHANGED <<mgSchema, mgRelease, mgStarts>>
      BY DEF MgRecord
    <2>4. mgLock' \in {mgLock, p, "nobody"}
      BY DownFrees DEF MgRecord
    <2>5. mgNext' = mgNext \/ mgNext' = [mgNext EXCEPT ![p] = mgNext[p] + 1]
      BY DEF MgRecord
    <2> QED BY <2>1, <2>2, <2>4, <2>5, MovingKeepsRest
  <1>7. CASE \E p \in MgServers : MgUnlock(p) \/ MgReap(p)
    <2> PICK p \in MgServers : MgUnlock(p) \/ MgReap(p)
      BY <1>7
    <2>1. mgLock' \in {mgLock, p, "nobody"} /\ UNCHANGED <<mgSchema, mgRelease, mgNext, mgStarts, mgFaults>>
      BY DEF MgUnlock, MgReap
    <2> QED BY <2>1, MovingKeepsRest
  <1>8. CASE \E p \in MgServers : MgCheck(p)
    <2> PICK p \in MgServers : MgCheck(p)
      BY <1>8
    <2>1. (mgFaults' = mgFaults \/ MgFault) /\ UNCHANGED <<mgSchema, mgRelease, mgNext, mgStarts>>
      BY DEF MgCheck
    <2>2. mgLock' \in {mgLock, p, "nobody"}
      BY DownFrees DEF MgCheck
    <2> QED BY <2>1, <2>2, MovingKeepsRest
  <1>9. CASE \E p \in MgServers : MgStop(p)
    <2> PICK p \in MgServers : MgStop(p)
      BY <1>9
    <2>1. (mgFaults' = mgFaults \/ MgFault) /\ UNCHANGED <<mgSchema, mgRelease, mgNext, mgStarts>>
      BY DEF MgStop
    <2>2. mgLock' \in {mgLock, p, "nobody"}
      BY DownFrees DEF MgStop
    <2> QED BY <2>1, <2>2, MovingKeepsRest
  <1>10. CASE MgRollback
    <2>1. (mgFaults' = mgFaults \/ MgFault) /\ UNCHANGED <<mgLock, mgRelease, mgNext, mgStarts>> /\ mgSchema' \subseteq mgSchema
      BY <1>10 DEF MgRollback
    <2>2. AllMade' = AllMade
      BY DEF AllMade, Makes, V1, V2Tables, KeyColumns, V3, V4
    <2>3. mgFaults' \in 0 .. MaxMgFaults
      BY <2>1, MgAssumption DEF MgRest, MgFault
    <2> QED BY <2>1, <2>2, <2>3 DEF MgRest
  <1>11. CASE UNCHANGED mgVars
    <2>1. AllMade' = AllMade
      BY DEF AllMade, Makes, V1, V2Tables, KeyColumns, V3, V4
    <2> QED BY <1>11, <2>1 DEF mgVars, MgRest
  <1> QED BY <1>1, <1>2, <1>3, <1>4, <1>5, <1>6, <1>7, <1>8, <1>9, <1>10, <1>11 DEF MigrationsNext

\* The types of the variables of the migrations: MigrationsTypeOK.
LEMMA MgTypesHold == MgSpec => []MigrationsTypeOK
  <1>2. MigrationsInit => MgRest
    BY LargestRelease, MgAssumption DEF MigrationsInit, MgRest
  <1>3. MigrationInv /\ MgRest => MigrationsTypeOK
    <2> SUFFICES ASSUME MigrationInv, MgRest PROVE MigrationsTypeOK
      OBVIOUS
    <2>1. mgVersions \subseteq 1 .. 4
      BY DEF MigrationInv
    <2>2. mgAt \in [MgServers -> Places] /\ mgBackend \in {"sqlite", "postgres"} /\ mgCut \in BOOLEAN
      BY DEF MigrationInv, MgTypes
    <2> QED BY <2>1, <2>2 DEF MgRest, AllMade, Places, MigrationsTypeOK
  <1> QED BY <1>2, <1>3, MigrationStart, MigrationInvStep, MgRestStep, PTL DEF MgSpec

-----------------------------------------------------------------------------
(* Plugin directories and the executable (PluginStore, Updater).             *)
PluginSpec == PluginStoreInit /\ [][PluginStoreNext]_plVars

\* What an operation that has come so far can rely on.
StagedIsWhole == plOp.at \in {"place", "swap"} => Whole(plStage)
OldIsAside == plOp.at = "swap" => Whole(plOld[plOp.name])
NewIsInPlace == plOp.at = "clean" => Whole(plDir[plOp.name])
OperationOK ==
  /\ plOp.at # "idle" => plOp.name \in PlPlugins
  /\ plOp.at \in {"fetch", "place", "swap", "clean"} =>
       plOp.version \in 1 .. MaxPlVersion /\ plOp.key \in PlKeys \cup {"none"} /\ plOp.file \in BOOLEAN
StoreInv ==
  /\ PluginStoreTypeOK /\ OperationOK /\ StagedIsWhole /\ OldIsAside /\ NewIsInPlace /\ PluginIsNeverLost

\* A package that is whole has been unpacked from some release.
LEMMA Packages ==
  ASSUME NEW d \in Directory
  PROVE  /\ Whole(d) => \E v \in 1 .. MaxPlVersion, k \in PlKeys \cup {"none"}, e \in BOOLEAN, f \in BOOLEAN : d = Package(v, k, e, f)
         /\ ~Whole(NoPackage) /\ ~Whole(Broken) /\ NoPackage \in Directory /\ Broken \in Directory
  BY SMT, PlAssumption DEF Directory, Whole, NoPackage, Broken

\* What an installation unpacks is a directory with a whole package.
LEMMA NewPackage ==
  ASSUME NEW v \in 1 .. MaxPlVersion, NEW k \in PlKeys \cup {"none"}, NEW e \in BOOLEAN, NEW f \in BOOLEAN
  PROVE  Package(v, k, e, f) \in Directory /\ Whole(Package(v, k, e, f))
  <1>1. Package(v, k, e, f).version > 0
    BY PlAssumption DEF Package
  <1> QED BY <1>1 DEF Directory, Whole

\* Enabling and disabling.
LEMMA ManifestChanged ==
  ASSUME NEW d \in Directory, Whole(d), NEW b \in BOOLEAN
  PROVE  [d EXCEPT !.enabled = b] \in Directory /\ Whole([d EXCEPT !.enabled = b])
  <1>1. PICK v \in 1 .. MaxPlVersion, k \in PlKeys \cup {"none"}, e \in BOOLEAN, f \in BOOLEAN : d = Package(v, k, e, f)
    BY Packages
  <1>2. [d EXCEPT !.enabled = b] = Package(v, k, b, f)
    BY <1>1 DEF Package
  <1> QED BY <1>2, NewPackage

\* The store of a fresh installation.
LEMMA StoreInvInit == PluginStoreInit => StoreInv
  BY Packages DEF PluginStoreInit, StoreInv, PluginStoreTypeOK, OperationOK, StagedIsWhole, OldIsAside, NewIsInPlace, PluginIsNeverLost, NoOp, Directory

\* Every step of an operation, of a crash and of a restart keeps the invariant of the plugin store.
LEMMA StoreInvStep == StoreInv /\ [PluginStoreNext]_plVars => StoreInv'
  <1> SUFFICES ASSUME StoreInv, [PluginStoreNext]_plVars PROVE StoreInv'
    OBVIOUS
  <1> USE DEF StoreInv, PluginStoreTypeOK, OperationOK, StagedIsWhole, OldIsAside, NewIsInPlace, PluginIsNeverLost
  <1>0. NoPackage \in Directory /\ Broken \in Directory /\ ~Whole(NoPackage) /\ ~Whole(Broken)
    BY Packages DEF Directory
  <1>1. CASE PlInstall
    BY <1>1 DEF PlInstall, Requests, Starts, Files
  <1>2. CASE PlUpdate
    BY <1>2 DEF PlUpdate, Requests, Starts, Files
  <1>3. CASE PlFetch
    <2>1. CASE plOp' = NoOp /\ plStage' \in {NoPackage, Broken}
      BY <1>0, <1>3, <2>1 DEF PlFetch, NoOp
    <2>2. CASE plOp' = [plOp EXCEPT !.at = "place"] /\ \E manifest \in {TRUE, ~plOp.file} : plStage' = Package(plOp.version, plOp.key, TRUE, manifest)
      <3>1. plStage' \in Directory /\ Whole(plStage')
        BY <1>3, <2>2, NewPackage DEF PlFetch
      <3>2. plOp'.at = "place" /\ plOp'.name = plOp.name /\ plOp'.version = plOp.version /\ plOp'.key = plOp.key /\ plOp'.file = plOp.file
        BY <1>3, <2>2 DEF PlFetch
      <3> QED BY <1>3, <3>1, <3>2 DEF PlFetch
    <2> QED BY <1>3, <2>1, <2>2 DEF PlFetch
  <1>4. CASE PlAside
    <2>1. plOp.name \in PlPlugins /\ Whole(plDir[plOp.name])
      BY <1>4 DEF PlAside
    <2>2. CASE /\ plOld' = [plOld EXCEPT ![plOp.name] = plDir[plOp.name]] /\ plDir' = [plDir EXCEPT ![plOp.name] = NoPackage]
               /\ plOp' = [plOp EXCEPT !.at = "swap"] /\ UNCHANGED <<plStage, plFaults>>
      <3>1. plDir' \in [PlPlugins -> Directory] /\ plOld' \in [PlPlugins -> Directory]
        BY <1>0, <2>1, <2>2
      <3>2. /\ plOp'.at = "swap" /\ plOp'.name = plOp.name /\ plOp'.version = plOp.version
            /\ plOp'.key = plOp.key /\ plOp'.file = plOp.file
        BY <1>4, <2>2 DEF PlAside
      <3>3. Whole(plOld'[plOp.name]) /\ \A p \in PlPlugins \ {plOp.name} : plOld'[p] = plOld[p] /\ plDir'[p] = plDir[p]
        BY <2>1, <2>2
      <3> QED BY <1>4, <2>2, <3>1, <3>2, <3>3 DEF PlAside
    <2>3. CASE PlFault /\ plOld' = [plOld EXCEPT ![plOp.name] = NoPackage] /\ plOp' = NoOp /\ plStage' = NoPackage /\ UNCHANGED plDir
      <3>1. plOld' \in [PlPlugins -> Directory]
        BY <1>0, <2>1, <2>3
      <3> QED BY <1>0, <1>4, <2>1, <2>3, <3>1 DEF PlAside, NoOp
    <2> QED BY <1>4, <2>2, <2>3 DEF PlAside
  <1>5. CASE PlSwap
    <2>1. plOp.name \in PlPlugins /\ Whole(plStage)
      BY <1>5 DEF PlSwap
    <2>2. CASE /\ plDir' = [plDir EXCEPT ![plOp.name] = plStage] /\ plStage' = NoPackage /\ plWanted' = plWanted \cup {plOp.name}
               /\ plOp' = IF plOp.at = "swap" THEN [plOp EXCEPT !.at = "clean"] ELSE NoOp
               /\ UNCHANGED <<plOld, plFaults>>
      <3>1. plDir' \in [PlPlugins -> Directory] /\ Whole(plDir'[plOp.name])
        BY <2>1, <2>2
      <3>2. \A p \in PlPlugins \ {plOp.name} : plDir'[p] = plDir[p]
        BY <2>2
      <3>3. CASE plOp.at = "swap"
        <4>1. /\ plOp'.at = "clean" /\ plOp'.name = plOp.name /\ plOp'.version = plOp.version
              /\ plOp'.key = plOp.key /\ plOp'.file = plOp.file
          BY <2>2, <3>3
        <4> QED BY <1>0, <1>5, <2>1, <2>2, <3>1, <3>2, <4>1 DEF PlSwap
      <3>4. CASE plOp.at # "swap"
        BY <1>0, <1>5, <2>1, <2>2, <3>1, <3>2, <3>4 DEF PlSwap, NoOp
      <3> QED BY <3>3, <3>4
    <2>3. CASE /\ plOp' = NoOp /\ plStage' = NoPackage /\ UNCHANGED plWanted
               /\ \/ plOp.at = "swap" /\ plDir' = [plDir EXCEPT ![plOp.name] = plOld[plOp.name]] /\ plOld' = [plOld EXCEPT ![plOp.name] = NoPackage]
                  \/ UNCHANGED <<plDir, plOld>>
      <3>1. plDir' \in [PlPlugins -> Directory] /\ plOld' \in [PlPlugins -> Directory]
        BY <1>0, <2>1, <2>3
      <3>2. PluginIsNeverLost'
        BY <2>1, <2>3
      <3> QED BY <1>0, <1>5, <2>3, <3>1, <3>2 DEF PlSwap, NoOp
    <2> QED BY <1>5, <2>2, <2>3 DEF PlSwap
  <1>6. CASE PlClean
    BY <1>0, <1>6 DEF PlClean, NoOp
  <1>7. CASE PlUninstall
    BY <1>0, <1>7 DEF PlUninstall, Starts, StopAdapter, NoOp
  <1>8. CASE PlSetEnabled
    <2>1. PICK p \in PlPlugins, enabled \in BOOLEAN :
            Whole(plDir[p]) /\ Starts(NoOp) /\ plDir' = [plDir EXCEPT ![p] = [plDir[p] EXCEPT !.enabled = enabled]]
      BY <1>8 DEF PlSetEnabled
    <2>2. plDir'[p] \in Directory /\ Whole(plDir'[p]) /\ plDir' \in [PlPlugins -> Directory]
      BY <2>1, ManifestChanged
    <2>3. UNCHANGED <<plOld, plStage, plStrict, plTrust, plUp, plWanted>> /\ plLoaded' \subseteq plLoaded /\ plOp' = NoOp
      BY <1>8, <2>1 DEF PlSetEnabled, StopAdapter, Starts
    <2> QED BY <2>1, <2>2, <2>3 DEF NoOp
  <1>9. CASE PlTrust
    BY <1>9 DEF PlTrust, Starts, NoOp, Files
  <1>10. CASE PlKill
    BY <1>10 DEF PlKill, NoOp, Files
  <1>11. CASE PlRestart
    BY <1>11 DEF PlRestart, Files
  <1>12. CASE UNCHANGED plVars
    BY <1>12 DEF plVars
  <1> QED BY <1>1, <1>2, <1>3, <1>4, <1>5, <1>6, <1>7, <1>8, <1>9, <1>10, <1>11, <1>12 DEF PluginStoreNext

\* A plugin that was installed stays on disk whole, in its place or set aside, at
\* every step of an update that fails or is cut short (plugin/install.rs), until it
\* is uninstalled: PluginIsNeverLost for every set of plugins and keys and every bound.
THEOREM PluginsAreKept == PluginSpec => []PluginIsNeverLost
  <1>1. StoreInv => PluginIsNeverLost
    BY DEF StoreInv
  <1> QED BY <1>1, StoreInvInit, StoreInvStep, PTL DEF PluginSpec

\* The types of the store of plugins are part of its invariant: PluginStoreTypeOK.
LEMMA StoreTypes == PluginSpec => []PluginStoreTypeOK
  <1>1. StoreInv => PluginStoreTypeOK
    BY DEF StoreInv
  <1> QED BY <1>1, StoreInvInit, StoreInvStep, PTL DEF PluginSpec

UpdaterSpec == UpdaterInit /\ [][UpdaterNext]_upVars

BackupIsWhole == upAt \in {"service", "verify", "undo"} => upFiles.backup = "old"
OldInPlace == upAt \in {"backup", "download", "replace"} => upFiles.exe = "old"
UpdaterInv ==
  /\ upFiles \in [{"exe", "stray", "backup", "download"} -> {"old", "new", "partial", "none"}]
  /\ upFiles.backup # "new" /\ upAt \in {"idle", "backup", "download", "replace", "service", "verify", "undo"}
  /\ BackupIsWhole /\ OldInPlace /\ OldExecutableIsKept

\* Every step of an update, of a rollback and of a crash keeps the invariant of the updater.
LEMMA UpdaterInvStep == UpdaterInv /\ [UpdaterNext]_upVars => UpdaterInv'
  <1> SUFFICES ASSUME UpdaterInv, [UpdaterNext]_upVars PROVE UpdaterInv'
    OBVIOUS
  <1> USE DEF UpdaterInv, BackupIsWhole, OldInPlace, OldExecutableIsKept
  <1>1. CASE UpCheck
    BY <1>1 DEF UpCheck
  <1>2. CASE UpBackup
    BY <1>2 DEF UpBackup, UpFault
  <1>3. CASE UpDownload
    BY <1>3 DEF UpDownload, UpFault, NoBackup, CleanedUp
  <1>4. CASE UpReplace
    BY <1>4 DEF UpReplace, UpFault, NoBackup, CleanedUp
  <1>5. CASE UpService
    BY <1>5 DEF UpService
  <1>6. CASE UpVerify
    BY <1>6 DEF UpVerify
  <1>7. CASE UpUndo
    BY <1>7 DEF UpUndo, UpFault, NoBackup, CleanedUp, CurrentExe, Replaced
  <1>8. CASE UpRollback
    BY <1>8 DEF UpRollback, UpFault, NoBackup, CleanedUp, Replaced
  <1>9. CASE UpKill
    BY <1>9 DEF UpKill, UpFault, CurrentExe, Replaced
  <1>10. CASE UpWrite
    BY <1>10 DEF UpWrite
  <1>11. CASE UNCHANGED upVars
    BY <1>11 DEF upVars
  <1> QED BY <1>1, <1>2, <1>3, <1>4, <1>5, <1>6, <1>7, <1>8, <1>9, <1>10, <1>11 DEF UpdaterNext

\* An installation before its first update.
LEMMA UpdaterStart == UpdaterInit => UpdaterInv
  BY DEF UpdaterInit, UpdaterInv, BackupIsWhole, OldInPlace, OldExecutableIsKept

\* The executable that ran before an update is never lost (updater/mod.rs): it is in its
\* place, or its backup is whole, wherever the update fails, is undone or is cut short,
\* but for the two ways of losing it that the property names.
THEOREM ExecutableSurvives == UpdaterSpec => []OldExecutableIsKept
  <1>2. UpdaterInv => OldExecutableIsKept
    BY DEF UpdaterInv
  <1> QED BY <1>2, UpdaterStart, UpdaterInvStep, PTL DEF UpdaterSpec

\* The rows of the database and of its backup, and the truth values.
RowsFit == upRows \in 0 .. MaxUpWrites /\ upRowsBackup \in -1 .. MaxUpWrites
ManifestOK == upManifest \in BOOLEAN
UnitOK == upUnit \in BOOLEAN

\* Every step keeps the rows within their bound.
LEMMA RowsFitStep == RowsFit /\ [UpdaterNext]_upVars => RowsFit'
  <1> SUFFICES ASSUME RowsFit, [UpdaterNext]_upVars PROVE RowsFit'
    OBVIOUS
  <1> USE DEF RowsFit
  <1>0. MaxUpWrites \in Nat /\ Restored \in 0 .. MaxUpWrites /\ -1 .. upRows \subseteq -1 .. MaxUpWrites /\ upRows \in -1 .. MaxUpWrites /\ -1 \in -1 .. MaxUpWrites
    BY UpAssumption DEF Restored
  <1>1. CASE UNCHANGED <<upRows, upRowsBackup>>
    BY <1>1
  <1>2. CASE UpBackup
    BY <1>0, <1>2 DEF UpBackup
  <1>3. CASE UpDownload \/ UpReplace
    BY <1>0, <1>3 DEF UpDownload, UpReplace, CleanedUp
  <1>4. CASE UpUndo
    BY <1>0, <1>4 DEF UpUndo, CleanedUp
  <1>5. CASE UpRollback
    BY <1>0, <1>5 DEF UpRollback, CleanedUp
  <1>6. CASE UpWrite
    BY <1>0, <1>6 DEF UpWrite
  <1>7. CASE UpCheck \/ UpService \/ UpVerify \/ UpKill \/ UNCHANGED upVars
    BY <1>1, <1>7 DEF UpCheck, UpService, UpVerify, UpKill, upVars
  <1> QED BY <1>2, <1>3, <1>4, <1>5, <1>6, <1>7 DEF UpdaterNext

\* The manifest exists or does not, the unit file names the executable or does not.
LEMMA ManifestStep == ManifestOK /\ [UpdaterNext]_upVars => ManifestOK'
  <1> SUFFICES ASSUME upManifest \in BOOLEAN, [UpdaterNext]_upVars PROVE upManifest' \in BOOLEAN
    BY DEF ManifestOK
  <1>1. upManifest' = upManifest \/ upManifest' = TRUE \/ upManifest' = FALSE
    <2>1. CASE UpBackup
      BY <2>1, Zenon DEF UpBackup
    <2>2. CASE UpDownload \/ UpReplace
      BY <2>2, Zenon DEF UpDownload, UpReplace, CleanedUp
    <2>3. CASE UpUndo \/ UpRollback
      BY <2>3, Zenon DEF UpUndo, UpRollback, CleanedUp
    <2>4. CASE UpCheck \/ UpService \/ UpVerify \/ UpKill \/ UpWrite \/ UNCHANGED upVars
      BY <2>4, Zenon DEF UpCheck, UpService, UpVerify, UpKill, UpWrite, upVars
    <2> QED BY <2>1, <2>2, <2>3, <2>4, Zenon DEF UpdaterNext
  <1> QED BY <1>1, Zenon

\* The unit file names the executable or it does not.
LEMMA UnitStep == UnitOK /\ [UpdaterNext]_upVars => UnitOK'
  <1> SUFFICES ASSUME upUnit \in BOOLEAN, [UpdaterNext]_upVars PROVE upUnit' \in BOOLEAN
    BY DEF UnitOK
  <1>1. upUnit' = upUnit \/ upUnit' = (CurrentExe = "exe")
    <2>1. CASE UpService
      <3>1. upUnit' \in {CurrentExe = "exe", upUnit}
        BY <2>1 DEF UpService
      <3> QED BY <3>1, Zenon
    <2>2. CASE UpBackup \/ UpDownload \/ UpReplace \/ UpUndo \/ UpRollback
      BY <2>2, Zenon DEF UpBackup, UpDownload, UpReplace, UpUndo, UpRollback
    <2>3. CASE UpCheck \/ UpVerify \/ UpKill \/ UpWrite \/ UNCHANGED upVars
      BY <2>3, Zenon DEF UpCheck, UpVerify, UpKill, UpWrite, upVars
    <2> QED BY <2>1, <2>2, <2>3, Zenon DEF UpdaterNext
  <1>2. (CurrentExe = "exe") \in BOOLEAN
    BY Zenon
  <1> QED BY <1>1, <1>2, Zenon

\* The types of the variables of the updater: UpdaterTypeOK.
LEMMA UpdaterTypes == UpdaterSpec => []UpdaterTypeOK
  <1>1. UpdaterInit => RowsFit
    BY UpAssumption DEF UpdaterInit, RowsFit
  <1>2. UpdaterInit => ManifestOK /\ UnitOK
    BY Zenon DEF UpdaterInit, ManifestOK, UnitOK
  <1>3. UpdaterInv /\ RowsFit /\ ManifestOK /\ UnitOK => UpdaterTypeOK
    BY Zenon DEF UpdaterInv, RowsFit, ManifestOK, UnitOK, UpdaterTypeOK
  <1> QED BY <1>1, <1>2, <1>3, UpdaterStart, UpdaterInvStep, RowsFitStep, ManifestStep, UnitStep, PTL DEF UpdaterSpec

-----------------------------------------------------------------------------
(* The process of a plugin (PluginProcess).                                  *)
PluginProcessSpec == IpInit /\ [][PluginProcessNext]_ipVars

LastProcess == Len(ipProcesses)
CallRecords == [at : {"unused", "registered", "waits", "done"}, table : Nat, process : Nat,
                result : {"none", "answer", "error", "timeout", "unwritten", "exited"}]

\* A process is spawned only when the one before it has been read to its end;
\* the instance holds the last.
EarlierWereRead == \A g \in 1 .. LastProcess - 1 : ipProcesses[g] = "read"
LastIsHeld == ipChild \in {0, LastProcess} /\ (ipChild = 0 => LastProcess = 0 \/ ipAt = "dropped")
ExitWasRead == ipExited => LastProcess > 0 /\ ipProcesses[LastProcess] = "read"
ExitedCallsAreDone == \A c \in IpCalls : ipCall[c].result = "exited" => ipCall[c].at = "done" /\ ~Alive(ipCall[c].process)
ProcessInv ==
  /\ ipProcesses \in Seq({"alive", "ended", "read"}) /\ ipGeneration \in Nat /\ ipChild \in Nat
  /\ ipCall \in [IpCalls -> CallRecords] /\ ipExited \in BOOLEAN
  /\ EarlierWereRead /\ LastIsHeld /\ ExitWasRead /\ ExitedCallsAreDone

\* A call changes, no process does.
LEMMA CallStep ==
  ASSUME ProcessInv, NEW c \in IpCalls, NEW r \in CallRecords, r.result = "exited" => r.at = "done" /\ ~Alive(r.process),
         ipCall' = [ipCall EXCEPT ![c] = r], UNCHANGED <<ipProcesses, ipChild, ipExited, ipGeneration>>,
         ipAt' = ipAt \/ ipAt # "dropped"
  PROVE  ProcessInv'
  <1>1. ipCall' \in [IpCalls -> CallRecords] /\ ipCall'[c] = r /\ \A d \in IpCalls \ {c} : ipCall'[d] = ipCall[d]
    BY DEF ProcessInv
  <1>2. ExitedCallsAreDone'
    BY <1>1 DEF ProcessInv, ExitedCallsAreDone, Alive
  <1> QED BY <1>1, <1>2 DEF ProcessInv, EarlierWereRead, LastIsHeld, ExitWasRead, LastProcess

\* A call nobody made has met no exit.
LEMMA UnusedRecord == Unused \in CallRecords /\ Unused.result # "exited"
  BY DEF Unused, CallRecords

\* A process is spawned in the place of one that was read to its end.
LEMMA SpawnsKeepsInv ==
  ASSUME ProcessInv, ipChild = 0 \/ ipExited, NoCall, ipAt # "dropped", Spawns
  PROVE  ProcessInv'
  <1> USE DEF ProcessInv
  <1>1. \A g \in 1 .. LastProcess : ipProcesses[g] = "read"
    BY DEF EarlierWereRead, LastIsHeld, ExitWasRead, LastProcess
  <1>2. \A c \in IpCalls : ipCall[c].result # "exited"
    BY DEF NoCall, ExitedCallsAreDone
  <1>3. CASE ipAt' = "dropped" /\ UNCHANGED <<ipGeneration, ipChild, ipProcesses>>
    BY <1>2, <1>3 DEF Spawns, EarlierWereRead, LastIsHeld, ExitWasRead, ExitedCallsAreDone, LastProcess
  <1>4. CASE /\ ipGeneration' = Len(ipProcesses) + 1 /\ ipChild' = ipGeneration' /\ ipAt' = "handshake"
             /\ ipProcesses' = Append([g \in DOMAIN ipProcesses |-> IF ipProcesses[g] = "alive" THEN "ended" ELSE ipProcesses[g]], "alive")
    <2>1. [g \in DOMAIN ipProcesses |-> IF ipProcesses[g] = "alive" THEN "ended" ELSE ipProcesses[g]] = ipProcesses
      BY <1>1 DEF LastProcess
    <2>2. ipProcesses' = Append(ipProcesses, "alive")
      BY <1>4, <2>1
    <2>3. ipProcesses' \in Seq({"alive", "ended", "read"}) /\ Len(ipProcesses') = LastProcess + 1 /\ \A g \in 1 .. LastProcess : ipProcesses'[g] = "read"
      BY <1>1, <2>2 DEF LastProcess
    <2>4. ipExited' = FALSE /\ ipCall' = ipCall /\ LastProcess \in Nat /\ ipGeneration' = LastProcess + 1
      BY <1>4 DEF Spawns, LastProcess
    <2>5. Len(ipProcesses') - 1 = LastProcess
      BY <2>3, <2>4
    <2>6. EarlierWereRead'
      BY <2>3, <2>5 DEF EarlierWereRead, LastProcess
    <2>7. LastIsHeld' /\ ExitWasRead' /\ ExitedCallsAreDone'
      BY <1>2, <1>4, <2>3, <2>4 DEF LastIsHeld, ExitWasRead, ExitedCallsAreDone, LastProcess
    <2>8. ipGeneration' \in Nat /\ ipChild' \in Nat /\ ipCall' \in [IpCalls -> CallRecords]
      BY <1>4, <2>4
    <2>9. ipExited' \in BOOLEAN
      BY <2>4, Zenon
    <2> HIDE DEF ProcessInv
    <2> QED BY <2>3, <2>6, <2>7, <2>8, <2>9 DEF ProcessInv
  <1> QED BY <1>3, <1>4 DEF Spawns

\* A process that lives on may end.
LEMMA EndKeepsInv ==
  ASSUME ProcessInv, NEW g \in DOMAIN ipProcesses, Alive(g), ipProcesses' = [ipProcesses EXCEPT ![g] = "ended"],
         UNCHANGED <<ipAt, ipChild, ipExited, ipGeneration, ipCall>>
  PROVE  ProcessInv'
  <1> USE DEF ProcessInv
  <1>1. g = LastProcess
    BY DEF Alive, EarlierWereRead, LastProcess
  <1>2. ipProcesses' \in Seq({"alive", "ended", "read"}) /\ Len(ipProcesses') = LastProcess /\ DOMAIN ipProcesses' = DOMAIN ipProcesses
        /\ \A h \in DOMAIN ipProcesses : h # g => ipProcesses'[h] = ipProcesses[h]
    BY DEF LastProcess
  <1>3. ~ipExited
    BY <1>1 DEF ExitWasRead, Alive
  <1>4. ExitedCallsAreDone'
    BY <1>2 DEF ExitedCallsAreDone, Alive
  <1> QED BY <1>1, <1>2, <1>3, <1>4 DEF EarlierWereRead, LastIsHeld, ExitWasRead, LastProcess

\* Every step of the calls, of the reader of a process and of its end keeps the invariant of the plugin process.
LEMMA ProcessInvStep == ProcessInv /\ [PluginProcessNext]_ipVars => ProcessInv'
  <1> SUFFICES ASSUME ProcessInv, [PluginProcessNext]_ipVars PROVE ProcessInv'
    OBVIOUS
  <1>0. ASSUME UNCHANGED <<ipProcesses, ipChild, ipExited, ipGeneration, ipCall>>, ipAt' = ipAt \/ ipAt # "dropped" PROVE ProcessInv'
    BY <1>0 DEF ProcessInv, EarlierWereRead, LastIsHeld, ExitWasRead, ExitedCallsAreDone, Alive, LastProcess
  <1>1. CASE IpStart
    BY <1>0, <1>1, SpawnsKeepsInv DEF IpStart
  <1>2. CASE IpControlEnds
    <2>1. ipAt # "dropped"
      BY <1>2 DEF IpControlEnds, ControlSteps
    <2>2. PICK c \in IpCalls : ipCall' = [ipCall EXCEPT ![c] = Unused]
      BY <1>2 DEF IpControlEnds
    <2> QED BY <1>2, <2>1, <2>2, CallStep, UnusedRecord DEF IpControlEnds
  <1>3. CASE IpLeave
    BY <1>0, <1>3 DEF IpLeave
  <1>4. CASE IpReap
    BY <1>4 DEF IpReap, ProcessInv, EarlierWereRead, LastIsHeld, ExitWasRead, ExitedCallsAreDone, Alive, LastProcess
  <1>5. CASE IpDropped
    BY <1>5, EndKeepsInv DEF IpDropped, Alive
  <1>6. CASE IpRegister
    <2>1. PICK c \in IpCalls : ipCall' = [ipCall EXCEPT ![c] = [at |-> "registered", table |-> ipGeneration, process |-> 0, result |-> "none"]]
      BY <1>6 DEF IpRegister
    <2>2. [at |-> "registered", table |-> ipGeneration, process |-> 0, result |-> "none"] \in CallRecords
      BY DEF CallRecords, ProcessInv
    <2> QED BY <1>6, <2>1, <2>2, CallStep DEF IpRegister
  <1>7. CASE IpWrite \/ IpAnswer \/ IpTimeout
    <2>1. PICK c \in IpCalls, result \in {"unwritten", "answer", "error", "timeout"} :
            /\ ipCall[c].at \in {"registered", "waits"}
            /\ ipCall' = Ends(c, result) \/ ipCall' = [ipCall EXCEPT ![c].at = "waits", ![c].process = ipChild]
      BY <1>7 DEF IpWrite, IpAnswer, IpTimeout
    <2>2. ipCall[c] \in CallRecords /\ ipCall[c].result # "exited"
      BY <2>1 DEF ProcessInv, ExitedCallsAreDone
    <2>3. PICK r \in CallRecords : ipCall' = [ipCall EXCEPT ![c] = r] /\ r.result # "exited"
      <3>1. CASE ipCall' = Ends(c, result)
        <4>1. [ipCall[c] EXCEPT !.at = "done", !.result = result] \in CallRecords
          BY <2>2 DEF CallRecords
        <4>2. [ipCall[c] EXCEPT !.at = "done", !.result = result].result = result
          BY <2>2 DEF CallRecords
        <4> QED BY <3>1, <4>1, <4>2 DEF Ends
      <3>2. CASE ipCall' = [ipCall EXCEPT ![c].at = "waits", ![c].process = ipChild]
        <4>1. [ipCall[c] EXCEPT !.at = "waits", !.process = ipChild] \in CallRecords
          BY <2>2 DEF CallRecords, ProcessInv
        <4>2. [ipCall[c] EXCEPT !.at = "waits", !.process = ipChild].result = ipCall[c].result
          BY <2>2 DEF CallRecords
        <4> QED BY <2>2, <3>2, <4>1, <4>2
      <3> QED BY <2>1, <3>1, <3>2
    <2>4. UNCHANGED <<ipAt, ipProcesses, ipChild, ipExited, ipGeneration>>
      BY <1>7 DEF IpWrite, IpAnswer, IpTimeout
    <2> QED BY <2>3, <2>4, CallStep
  <1>8. CASE IpReturns
    BY <1>8, CallStep, UnusedRecord DEF IpReturns
  <1>9. CASE IpEnds
    BY <1>9, EndKeepsInv DEF IpEnds
  <1>10. CASE IpReadToEnd
    <2> USE DEF ProcessInv
    <2>1. PICK g \in DOMAIN ipProcesses :
            /\ ipProcesses[g] = "ended" /\ ipProcesses' = [ipProcesses EXCEPT ![g] = "read"] /\ ipExited' = TRUE
            /\ ipCall' = [c \in IpCalls |-> IF c \in ipPending[g] /\ ipCall[c].at = "waits" THEN Ends(c, "exited")[c] ELSE ipCall[c]]
            /\ UNCHANGED <<ipAt, ipChild, ipGeneration>>
      BY <1>10 DEF IpReadToEnd
    <2>2. g = LastProcess
      BY <2>1 DEF EarlierWereRead, LastProcess
    <2>3. ipProcesses' \in Seq({"alive", "ended", "read"}) /\ Len(ipProcesses') = LastProcess /\ DOMAIN ipProcesses' = 1 .. LastProcess
          /\ \A h \in 1 .. LastProcess : ipProcesses'[h] = "read"
      BY <2>1, <2>2 DEF EarlierWereRead, LastProcess
    <2>4. \A c \in IpCalls : Ends(c, "exited")[c] = [ipCall[c] EXCEPT !.at = "done", !.result = "exited"]
      BY DEF Ends
    <2>5. \A c \in IpCalls : Ends(c, "exited")[c] \in CallRecords /\ Ends(c, "exited")[c].at = "done"
      BY <2>4 DEF CallRecords
    <2>6. ipCall' \in [IpCalls -> CallRecords] /\ \A c \in IpCalls : ipCall'[c].result = "exited" => ipCall'[c].at = "done"
      BY <2>1, <2>5 DEF ExitedCallsAreDone
    <2>7. ExitedCallsAreDone'
      BY <2>3, <2>6 DEF ExitedCallsAreDone, Alive
    <2> QED BY <2>1, <2>2, <2>3, <2>6, <2>7 DEF EarlierWereRead, LastIsHeld, ExitWasRead, LastProcess
  <1>11. CASE UNCHANGED ipVars
    BY <1>0, <1>11 DEF ipVars
  <1> QED BY <1>1, <1>2, <1>3, <1>4, <1>5, <1>6, <1>7, <1>8, <1>9, <1>10, <1>11 DEF PluginProcessNext

\* An instance that has no process yet.
LEMMA ProcessStart == IpInit => ProcessInv
  <1> SUFFICES ASSUME IpInit PROVE ProcessInv
    OBVIOUS
  <1>1. ipProcesses = <<>> /\ Len(ipProcesses) = 0 /\ ipProcesses \in Seq({"alive", "ended", "read"})
    BY DEF IpInit
  <1>2. ipCall \in [IpCalls -> CallRecords] /\ \A c \in IpCalls : ipCall[c].result # "exited"
    BY UnusedRecord DEF IpInit
  <1>3. ipChild = 0 /\ ipGeneration = 0 /\ ipExited = FALSE
    BY DEF IpInit
  <1>4. EarlierWereRead /\ LastIsHeld /\ ExitWasRead /\ ExitedCallsAreDone
    BY <1>1, <1>2, <1>3 DEF EarlierWereRead, LastIsHeld, ExitWasRead, ExitedCallsAreDone, LastProcess
  <1>5. ipExited \in BOOLEAN
    BY <1>3, Zenon
  <1> QED BY <1>1, <1>2, <1>3, <1>4, <1>5 DEF ProcessInv

\* A plugin process that lives is not taken for dead: neither the flag of the instance
\* nor a call that failed with an exit is about a process that is alive (plugin/ipc.rs),
\* for every number of calls, generations and faults.
THEOREM LifeIsReported == PluginProcessSpec => []LivePluginIsNotCalledDead
  <1>2. ProcessInv => LivePluginIsNotCalledDead
    BY DEF ProcessInv, LivePluginIsNotCalledDead, LastIsHeld, ExitWasRead, ExitedCallsAreDone, Alive, LastProcess
  <1> QED BY <1>2, ProcessStart, ProcessInvStep, PTL DEF PluginProcessSpec

\* What the owner does next, and the numbers of processes.
Owners == ControlSteps \cup {"factory", "start", "serve", "reap", "dropped"}
ProcessRest ==
  /\ ipAt \in Owners
  /\ Len(ipProcesses) <= MaxIpProcesses /\ ipChild \in 0 .. MaxIpProcesses /\ ipGeneration \in 0 .. MaxIpProcesses
ConnectedOK == ipConnected \in BOOLEAN

\* Every step of the owner, of a call and of a process keeps the rest.
LEMMA ProcessRestStep == ProcessInv /\ ProcessRest /\ [PluginProcessNext]_ipVars => ProcessRest'
  <1> SUFFICES ASSUME ProcessInv, ProcessRest, [PluginProcessNext]_ipVars PROVE ProcessRest'
    OBVIOUS
  <1>0. /\ MaxIpProcesses \in Nat /\ ipProcesses \in Seq({"alive", "ended", "read"}) /\ Len(ipProcesses) \in Nat
        /\ Len(ipProcesses) <= MaxIpProcesses /\ ipChild \in 0 .. MaxIpProcesses /\ ipGeneration \in 0 .. MaxIpProcesses
    BY IpAssumption DEF ProcessInv, ProcessRest
  <1>1. ASSUME UNCHANGED <<ipProcesses, ipChild, ipGeneration>>, ipAt' \in Owners PROVE ProcessRest'
    BY <1>1 DEF ProcessRest
  <1>2. CASE UNCHANGED <<ipAt, ipProcesses, ipChild, ipGeneration>>
    BY <1>2 DEF ProcessRest
  <1>3. CASE IpStart
    <2>1. CASE Spawns
      <3>1. CASE ipAt' = "dropped" /\ UNCHANGED <<ipGeneration, ipChild, ipProcesses>>
        BY <1>1, <3>1 DEF Owners
      <3>2. CASE /\ ipGeneration' = Len(ipProcesses) + 1 /\ ipChild' = ipGeneration' /\ ipAt' = "handshake"
                 /\ ipProcesses' = Append([g \in DOMAIN ipProcesses |-> IF ipProcesses[g] = "alive" THEN "ended" ELSE ipProcesses[g]], "alive")
        <4> DEFINE others == [g \in DOMAIN ipProcesses |-> IF ipProcesses[g] = "alive" THEN "ended" ELSE ipProcesses[g]]
        <4>1. others \in Seq({"alive", "ended", "read"}) /\ Len(others) = Len(ipProcesses)
          BY <1>0
        <4> HIDE DEF others
        <4>2. Len(ipProcesses') = Len(ipProcesses) + 1
          BY <3>2, <4>1
        <4>3. Len(ipProcesses) < MaxIpProcesses
          BY <2>1 DEF Spawns
        <4>4. ipAt' \in Owners
          BY <3>2 DEF Owners, ControlSteps
        <4>5. ipGeneration' \in 0 .. MaxIpProcesses /\ ipChild' \in 0 .. MaxIpProcesses /\ Len(ipProcesses') <= MaxIpProcesses
          <5>1. Len(ipProcesses) + 1 \in 0 .. MaxIpProcesses
            BY <1>0, <4>3
          <5> QED BY <3>2, <4>2, <5>1
        <4> QED BY <4>4, <4>5 DEF ProcessRest
      <3> QED BY <2>1, <3>1, <3>2 DEF Spawns
    <2>2. CASE ipAt' = "connect" /\ UNCHANGED <<ipProcesses, ipChild, ipGeneration>>
      BY <1>1, <2>2 DEF Owners, ControlSteps
    <2> QED BY <1>3, <2>1, <2>2 DEF IpStart
  <1>4. CASE IpControlEnds
    <2>1. PICK ok \in BOOLEAN : ipAt \in ControlSteps /\ ipAt' \in After(ipAt, ok)
      BY <1>4 DEF IpControlEnds
    <2>2. After(ipAt, ok) \subseteq Owners
      BY <2>1 DEF After, Owners, ControlSteps
    <2> QED BY <1>1, <1>4, <2>1, <2>2 DEF IpControlEnds
  <1>5. CASE IpLeave
    BY <1>1, <1>5 DEF IpLeave, Owners, ControlSteps
  <1>6. CASE IpReap
    <2>1. ipAt' \in Owners /\ ipChild' = 0 /\ UNCHANGED <<ipProcesses, ipGeneration>>
      BY <1>6 DEF IpReap, Owners
    <2> QED BY <1>0, <2>1 DEF ProcessRest
  <1>7. CASE IpDropped \/ IpEnds \/ IpReadToEnd
    <2>1. PICK g \in DOMAIN ipProcesses, how \in {"ended", "read"} : ipProcesses' = [ipProcesses EXCEPT ![g] = how]
      BY <1>7 DEF IpDropped, IpEnds, IpReadToEnd, Alive
    <2>2. Len(ipProcesses') = Len(ipProcesses)
      BY <1>0, <2>1
    <2>3. UNCHANGED <<ipAt, ipChild, ipGeneration>>
      BY <1>7 DEF IpDropped, IpEnds, IpReadToEnd
    <2> QED BY <2>2, <2>3 DEF ProcessRest
  <1>8. CASE IpRegister \/ IpWrite \/ IpAnswer \/ IpTimeout \/ IpReturns \/ UNCHANGED ipVars
    BY <1>2, <1>8 DEF IpRegister, IpWrite, IpAnswer, IpTimeout, IpReturns, ipVars
  <1> QED BY <1>3, <1>4, <1>5, <1>6, <1>7, <1>8 DEF PluginProcessNext

\* The state of the adapter is one of the two truth values.
LEMMA ConnectedStep == ConnectedOK /\ [PluginProcessNext]_ipVars => ConnectedOK'
  <1> SUFFICES ASSUME ipConnected \in BOOLEAN, [PluginProcessNext]_ipVars PROVE ipConnected' \in BOOLEAN
    BY DEF ConnectedOK
  <1>1. CASE IpControlEnds
    <2>1. PICK c \in IpCalls : \E ok \in {ipCall[c].result = "answer", FALSE} : ipConnected' = IF ipAt = "connect" THEN ok ELSE ipConnected
      BY <1>1, Zenon DEF IpControlEnds
    <2>2. PICK ok \in {ipCall[c].result = "answer", FALSE} : ipConnected' = IF ipAt = "connect" THEN ok ELSE ipConnected
      BY <2>1, Zenon
    <2>3. ok \in BOOLEAN
      BY Zenon
    <2> QED BY <2>2, <2>3, Zenon
  <1>2. ipConnected' = ipConnected \/ ipConnected' = FALSE \/ IpControlEnds
    <2>1. CASE IpStart \/ IpLeave \/ IpReap \/ IpDropped
      BY <2>1, Zenon DEF IpStart, Spawns, IpLeave, IpReap, IpDropped
    <2>2. CASE IpRegister \/ IpWrite \/ IpAnswer \/ IpTimeout \/ IpReturns \/ IpEnds \/ IpReadToEnd \/ UNCHANGED ipVars
      BY <2>2, Zenon DEF IpRegister, IpWrite, IpAnswer, IpTimeout, IpReturns, IpEnds, IpReadToEnd, ipVars
    <2> QED BY <2>1, <2>2, Zenon DEF PluginProcessNext
  <1> QED BY <1>1, <1>2, Zenon

\* The types of the variables of a plugin process: PluginProcessTypeOK.
LEMMA ProcessTypes == PluginProcessSpec => []PluginProcessTypeOK
  <1>1. IpInit => ProcessRest
    <2> SUFFICES ASSUME IpInit PROVE ProcessRest
      OBVIOUS
    <2>1. Len(ipProcesses) = 0 /\ ipChild = 0 /\ ipGeneration = 0 /\ ipAt = "factory"
      BY DEF IpInit
    <2> QED BY <2>1, IpAssumption DEF ProcessRest, Owners
  <1>2. IpInit => ConnectedOK
    BY Zenon DEF IpInit, ConnectedOK
  <1>3. ProcessInv /\ ProcessRest /\ ConnectedOK => PluginProcessTypeOK
    <2> SUFFICES ASSUME ProcessInv, ProcessRest, ConnectedOK PROVE PluginProcessTypeOK
      OBVIOUS
    <2>1. ipProcesses \in Seq({"alive", "ended", "read"}) /\ Len(ipProcesses) \in 0 .. MaxIpProcesses
      BY IpAssumption DEF ProcessInv, ProcessRest
    <2>2. ipProcesses \in [1 .. Len(ipProcesses) -> {"alive", "ended", "read"}]
      BY <2>1
    <2>3. ipProcesses \in UNION {[1..n -> {"alive", "ended", "read"}] : n \in 0..MaxIpProcesses}
      BY <2>1, <2>2
    <2>4. \A c \in IpCalls : ipCall[c].at \in {"unused", "registered", "waits", "done"}
      BY DEF ProcessInv, CallRecords
    <2>5. ipExited \in BOOLEAN /\ ipConnected \in BOOLEAN
      BY Zenon DEF ProcessInv, ConnectedOK
    <2>6. ipAt \in ControlSteps \cup {"factory", "start", "serve", "reap", "dropped"} /\ ipChild \in 0 .. MaxIpProcesses /\ ipGeneration \in 0 .. MaxIpProcesses
      BY DEF ProcessRest, Owners
    <2> QED BY <2>3, <2>4, <2>5, <2>6, Zenon DEF PluginProcessTypeOK
  <1> QED BY <1>1, <1>2, <1>3, ProcessStart, ProcessInvStep, ProcessRestStep, ConnectedStep, PTL DEF PluginProcessSpec

-----------------------------------------------------------------------------
(* The ledgers (Ledgers).                                                    *)
LedgersSpec == LedgersInit /\ [][LedgersNext]_lgVars

\* The requests that a ledger counts, one by one; the payments that are stored.
Counted(usage) == UNION {{s} \X (1 .. usage[s]) : s \in LgSubjects}
Paid(payments) == {e \in LgEvents : payments[e] # 0}
\* A request that is being served is from a subject; ledger and mirror agree, and
\* the anchors are the numbers of what the tables hold.
LgRequest == [at : {"idle", "run", "answer"}, from : LgSubjects \cup {"none"}, op : LgOps \cup {"none"}]
LedgersInv ==
  /\ lgReq \in [LgRequests -> LgRequest] /\ \A r \in LgRequests : lgReq[r].at # "idle" => lgReq[r].from \in LgSubjects
  /\ lgUsage \in [LgSubjects -> Nat] /\ lgMirror = lgUsage
  /\ IsFiniteSet(Counted(lgUsage)) /\ lgTotal = Cardinality(Counted(lgUsage))
  /\ lgPayments \in [LgEvents -> 0 .. 2] /\ IsFiniteSet(Paid(lgPayments)) /\ lgPaymentCount = Cardinality(Paid(lgPayments))
  /\ lgGrants \subseteq LgSubjects

\* One more request of a subject.
LEMMA OneMoreIsCounted ==
  ASSUME NEW usage \in [LgSubjects -> Nat], NEW s \in LgSubjects, IsFiniteSet(Counted(usage))
  PROVE  LET more == [usage EXCEPT ![s] = @ + 1]
         IN  more \in [LgSubjects -> Nat] /\ IsFiniteSet(Counted(more)) /\ Cardinality(Counted(more)) = Cardinality(Counted(usage)) + 1
  <1> DEFINE more == [usage EXCEPT ![s] = @ + 1]
             one == <<s, usage[s] + 1>>
  <1>1. more \in [LgSubjects -> Nat] /\ more[s] = usage[s] + 1 /\ \A t \in LgSubjects \ {s} : more[t] = usage[t]
    OBVIOUS
  <1>2. one \notin Counted(usage)
    BY DEF Counted
  <1>3. Counted(more) = Counted(usage) \cup {one}
    <2>1. \A t \in LgSubjects : {t} \X (1 .. more[t]) \subseteq Counted(usage) \cup {one}
      <3> TAKE t \in LgSubjects
      <3>1. {t} \X (1 .. usage[t]) \subseteq Counted(usage)
        BY DEF Counted
      <3>2. CASE t = s
        <4>1. 1 .. more[s] = 1 .. usage[s] \cup {usage[s] + 1}
          BY <1>1
        <4> QED BY <3>1, <3>2, <4>1
      <3>3. CASE t # s
        BY <1>1, <3>1, <3>3
      <3> QED BY <3>2, <3>3
    <2>2. \A t \in LgSubjects : {t} \X (1 .. usage[t]) \subseteq {t} \X (1 .. more[t])
      <3> TAKE t \in LgSubjects
      <3>1. 1 .. usage[t] \subseteq 1 .. more[t]
        BY <1>1
      <3> QED BY <3>1
    <2>3. one \in {s} \X (1 .. more[s])
      BY <1>1
    <2> HIDE DEF more, one
    <2> QED BY <2>1, <2>2, <2>3 DEF Counted
  <1> HIDE DEF more, one
  <1>4. IsFiniteSet(Counted(more)) /\ Cardinality(Counted(more)) = Cardinality(Counted(usage)) + 1
    BY <1>2, <1>3, FS_AddElement
  <1> QED BY <1>1, <1>4 DEF more

\* A request that goes on, or ends, is one of the same subject.
LEMMA RequestGoesOn ==
  ASSUME LedgersInv, NEW r \in LgRequests, lgReq[r].at # "idle", NEW to \in {"idle", "answer"}, LgTo(r, to)
  PROVE  lgReq' \in [LgRequests -> LgRequest] /\ \A q \in LgRequests : lgReq'[q].at # "idle" => lgReq'[q].from \in LgSubjects
  <1> DEFINE next == IF to = "idle" THEN LgIdle ELSE [lgReq[r] EXCEPT !.at = to]
  <1>1. lgReq' = [lgReq EXCEPT ![r] = next]
    BY DEF LgTo
  <1>2. lgReq[r] \in LgRequest /\ lgReq[r].from \in LgSubjects
    BY DEF LedgersInv
  <1>3. next \in LgRequest /\ (next.at # "idle" => next.from \in LgSubjects)
    BY <1>2 DEF LgRequest, LgIdle
  <1> HIDE DEF next
  <1> QED BY <1>1, <1>3 DEF LedgersInv

\* Every step of a request, of the probe and of a fault keeps the invariant of the ledgers.
LEMMA LedgersInvStep == LedgersInv /\ [LedgersNext]_lgVars => LedgersInv'
  <1> SUFFICES ASSUME LedgersInv, [LedgersNext]_lgVars PROVE LedgersInv'
    OBVIOUS
  <1>1. CASE \E r \in LgRequests : LgArrive(r)
    <2> PICK r \in LgRequests : LgArrive(r)
      BY <1>1
    <2>1. PICK s \in LgSubjects, op \in LgOps, to \in {"run", "answer"} : lgReq' = [lgReq EXCEPT ![r] = [at |-> to, from |-> s, op |-> op]]
      BY DEF LgArrive
    <2>2. [at |-> to, from |-> s, op |-> op] \in LgRequest
      BY DEF LgRequest
    <2>3. lgReq' \in [LgRequests -> LgRequest] /\ \A q \in LgRequests : lgReq'[q].at # "idle" => lgReq'[q].from \in LgSubjects
      BY <2>1, <2>2 DEF LedgersInv
    <2>4. UNCHANGED <<lgBook, lgTables>>
      BY DEF LgArrive
    <2> QED BY <2>3, <2>4 DEF LedgersInv, lgBook, lgTables
  <1>2. ASSUME NEW r \in LgRequests, NEW op, LgRuns(r, op)
        PROVE  /\ lgReq' \in [LgRequests -> LgRequest] /\ \A q \in LgRequests : lgReq'[q].at # "idle" => lgReq'[q].from \in LgSubjects
               /\ UNCHANGED <<lgUsage, lgMirror, lgTotal>>
    BY <1>2, RequestGoesOn DEF LgRuns, lgBook
  <1>3. CASE \E r \in LgRequests : LgMessage(r) \/ LgListUsage(r) \/ LgListPayments(r)
    BY <1>2, <1>3 DEF LgMessage, LgListUsage, LgListPayments, LedgersInv, lgTables
  <1>4. CASE \E r \in LgRequests : LgGrant(r) \/ LgUngrant(r)
    <2>1. lgGrants' \subseteq LgSubjects /\ UNCHANGED <<lgPayments, lgPaymentCount>>
      BY <1>4 DEF LgGrant, LgUngrant, LedgersInv
    <2> QED BY <1>2, <1>4, <2>1 DEF LgGrant, LgUngrant, LedgersInv
  <1>5. CASE \E r \in LgRequests : LgPay(r)
    <2> PICK r \in LgRequests, e \in LgEvents, content \in 1 .. 2 : LgRuns(r, "pay") /\ StorePayment(e, content) /\ UNCHANGED lgGrants
      BY <1>5 DEF LgPay
    <2>1. CASE lgPayments[e] = 0
      <3>1. lgPayments' = [lgPayments EXCEPT ![e] = content] /\ lgPaymentCount' = lgPaymentCount + 1
        BY <2>1 DEF StorePayment
      <3>2. lgPayments' \in [LgEvents -> 0 .. 2] /\ Paid(lgPayments') = Paid(lgPayments) \cup {e} /\ e \notin Paid(lgPayments)
        BY <2>1, <3>1 DEF LedgersInv, Paid
      <3>3. IsFiniteSet(Paid(lgPayments')) /\ Cardinality(Paid(lgPayments')) = Cardinality(Paid(lgPayments)) + 1
        BY <3>2, FS_AddElement DEF LedgersInv
      <3> QED BY <1>2, <3>1, <3>2, <3>3 DEF LedgersInv
    <2>2. CASE lgPayments[e] # 0
      BY <1>2, <2>2 DEF StorePayment, LedgersInv
    <2> QED BY <2>1, <2>2
  <1>6. CASE \E r \in LgRequests : LgRecord(r)
    <2> PICK r \in LgRequests : LgRecord(r)
      BY <1>6
    <2> DEFINE s == lgReq[r].from
    <2>1. lgReq[r].at = "answer" /\ LgTo(r, "idle") /\ UNCHANGED lgTables
      BY DEF LgRecord
    <2>2. lgReq' \in [LgRequests -> LgRequest] /\ \A q \in LgRequests : lgReq'[q].at # "idle" => lgReq'[q].from \in LgSubjects
      BY <2>1, RequestGoesOn
    <2>3. s \in LgSubjects
      BY <2>1 DEF LedgersInv
    <2>4. CASE UNCHANGED lgBook
      BY <2>1, <2>2, <2>4 DEF LedgersInv, lgBook, lgTables
    <2>5. CASE lgUsage' = [lgUsage EXCEPT ![s] = @ + 1] /\ lgMirror' = [lgMirror EXCEPT ![s] = @ + 1] /\ lgTotal' = lgTotal + 1
      <3>1. lgUsage' \in [LgSubjects -> Nat] /\ IsFiniteSet(Counted(lgUsage')) /\ Cardinality(Counted(lgUsage')) = Cardinality(Counted(lgUsage)) + 1
        BY <2>3, <2>5, OneMoreIsCounted DEF LedgersInv
      <3>2. lgMirror' = lgUsage' /\ lgTotal' = Cardinality(Counted(lgUsage'))
        BY <2>5, <3>1 DEF LedgersInv
      <3> QED BY <2>1, <2>2, <3>1, <3>2 DEF LedgersInv, lgTables
    <2> QED BY <2>4, <2>5 DEF LgRecord
  <1>7. CASE \E r \in LgRequests : LgDrop(r)
    <2> PICK r \in LgRequests : LgDrop(r)
      BY <1>7
    <2>1. lgReq' \in [LgRequests -> LgRequest] /\ \A q \in LgRequests : lgReq'[q].at # "idle" => lgReq'[q].from \in LgSubjects
      BY RequestGoesOn DEF LgDrop
    <2> QED BY <2>1 DEF LgDrop, LedgersInv, lgBook, lgTables
  <1>8. CASE LgProbe \/ UNCHANGED lgVars
    BY <1>8 DEF LgProbe, LedgersInv, lgVars, lgBook, lgTables
  <1> QED BY <1>1, <1>3, <1>4, <1>5, <1>6, <1>7, <1>8 DEF LedgersNext

\* Whatever requests run at once, whichever are dropped and whichever of their
\* records fail, the usage ledger agrees with its mirror and its anchor, and the
\* payment events with theirs (record_usage and record_billing_event in
\* auth/api_key): LedgersTypeOK for every number of requests, subjects and events.
THEOREM LedgersVerify == LedgersSpec => []LedgersTypeOK
  <1>1. LedgersInit => LedgersInv
    <2> SUFFICES ASSUME LedgersInit PROVE LedgersInv
      OBVIOUS
    <2>1. LgIdle \in LgRequest /\ LgIdle.at = "idle"
      BY DEF LgIdle, LgRequest
    <2>2. Counted(lgUsage) = {}
      <3>1. \A s \in LgSubjects : 1 .. lgUsage[s] = {}
        BY DEF LedgersInit
      <3> QED BY <3>1 DEF Counted
    <2>3. Paid(lgPayments) = {}
      BY DEF LedgersInit, Paid
    <2>4. lgTotal = 0 /\ lgPaymentCount = 0 /\ lgMirror = lgUsage /\ lgGrants = {}
      BY DEF LedgersInit
    <2>5. lgUsage \in [LgSubjects -> Nat] /\ lgPayments \in [LgEvents -> 0 .. 2]
      BY DEF LedgersInit
    <2>6. lgReq \in [LgRequests -> LgRequest] /\ \A r \in LgRequests : lgReq[r].at = "idle"
      BY <2>1 DEF LedgersInit
    <2> QED BY <2>2, <2>3, <2>4, <2>5, <2>6, FS_EmptySet DEF LedgersInv
  <1>2. LedgersInv => LedgersTypeOK
    <2> SUFFICES ASSUME LedgersInv PROVE LedgersTypeOK
      OBVIOUS
    <2>1. UsageVerifies /\ PaymentsVerify
      BY DEF LedgersInv, UsageVerifies, PaymentsVerify, Counted, Paid
    <2> QED BY <2>1 DEF LedgersInv, LgRequest, LedgersTypeOK
  <1> QED BY <1>1, <1>2, LedgersInvStep, PTL DEF LedgersSpec

-----------------------------------------------------------------------------
(* The webhook dispatcher (Webhooks).                                        *)
WebhooksSpec == WebhooksInit /\ [][WebhooksNext]_whVars

WhTask == [at : {"none", "queued", "posts", "done"}, hook : Nat]
Asked(e, hook) == e \in 1 .. Len(whStream) /\ hook \in 1 .. WhHooks /\ Matches(hook, e)
\* A task that was queued is that of an event the dispatcher has taken; one that
\* posts does so to a webhook that asked for its event.
WebhooksInv ==
  /\ whStream \in Seq(WhPlatforms) /\ Len(whStream) <= MaxWhEvents
  /\ whCursor \in Nat /\ 1 <= whCursor /\ whCursor <= Len(whStream) + 1
  /\ whTasks \in [1 .. MaxWhEvents -> WhTask] /\ Cardinality(Posting) <= PostLimit
  /\ \A e \in 1 .. MaxWhEvents : whTasks[e].at # "none" => e <= Len(whStream)
  /\ \A e \in 1 .. MaxWhEvents : whTasks[e].at = "posts" => Asked(e, whTasks[e].hook)
  /\ \A post \in whPosts : Asked(post[1], post[2])

\* The task of an event goes to a webhook that asked for the event, or ends.
LEMMA ProceedsToAsked ==
  ASSUME WebhooksInv, NEW e \in 1 .. MaxWhEvents, whTasks[e].at # "none", NEW from \in Nat \ {0}, Proceeds(e, from)
  PROVE  \E next \in WhTask : /\ whTasks' = [whTasks EXCEPT ![e] = next] /\ next.at \in {"posts", "done"}
                              /\ next.at = "posts" => Asked(e, next.hook)
  <1> DEFINE wanted == {h \in from .. WhHooks : Matches(h, e)}
             first == CHOOSE h \in wanted : \A k \in wanted : h <= k
  <1>1. whTasks' = [whTasks EXCEPT ![e] = IF wanted = {} THEN [at |-> "done", hook |-> 0] ELSE [at |-> "posts", hook |-> first]]
    BY DEF Proceeds
  <1>2. e \in 1 .. Len(whStream)
    BY DEF WebhooksInv
  <1>3. CASE wanted = {}
    <2>1. [at |-> "done", hook |-> 0] \in WhTask
      BY DEF WhTask
    <2> QED BY <1>1, <1>3, <2>1
  <1>4. CASE wanted # {}
    <2>1. wanted \subseteq Nat
      BY WhAssumption
    <2>2. \E h \in wanted : \A k \in wanted : h <= k
      <3> DEFINE R == OpToRel(<, Nat)
      <3>1. IsWellFoundedOn(R, Nat)
        BY NatLessThanWellFounded
      <3> HIDE DEF R, wanted
      <3>2. PICK h \in wanted : \A k \in wanted : ~(<<k, h>> \in R)
        BY <1>4, <2>1, <3>1, WFMin
      <3>3. \A k \in wanted : ~(k < h)
        BY <2>1, <3>2 DEF R, OpToRel
      <3> QED BY <2>1, <3>3
    <2>3. first \in wanted
      BY <2>2
    <2>4. first \in 1 .. WhHooks /\ first \in Nat /\ Matches(first, e)
      BY <2>1, <2>3
    <2> HIDE DEF first, wanted
    <2>5. [at |-> "posts", hook |-> first] \in WhTask
      BY <2>4 DEF WhTask
    <2> QED BY <1>1, <1>2, <1>4, <2>4, <2>5 DEF Asked
  <1> QED BY <1>3, <1>4

\* The tasks are finitely many, and so are those that post.
LEMMA PostingIsFinite == WebhooksInv => IsFiniteSet(Posting) /\ Cardinality(Posting) \in Nat /\ Posting \subseteq 1 .. MaxWhEvents
  <1> SUFFICES ASSUME WebhooksInv PROVE IsFiniteSet(Posting) /\ Cardinality(Posting) \in Nat /\ Posting \subseteq 1 .. MaxWhEvents
    OBVIOUS
  <1>1. Posting \subseteq 1 .. MaxWhEvents
    BY DEF Posting, WebhooksInv
  <1>2. IsFiniteSet(1 .. MaxWhEvents)
    BY WhAssumption, FS_Interval
  <1> QED BY <1>1, <1>2, FS_Subset, FS_CardinalityType

\* A task changes, and nothing else but what was posted; it may begin to post
\* while there is a permit.
LEMMA TaskKeepsInv ==
  ASSUME WebhooksInv, NEW e \in 1 .. MaxWhEvents, NEW next \in WhTask, whTasks' = [whTasks EXCEPT ![e] = next],
         next.at # "none" => e <= Len(whStream), next.at = "posts" => Asked(e, next.hook),
         next.at # "posts" \/ e \in Posting \/ Cardinality(Posting) < PostLimit,
         UNCHANGED <<whStream, whWants>>, whCursor' \in Nat /\ 1 <= whCursor' /\ whCursor' <= Len(whStream) + 1,
         \A post \in whPosts' : Asked(post[1], post[2])
  PROVE  WebhooksInv'
  <1>1. whTasks' \in [1 .. MaxWhEvents -> WhTask] /\ \A d \in 1 .. MaxWhEvents : whTasks'[d] = IF d = e THEN next ELSE whTasks[d]
    BY DEF WebhooksInv
  <1>2. \A d, h : Asked(d, h)' <=> Asked(d, h)
    BY DEF Asked, Matches
  <1>3. (\A d \in 1 .. MaxWhEvents : whTasks[d].at = "posts" => Asked(d, whTasks[d].hook))'
    <2>1. \A d \in 1 .. MaxWhEvents : whTasks'[d].at = "posts" => Asked(d, whTasks'[d].hook)
      BY <1>1 DEF WebhooksInv
    <2> QED BY <2>1 DEF Asked, Matches
  <1>4. Posting' = {d \in 1 .. MaxWhEvents : whTasks'[d].at = "posts"} /\ Posting = {d \in 1 .. MaxWhEvents : whTasks[d].at = "posts"}
    BY <1>1 DEF Posting, WebhooksInv
  <1>5. PostLimit \in Nat /\ IsFiniteSet(Posting) /\ Cardinality(Posting) \in Nat /\ Cardinality(Posting) <= PostLimit
    BY WhAssumption, PostingIsFinite DEF WebhooksInv
  <1>6. Cardinality(Posting') <= PostLimit
    <2>1. CASE next.at # "posts" \/ e \in Posting
      <3>1. Posting' \subseteq Posting
        BY <1>1, <1>4, <2>1
      <3>2. Cardinality(Posting') <= Cardinality(Posting) /\ Cardinality(Posting') \in Nat
        BY <1>5, <3>1, FS_Subset, FS_CardinalityType
      <3> QED BY <1>5, <3>2
    <2>2. CASE Cardinality(Posting) < PostLimit
      <3>1. Posting' \subseteq Posting \cup {e}
        BY <1>1, <1>4
      <3>2. IsFiniteSet(Posting \cup {e}) /\ Cardinality(Posting \cup {e}) = IF e \in Posting THEN Cardinality(Posting) ELSE Cardinality(Posting) + 1
        BY <1>5, FS_AddElement
      <3>3. Cardinality(Posting') <= Cardinality(Posting \cup {e}) /\ Cardinality(Posting') \in Nat
        BY <3>1, <3>2, FS_Subset, FS_CardinalityType
      <3>4. Cardinality(Posting \cup {e}) <= PostLimit
        BY <1>5, <2>2, <3>2
      <3> QED BY <1>5, <3>2, <3>3, <3>4
    <2> QED BY <2>1, <2>2
  <1>7. \A d \in 1 .. MaxWhEvents : whTasks'[d].at # "none" => d <= Len(whStream)
    BY <1>1 DEF WebhooksInv
  <1>8. \A post \in whPosts' : Asked(post[1], post[2])'
    BY <1>2
  <1> QED BY <1>1, <1>3, <1>6, <1>7, <1>8 DEF WebhooksInv

\* Every step of the publisher, of the dispatcher and of a task keeps the invariant of the webhooks.
LEMMA WebhooksInvStep == WebhooksInv /\ [WebhooksNext]_whVars => WebhooksInv'
  <1> SUFFICES ASSUME WebhooksInv, [WebhooksNext]_whVars PROVE WebhooksInv'
    OBVIOUS
  <1>0. MaxWhEvents \in Nat /\ Len(whStream) \in Nat /\ whStream \in Seq(WhPlatforms) /\ whCursor \in Nat /\ 1 <= whCursor /\ Len(whStream) <= MaxWhEvents
    BY WhAssumption DEF WebhooksInv
  <1>1. CASE WhPublish
    <2>1. PICK platform \in WhPlatforms : Len(whStream) < MaxWhEvents /\ whStream' = Append(whStream, platform) /\ UNCHANGED <<whCursor, whWants, whTasks, whPosts>>
      BY <1>1 DEF WhPublish
    <2>2. whStream' \in Seq(WhPlatforms) /\ Len(whStream') = Len(whStream) + 1 /\ \A e \in 1 .. Len(whStream) : whStream'[e] = whStream[e]
      BY <1>0, <2>1
    <2>3. \A e, h : Asked(e, h) => Asked(e, h)'
      <3> SUFFICES ASSUME NEW e, NEW h, Asked(e, h) PROVE Asked(e, h)'
        OBVIOUS
      <3>1. e \in 1 .. Len(whStream) /\ e \in 1 .. Len(whStream')
        BY <1>0, <2>2 DEF Asked
      <3> QED BY <2>1, <2>2, <3>1 DEF Asked, Matches
    <2>4. Posting' = Posting
      BY <2>1 DEF Posting
    <2>5. \A e \in 1 .. MaxWhEvents : whTasks'[e].at # "none" => e <= Len(whStream')
      BY <1>0, <2>1, <2>2 DEF WebhooksInv
    <2>6. whCursor' <= Len(whStream') + 1 /\ Len(whStream') <= MaxWhEvents
      BY <1>0, <2>1, <2>2 DEF WebhooksInv
    <2> QED BY <2>1, <2>2, <2>3, <2>4, <2>5, <2>6 DEF WebhooksInv
  <1>2. CASE WhTake
    <2>1. Ready(whCursor, Len(whStream)) /\ UNCHANGED <<whStream, whWants, whPosts>>
      BY <1>2 DEF WhTake
    <2>2. CASE Overrun(whCursor, Len(whStream))
      <3>1. whCursor' = Oldest(Len(whStream)) /\ UNCHANGED whTasks
        BY <1>2, <2>2 DEF WhTake
      <3>2. whCursor' \in Nat /\ 1 <= whCursor' /\ whCursor' <= Len(whStream) + 1
        BY <1>0, <3>1, RingAssumption DEF Oldest
      <3>3. Posting' = Posting /\ \A e, h : Asked(e, h)' <=> Asked(e, h)
        BY <2>1, <3>1 DEF Posting, Asked, Matches
      <3> QED BY <2>1, <3>1, <3>2, <3>3 DEF WebhooksInv
    <2>3. CASE ~Overrun(whCursor, Len(whStream))
      <3>1. whCursor' = whCursor + 1 /\ whTasks' = [whTasks EXCEPT ![whCursor].at = "queued"] /\ whCursor <= Len(whStream)
        BY <1>2, <2>1, <2>3 DEF WhTake, Ready
      <3>2. whCursor \in 1 .. MaxWhEvents
        BY <1>0, <3>1
      <3>3. whTasks[whCursor] \in WhTask
        BY <3>2 DEF WebhooksInv
      <3> DEFINE next == [whTasks[whCursor] EXCEPT !.at = "queued"]
      <3>4. next \in WhTask /\ next.at = "queued"
        BY <3>3 DEF WhTask
      <3>5. whTasks' = [whTasks EXCEPT ![whCursor] = next]
        BY <3>1
      <3> HIDE DEF next
      <3>6. \A post \in whPosts' : Asked(post[1], post[2])
        BY <2>1 DEF WebhooksInv
      <3>7. whCursor' \in Nat /\ 1 <= whCursor' /\ whCursor' <= Len(whStream) + 1
        BY <1>0, <3>1
      <3> QED BY <2>1, <3>1, <3>2, <3>4, <3>5, <3>6, <3>7, TaskKeepsInv
    <2> QED BY <2>2, <2>3
  <1>3. DOMAIN whTasks = 1 .. MaxWhEvents /\ whCursor <= Len(whStream) + 1 /\ \A post \in whPosts : Asked(post[1], post[2])
    BY DEF WebhooksInv
  <1>4. CASE WhPermit
    <2> PICK e \in 1 .. MaxWhEvents : /\ whTasks[e].at = "queued" /\ Cardinality(Posting) < PostLimit /\ Proceeds(e, 1)
                                      /\ UNCHANGED <<whStream, whCursor, whWants, whPosts>>
      BY <1>3, <1>4 DEF WhPermit
    <2>1. PICK next \in WhTask : whTasks' = [whTasks EXCEPT ![e] = next] /\ (next.at = "posts" => Asked(e, next.hook))
      BY ProceedsToAsked
    <2>2. e <= Len(whStream)
      BY DEF WebhooksInv
    <2> QED BY <1>0, <1>3, <2>1, <2>2, TaskKeepsInv
  <1>5. CASE WhPost
    <2> PICK e \in Posting : /\ whPosts' \in {whPosts, whPosts \cup {<<e, whTasks[e].hook>>}} /\ Proceeds(e, whTasks[e].hook + 1)
                             /\ UNCHANGED <<whStream, whCursor, whWants>>
      BY <1>5 DEF WhPost
    <2>1. e \in 1 .. MaxWhEvents /\ whTasks[e].at = "posts" /\ Asked(e, whTasks[e].hook)
      BY <1>3 DEF Posting, WebhooksInv
    <2>2. whTasks[e].hook + 1 \in Nat \ {0} /\ e <= Len(whStream)
      BY <2>1 DEF Asked
    <2>3. PICK next \in WhTask : whTasks' = [whTasks EXCEPT ![e] = next] /\ (next.at = "posts" => Asked(e, next.hook))
      BY <2>1, <2>2, ProceedsToAsked
    <2>4. \A post \in whPosts' : Asked(post[1], post[2])
      BY <1>3, <2>1
    <2> QED BY <1>0, <1>3, <2>1, <2>2, <2>3, <2>4, TaskKeepsInv
  <1>6. CASE UNCHANGED whVars
    <2>1. Posting' = Posting /\ \A e, h : Asked(e, h)' <=> Asked(e, h)
      BY <1>6 DEF whVars, Posting, Asked, Matches
    <2> QED BY <1>6, <2>1 DEF whVars, WebhooksInv
  <1> QED BY <1>1, <1>2, <1>4, <1>5, <1>6 DEF WebhooksNext

\* Never do more tasks post at once than there are permits, and a webhook is only
\* ever sent an event of a platform it asked for (webhook/mod.rs): WebhooksTypeOK
\* for every number of webhooks, events and permits, and any size of the bus.
THEOREM WebhooksGetWhatTheyAsk == WebhooksSpec => []WebhooksTypeOK
  <1>1. WebhooksInit => WebhooksInv
    <2> SUFFICES ASSUME WebhooksInit PROVE WebhooksInv
      OBVIOUS
    <2>1. [at |-> "none", hook |-> 0] \in WhTask
      BY DEF WhTask
    <2>2. whStream = <<>> /\ Len(whStream) = 0 /\ whStream \in Seq(WhPlatforms) /\ whCursor = 1 /\ whPosts = {}
      BY DEF WebhooksInit
    <2>3. whTasks \in [1 .. MaxWhEvents -> WhTask] /\ \A e \in 1 .. MaxWhEvents : whTasks[e].at = "none"
      BY <2>1 DEF WebhooksInit
    <2>4. Posting = {} /\ Cardinality(Posting) = 0
      BY <2>3, FS_EmptySet DEF Posting
    <2>5. PostLimit \in Nat /\ MaxWhEvents \in Nat
      BY WhAssumption
    <2>6. Cardinality(Posting) <= PostLimit
      BY <2>4, <2>5
    <2> QED BY <2>2, <2>3, <2>5, <2>6 DEF WebhooksInv
  <1>2. WebhooksInv => WebhooksTypeOK
    BY DEF WebhooksInv, Asked, WebhooksTypeOK
  <1> QED BY <1>1, <1>2, WebhooksInvStep, PTL DEF WebhooksSpec

=============================================================================
