------------------------ MODULE AdapterLifecycleProofs ------------------------
(***************************************************************************)
(* Proofs about AdapterLifecycle, for every number of API callers, sends,  *)
(* adapter objects and faults, and for every limit on transport retries.   *)
(***************************************************************************)
EXTENDS AdapterLifecycle, TLAPS

-----------------------------------------------------------------------------
(* Inductive invariants *)

\* The monitor restarts a transport only while it has retries left.
TransportBudget == pc["monitor"] \in {"m_soft", "m_retry"} => retries < MaxTransport

TypeInv == TypeOK /\ TransportBudget

\* After a stop() that met no race: nothing is marked as connecting, no task is
\* past its mark, no start() past its creation, and an object that is still
\* installed is about to be removed.
SettledState ==
  settled =>
    /\ ~pending
    /\ \A i \in Instances : ~Landing(i)
    /\ \A c \in Callers : pc[c] \notin StartPcs \ {"start"}
    /\ running # None => \E c \in Callers : pc[c] = "remove"

\* API calls, sends, listings, the adapter's own task and the shutdown.
Surroundings ==
  \/ \E u \in Users : CallStart(u) \/ CallStop(u)
  \/ \E s \in Senders : SendBegins(s) \/ SendEnds(s)
  \/ ListStatuses \/ MergeStatuses
  \/ HealthChanges
  \/ MainStep

\* Every step is of one of five kinds.
LEMMA NextCases ==
  ASSUME Next
  PROVE  \/ \E c \in Callers : StartStep(c) \/ StopStep(c)
         \/ \E i \in Instances : ConnectStep(i)
         \/ MonitorStep
         \/ Surroundings
  BY DEF Next, Surroundings

-----------------------------------------------------------------------------
(* Type correctness, one lemma for each kind of step *)

LEMMA InitType == Init => TypeInv
  <1> SUFFICES ASSUME Init PROVE TypeInv
    OBVIOUS
  <1> USE LifecycleAssumption DEF Init
  <1>1. MapsOK /\ TasksOK
    BY DEF MapsOK, TasksOK, States
  <1>2. UseOK
    BY DEF UseOK
  <1>3. CallersOK
    BY DEF CallersOK, Pcs, MainPcs
  <1>4. MonitorOK
    <2>1. perm \in BOOLEAN /\ needs \in BOOLEAN /\ wasHealthy \in BOOLEAN
      OBVIOUS
    <2>2. retries \in 0..MaxTransport
      OBVIOUS
    <2>3. QED
      BY <2>1, <2>2 DEF MonitorOK
  <1>5. BoundsOK /\ GhostsOK
    BY DEF BoundsOK, GhostsOK
  <1>6. TransportBudget
    BY DEF TransportBudget, Callers
  <1>7. QED
    BY <1>1, <1>2, <1>3, <1>4, <1>5, <1>6 DEF TypeInv, TypeOK

LEMMA StartStepType ==
  ASSUME TypeInv, NEW c \in Callers, StartStep(c)
  PROVE  TypeInv'
  <1> USE DEF TypeInv, TypeOK, StartStep, StartCreate, StartFails, CheckRunning,
              CheckPending, StartCheck, MarkStatus, MarkPending, MarkConfig, StartReturns
  <1>1. MapsOK'
    BY DEF MapsOK, States, mapVars
  <1>2. TasksOK' /\ UseOK'
    BY DEF TasksOK, UseOK, taskVars, useVars
  <1>3. CallersOK'
    BY DEF CallersOK, Callers, Pcs, StartPcs, MonitorPcs, MainPcs, Goto, Holding
  <1>4. MonitorOK'
    BY DEF MonitorOK, monitorVars, Later, GivesUp
  <1>5. BoundsOK'
    BY DEF BoundsOK, boundVars, InitFault
  <1>6. GhostsOK'
    BY DEF GhostsOK, wishVars, checkVars, Later, GivesUp
  <1>7. TransportBudget'
    BY DEF TransportBudget, CallersOK, monitorVars, Later, GivesUp, Goto, Callers
  <1>8. QED
    BY <1>1, <1>2, <1>3, <1>4, <1>5, <1>6, <1>7

LEMMA ConnectStepType ==
  ASSUME TypeInv, NEW i \in Instances, ConnectStep(i)
  PROVE  TypeInv'
  <1> USE DEF TypeInv, TypeOK, ConnectStep, ConnectReturns, Claim, ClearKind, Install,
              Announce, NoteKind, NoteStatus
  <1>1. MapsOK'
    BY DEF MapsOK, TasksOK, States, Failures, Show, mapVars
  <1>2. TasksOK'
    BY DEF TasksOK
  <1>3. UseOK' /\ CallersOK'
    BY DEF UseOK, CallersOK, useVars, pcVars
  <1>4. MonitorOK' /\ BoundsOK'
    BY DEF MonitorOK, BoundsOK, monitorVars, boundVars, Fault
  <1>5. GhostsOK'
    BY DEF GhostsOK, TasksOK, wishVars, checkVars
  <1>6. TransportBudget'
    BY DEF TransportBudget, pcVars, monitorVars
  <1>7. QED
    BY <1>1, <1>2, <1>3, <1>4, <1>5, <1>6

LEMMA StopStepType ==
  ASSUME TypeInv, NEW c \in Callers, StopStep(c)
  PROVE  TypeInv'
  <1> USE DEF TypeInv, TypeOK, StopStep, StopBegins, StopPending, CancelConfig,
              CancelStatus, Remove, Forget, Disconnect, StopStatus, StopReturns
  <1>1. MapsOK'
    BY DEF MapsOK, States, Show, Vacate, mapVars
  <1>2. TasksOK' /\ UseOK'
    BY DEF TasksOK, UseOK, taskVars, useVars, Vacate
  <1>3. CallersOK'
    <2>1. pc' \in [Callers \cup {"main"} -> Pcs]
      BY DEF CallersOK, Callers, Pcs, StopPcs, MonitorPcs, MainPcs, Goto
    <2>2. mine' \in [Callers \cup {"main"} -> Instances \cup {None}]
      BY DEF CallersOK, MapsOK, Holding
    <2>3. QED
      BY <2>1, <2>2 DEF CallersOK
  <1>4. MonitorOK' /\ BoundsOK'
    BY DEF MonitorOK, BoundsOK, monitorVars, boundVars
  <1>5. GhostsOK'
    <2>1. stopped' \in BOOLEAN
      BY DEF GhostsOK, wishVars
    <2>2. settled' \in BOOLEAN
      BY DEF GhostsOK, wishVars, Regular
    <2>3. started' \in BOOLEAN /\ retryDue' \in BOOLEAN
          /\ lastFailure' \in {"none"} \cup Failures
      BY DEF GhostsOK, wishVars, checkVars
    <2>4. QED
      BY <2>1, <2>2, <2>3 DEF GhostsOK
  <1>6. TransportBudget'
    BY DEF TransportBudget, CallersOK, monitorVars, Goto, Callers
  <1>7. QED
    BY <1>1, <1>2, <1>3, <1>4, <1>5, <1>6

LEMMA MonitorStepType ==
  ASSUME TypeInv, MonitorStep
  PROVE  TypeInv'
  <1> USE DEF TypeInv, TypeOK, MonitorStep, Tick, SkipPending, CheckHealth, PermanentGuard,
              LooksHealthy, LooksDown, ShowReconnecting, RetryTransport, ShowRestored,
              Evict, SetStatusFailed, CloneConfig, Sleep, PollConnected, PollFailed,
              PollTimesOut, MonitorGoes
  <1>1. MapsOK'
    BY DEF MapsOK, States, Show, Vacate, mapVars
  <1>2. TasksOK' /\ UseOK'
    BY DEF TasksOK, UseOK, taskVars, useVars, Vacate
  <1>3. CallersOK'
    BY DEF CallersOK, Callers, Pcs, StartPcs, StopPcs, MonitorPcs, MainPcs, Goto
  <1>4. perm' \in BOOLEAN /\ needs' \in BOOLEAN /\ wasHealthy' \in BOOLEAN
    BY DEF MonitorOK, monitorVars, Later, GivesUp
  <1>5. retries' \in 0..MaxTransport
    <2>1. retries' \in {retries, 0} \/ (retries' = retries + 1 /\ pc["monitor"] = "m_retry")
      BY DEF At, monitorVars, Later, GivesUp
    <2>2. QED
      BY <2>1, LifecycleAssumption DEF MonitorOK, TransportBudget
  <1>6. BoundsOK' /\ GhostsOK'
    BY DEF BoundsOK, GhostsOK, boundVars, wishVars, checkVars, Later, GivesUp
  <1>7. TransportBudget'
    <2>1. CASE LooksDown
      BY <2>1 DEF TransportBudget, CallersOK, Goto, Callers
    <2>2. CASE ShowReconnecting
      BY <2>2 DEF TransportBudget, CallersOK, monitorVars, At, Goto, Callers
    <2>3. CASE ~LooksDown /\ ~ShowReconnecting
      <3>1. pc'["monitor"] \notin {"m_soft", "m_retry"}
        BY <2>3 DEF CallersOK, Goto, Callers
      <3>2. QED
        BY <3>1 DEF TransportBudget
    <2>4. QED
      BY <2>1, <2>2, <2>3
  <1>8. QED
    BY <1>1, <1>2, <1>3, <1>4, <1>5, <1>6, <1>7 DEF MonitorOK

LEMMA SurroundingsType ==
  ASSUME TypeInv, Surroundings
  PROVE  TypeInv'
  <1> USE DEF TypeInv, TypeOK, Surroundings, CallStart, CallStop, SendBegins, SendEnds,
              ListStatuses, MergeStatuses, HealthChanges, MainStep, MainGoes, StopMonitor,
              ClearPending, Drain, ClearConfigs, DisconnectAll
  <1>1. MapsOK'
    BY DEF MapsOK, States, Vacate, mapVars
  <1>2. TasksOK' /\ UseOK'
    BY DEF TasksOK, UseOK, MapsOK, taskVars, useVars, Vacate
  <1>3. CallersOK'
    BY DEF CallersOK, MapsOK, Callers, Pcs, StartPcs, StopPcs, MainPcs, Goto, Holding, pcVars
  <1>4. MonitorOK' /\ BoundsOK'
    BY DEF MonitorOK, BoundsOK, monitorVars, boundVars, Fault
  <1>5. GhostsOK'
    BY DEF GhostsOK, wishVars, checkVars
  <1>6. TransportBudget'
    BY LifecycleAssumption
       DEF TransportBudget, CallersOK, monitorVars, pcVars, Goto, Callers
  <1>7. QED
    BY <1>1, <1>2, <1>3, <1>4, <1>5, <1>6

LEMMA TypeStep == TypeInv /\ [Next]_vars => TypeInv'
  <1> SUFFICES ASSUME TypeInv, [Next]_vars PROVE TypeInv'
    OBVIOUS
  <1>1. CASE Next
    BY <1>1, NextCases, StartStepType, StopStepType, ConnectStepType,
       MonitorStepType, SurroundingsType
  <1>2. CASE UNCHANGED vars
    <2> USE <1>2 DEF vars, mapVars, taskVars, pcVars, monitorVars, boundVars, wishVars,
                     checkVars, useVars, TypeInv, TypeOK
    <2>1. MapsOK' /\ TasksOK' /\ UseOK' /\ CallersOK'
      BY DEF MapsOK, TasksOK, UseOK, CallersOK
    <2>2. MonitorOK' /\ BoundsOK' /\ GhostsOK' /\ TransportBudget'
      BY DEF MonitorOK, BoundsOK, GhostsOK, TransportBudget
    <2>3. QED
      BY <2>1, <2>2
  <1>3. QED
    BY <1>1, <1>2

LEMMA AlwaysTyped == Spec => []TypeInv
  BY InitType, TypeStep, PTL DEF Spec

\* Every map, task, caller and counter keeps its type; in particular the count
\* of transport retries stays within its limit, however the monitor's rounds,
\* the connect tasks and the API calls are interleaved.
THEOREM LifecycleTypeCorrect == Spec => []TypeOK
  <1>1. TypeInv => TypeOK
    BY DEF TypeInv
  <1>2. QED
    BY <1>1, AlwaysTyped, PTL

-----------------------------------------------------------------------------
(* A send goes through the installed adapter *)

\* The map changes only with its write lock held; nothing else moves a send.
LEMMA MapChangesUnread ==
  ASSUME Next
  PROVE  \/ /\ sending' = sending
            /\ running' = running \/ Unread
         \/ \E s \in Senders : SendBegins(s) \/ SendEnds(s)
  <1>1. ASSUME NEW c \in Callers, StartStep(c)
        PROVE  sending' = sending /\ running' = running
    BY <1>1 DEF StartStep, StartCreate, StartFails, CheckRunning, CheckPending,
                StartCheck, MarkStatus, MarkPending, MarkConfig, mapVars, useVars
  <1>2. ASSUME NEW c \in Callers, StopStep(c)
        PROVE  sending' = sending /\ (running' = running \/ Unread)
    BY <1>2 DEF StopStep, StopBegins, StopPending, CancelConfig, CancelStatus, Remove,
                Forget, Disconnect, StopStatus, mapVars, useVars
  <1>3. ASSUME NEW i \in Instances, ConnectStep(i)
        PROVE  sending' = sending /\ (running' = running \/ Unread)
    BY <1>3 DEF ConnectStep, ConnectReturns, Claim, ClearKind, Install, Announce,
                NoteKind, NoteStatus, mapVars, useVars
  <1>4. CASE MonitorStep
    BY <1>4 DEF MonitorStep, Tick, SkipPending, CheckHealth, PermanentGuard,
                LooksHealthy, LooksDown, ShowReconnecting, RetryTransport, ShowRestored,
                Evict, SetStatusFailed, CloneConfig, Sleep, PollConnected, PollFailed,
                PollTimesOut, mapVars, useVars
  <1>5. CASE Surroundings
    BY <1>5 DEF Surroundings, CallStart, CallStop, ListStatuses, MergeStatuses,
                HealthChanges, MainStep, MainGoes, StopMonitor, ClearPending, Drain,
                ClearConfigs, DisconnectAll, mapVars, useVars
  <1>6. QED
    BY <1>1, <1>2, <1>3, <1>4, <1>5, NextCases

LEMMA InstalledStep ==
  ASSUME TypeInv, SendUsesInstalled, [Next]_vars
  PROVE  SendUsesInstalled'
  <1>1. CASE sending' = sending /\ running' = running
    BY <1>1 DEF SendUsesInstalled
  <1>2. CASE sending' = sending /\ Unread
    BY <1>2, LifecycleAssumption DEF SendUsesInstalled, Unread
  <1>3. ASSUME NEW s \in Senders, SendBegins(s) PROVE SendUsesInstalled'
    BY <1>3, LifecycleAssumption
       DEF SendBegins, SendUsesInstalled, TypeInv, TypeOK, UseOK, mapVars
  <1>4. ASSUME NEW s \in Senders, SendEnds(s) PROVE SendUsesInstalled'
    BY <1>4, LifecycleAssumption
       DEF SendEnds, SendUsesInstalled, TypeInv, TypeOK, UseOK, mapVars
  <1>5. CASE UNCHANGED vars
    BY <1>1, <1>5 DEF vars, mapVars, useVars
  <1>6. QED
    BY <1>1, <1>2, <1>3, <1>4, <1>5, MapChangesUnread

\* While a message is in flight the adapter it goes through stays installed:
\* no stop, reconnect, eviction, late connect or shutdown takes it away.
THEOREM SendKeepsAdapter == Spec => []SendUsesInstalled
  <1>1. Init => SendUsesInstalled
    BY LifecycleAssumption DEF Init, SendUsesInstalled
  <1>2. Spec => []SendUsesInstalled
    BY <1>1, InstalledStep, AlwaysTyped, PTL DEF Spec
  <1>3. QED
    BY <1>2

-----------------------------------------------------------------------------
(* A stop that met no race holds *)

LEMMA SettledStart ==
  ASSUME TypeInv, SettledState, NEW c \in Callers, StartStep(c)
  PROVE  SettledState'
  <1>1. CASE StartCreate(c)
    BY <1>1 DEF StartCreate, SettledState
  <1>2. CASE StartFails(c)
    <2>1. At(c, "start") /\ settled' = settled
          /\ UNCHANGED <<running, pending, task>>
      BY <1>2 DEF StartFails, wishVars, taskVars
    <2>2. \E to \in {"ready", "m_poll", "m_fail_status"} : Goto(c, to)
      BY <1>2 DEF StartFails, StartReturns
    <2>3. QED
      BY <2>1, <2>2 DEF SettledState, Landing, StartPcs, At, Goto, TypeInv, TypeOK, CallersOK
  <1>3. CASE /\ pc[c] \in StartPcs \ {"start"}
             /\ settled' = settled
    BY <1>3 DEF SettledState
  <1>4. QED
    BY <1>1, <1>2, <1>3
       DEF StartStep, CheckRunning, CheckPending, StartCheck, MarkStatus, MarkPending,
           MarkConfig, At, StartPcs, wishVars

LEMMA SettledConnect ==
  ASSUME TypeInv, SettledState, NEW i \in Instances, ConnectStep(i)
  PROVE  SettledState'
  <1>1. settled' = settled /\ pc' = pc
    BY DEF ConnectStep, ConnectReturns, Claim, ClearKind, Install, Announce, NoteKind,
           NoteStatus, wishVars, pcVars
  <1>2. CASE ~settled
    BY <1>1, <1>2 DEF SettledState
  <1>3. CASE settled
    <2>1. ~pending /\ ~Landing(i) /\ \A j \in Instances : ~Landing(j)
      BY <1>3 DEF SettledState
    <2>2. ~pending' /\ running' = running
      BY <2>1 DEF ConnectStep, ConnectReturns, Claim, ClearKind, Install, Announce,
                  NoteKind, NoteStatus, Landing, mapVars
    <2>3. \A j \in Instances : task'[j] \notin {"claimed", "cleared"}
      BY <2>1 DEF ConnectStep, ConnectReturns, Claim, ClearKind, Install, Announce,
                  NoteKind, NoteStatus, Landing, TypeInv, TypeOK, TasksOK
    <2>4. QED
      BY <1>1, <1>3, <2>2, <2>3 DEF SettledState, Landing
  <1>4. QED
    BY <1>2, <1>3

LEMMA SettledStop ==
  ASSUME TypeInv, SettledState, NEW c \in Callers, StopStep(c)
  PROVE  SettledState'
  <1> USE DEF TypeInv, TypeOK, CallersOK
  <1>1. CASE StopPending(c)
    <2>1. CASE pending
      <3>1. Regular => running = None
        BY <2>1 DEF Regular
      <3>2. QED
        BY <1>1, <2>1, <3>1
           DEF StopPending, Goto, Regular, SettledState, Landing, StartPcs, taskVars
    <2>2. CASE ~pending
      BY <1>1, <2>2
         DEF StopPending, Goto, Regular, SettledState, Landing, StartPcs, taskVars
    <2>3. QED
      BY <2>1, <2>2
  <1>2. CASE Remove(c)
    BY <1>2 DEF Remove, Goto, Vacate, SettledState, Landing, StartPcs, taskVars, wishVars
  <1>3. CASE ~StopPending(c) /\ ~Remove(c)
    <2>1. /\ pc[c] # "remove" /\ settled' = settled
          /\ UNCHANGED <<running, pending, task>>
      BY <1>3 DEF StopStep, StopBegins, CancelConfig, CancelStatus, Forget, Disconnect,
                  StopStatus, StopReturns, At, mapVars, taskVars, wishVars
    <2>2. \E to \in {"stop_pending", "cancel_status", "ready", "m_sleep",
                     "disconnect", "stop_status"} : Goto(c, to)
      BY <1>3 DEF StopStep, StopBegins, CancelConfig, CancelStatus, Forget, Disconnect,
                  StopStatus, StopReturns
    <2>3. QED
      BY <2>1, <2>2 DEF SettledState, Landing, StartPcs, Goto
  <1>4. QED
    BY <1>1, <1>2, <1>3

LEMMA SettledMonitor ==
  ASSUME TypeInv, SettledState, MonitorStep
  PROVE  SettledState'
  <1> USE DEF TypeInv, TypeOK, CallersOK
  <1>1. /\ settled' = settled /\ UNCHANGED <<pending, task>>
        /\ running' \in {running, None}
    BY DEF MonitorStep, Tick, SkipPending, CheckHealth, PermanentGuard, LooksHealthy,
           LooksDown, ShowReconnecting, RetryTransport, ShowRestored, Evict, Vacate,
           SetStatusFailed, CloneConfig, Sleep, PollConnected, PollFailed, PollTimesOut,
           MonitorGoes, mapVars, taskVars, wishVars
  <1>2. pc["monitor"] \in MonitorPcs \cup {"ready"}
    BY DEF MonitorStep, Tick, SkipPending, CheckHealth, PermanentGuard, LooksHealthy,
           LooksDown, ShowReconnecting, RetryTransport, ShowRestored, Evict,
           SetStatusFailed, CloneConfig, Sleep, PollConnected, PollFailed, PollTimesOut,
           MonitorGoes, At, MonitorPcs
  <1>3. \E to \in MonitorPcs \cup {"ready", "start", "stop"} : Goto("monitor", to)
    BY DEF MonitorStep, Tick, SkipPending, CheckHealth, PermanentGuard, LooksHealthy,
           LooksDown, ShowReconnecting, RetryTransport, ShowRestored, Evict,
           SetStatusFailed, CloneConfig, Sleep, PollConnected, PollFailed, PollTimesOut,
           MonitorGoes, MonitorPcs
  <1>4. QED
    BY <1>1, <1>2, <1>3 DEF SettledState, Landing, StartPcs, MonitorPcs, Goto

LEMMA SettledSurroundings ==
  ASSUME TypeInv, SettledState, Surroundings
  PROVE  SettledState'
  <1> USE DEF TypeInv, TypeOK, CallersOK
  <1>1. ASSUME NEW u \in Users, CallStart(u) \/ CallStop(u) PROVE SettledState'
    BY <1>1 DEF CallStart, CallStop, At, Goto, SettledState, Landing, StartPcs, mapVars,
                taskVars
  <1>2. ASSUME NEW s \in Senders, SendBegins(s) \/ SendEnds(s) PROVE SettledState'
    BY <1>2 DEF SendBegins, SendEnds, SettledState, Landing, mapVars, taskVars, pcVars,
                wishVars
  <1>3. CASE ListStatuses \/ MergeStatuses \/ HealthChanges
    BY <1>3 DEF ListStatuses, MergeStatuses, HealthChanges, SettledState, Landing,
                mapVars, taskVars, pcVars, wishVars
  <1>4. CASE MainStep
    <2>1. /\ settled' = settled /\ task' = task
          /\ pending' \in {pending, FALSE} /\ running' \in {running, None}
          /\ \A c \in Callers : pc'[c] = pc[c]
      BY <1>4, LifecycleAssumption
         DEF MainStep, MainGoes, StopMonitor, ClearPending, Drain, ClearConfigs,
             DisconnectAll, Vacate, Goto, Callers, taskVars, wishVars
    <2>2. QED
      BY <2>1 DEF SettledState, Landing
  <1>5. QED
    BY <1>1, <1>2, <1>3, <1>4 DEF Surroundings

LEMMA SettledStep ==
  ASSUME TypeInv, SettledState, [Next]_vars
  PROVE  SettledState'
  <1>1. CASE Next
    BY <1>1, NextCases, SettledStart, SettledConnect, SettledStop, SettledMonitor,
       SettledSurroundings
  <1>2. CASE UNCHANGED vars
    BY <1>2 DEF vars, mapVars, taskVars, pcVars, wishVars, SettledState, Landing
  <1>3. QED
    BY <1>1, <1>2

\* stop() holds when no connect task is past its mark, no start() past its
\* creation and no object both installed and connecting: whatever the monitor,
\* connect tasks, sends and other calls do, nothing is installed until some
\* start() creates another object.
THEOREM SettledStopIsFinal == Spec => []SettledStopHolds
  <1>1. Init => SettledState
    BY DEF Init, SettledState
  <1>2. Spec => []SettledState
    BY <1>1, SettledStep, AlwaysTyped, PTL DEF Spec
  <1>3. SettledState => SettledStopHolds
    BY DEF SettledState, SettledStopHolds, StopPcs
  <1>4. QED
    BY <1>2, <1>3, PTL

-----------------------------------------------------------------------------
(* The kind on record is the kind of the failure the monitor sees             *)

\* Neither a failure nor its kind is on record.
Clean == errKind = "none" /\ lastFailure = "none"
\* A task past its mark.
Busy(i) == task[i] \in {"claimed", "cleared", "announce", "note"}
\* No start() has got as far as its connect task.
Fresh == /\ \A i \in Instances : task[i] = "none"
         /\ ~config /\ pc["monitor"] = "ready" /\ Clean
\* The monitor found nothing connecting; it reconnects after a stop() of its own.
Searching    == {"m_health", "m_guard", "m_decide", "m_soft", "m_retry", "m_hard", "m_config"}
Reconnecting == (StopPcs \ {"stop"}) \cup {"m_sleep"} \cup (StartPcs \ {"mark_config"})

\* The API's start() is over before the monitor looks at the platform.
StartIsAlone ==
  /\ calls["start"] = 0 => Fresh /\ ~pending
  /\ \A u \in Users : pc[u] \in StartPcs =>
       /\ calls["start"] = 1 /\ Fresh
       /\ pending => pc[u] = "mark_config"
       /\ \A v \in Users : pc[v] \in StartPcs => v = u
KindIsKept == errKind = IF lastFailure = "unknown" THEN "none" ELSE lastFailure
\* A connect begins, and its task takes its mark, with no failure on record.
MarkIsClean == pending => Clean /\ \A i \in Instances : ~Busy(i)
ClaimIsClean ==
  \A i \in Instances : task[i] = "claimed" =>
    Clean /\ \A j \in Instances : task[j] = "claimed" => j = i
MonitorIsAlone ==
  /\ pc["monitor"] \in Searching \cup {"stop"} \cup Reconnecting =>
       ~pending /\ \A i \in Instances : ~Busy(i)
  /\ pc["monitor"] \in Reconnecting => Clean
KindInv == StartIsAlone /\ KindIsKept /\ MarkIsClean /\ ClaimIsClean /\ MonitorIsAlone

\* start() was called through the API at most once.
OneStart == calls["start"] <= 1

\* No caller takes a step while a task is past its mark.
LEMMA InTimeMeansIdle ==
  ASSUME Punctual, InTime
  PROVE  \A i \in Instances : ~Busy(i)
  BY DEF InTime, Busy

\* A step that leaves the tasks, the mark, the kind and the monitor alone, and
\* takes no user into a start(), keeps the invariant.
LEMMA KindFramed ==
  ASSUME TypeInv, KindInv, UNCHANGED <<task, errKind, lastFailure>>, calls'["start"] = calls["start"],
         pending' \in {pending, FALSE}, config' \in {config, FALSE}, pc'["monitor"] = pc["monitor"],
         \A u \in Users : pc'[u] = pc[u] \/ pc'[u] \notin StartPcs
  PROVE  KindInv'
  <1>1. Fresh => Fresh'
    BY DEF Fresh, Clean
  <1>2. pending' => pending
    BY DEF TypeInv, TypeOK, MapsOK
  <1>3. StartIsAlone'
    BY <1>1, <1>2 DEF KindInv, StartIsAlone
  <1>4. KindIsKept' /\ MarkIsClean' /\ ClaimIsClean' /\ MonitorIsAlone'
    BY <1>2 DEF KindInv, KindIsKept, MarkIsClean, ClaimIsClean, MonitorIsAlone, Clean, Busy
  <1>5. QED
    BY <1>3, <1>4 DEF KindInv

\* The one start() of the API.
LEMMA KindUserStart ==
  ASSUME Punctual, TypeInv, KindInv, NEW u \in Users, StartStep(u)
  PROVE  KindInv'
  <1> USE DEF TypeInv, TypeOK, CallersOK
  <1>1. /\ pc[u] \in StartPcs /\ UNCHANGED <<errKind, lastFailure, calls>>
        /\ u # "monitor" /\ u \in Callers \cup {"main"}
    BY LifecycleAssumption
       DEF StartStep, StartCreate, StartFails, CheckRunning, CheckPending, StartCheck, MarkStatus,
           MarkPending, MarkConfig, StartReturns, InitFault, At, StartPcs, mapVars, checkVars,
           boundVars, Later, Callers
  <1>2. /\ calls["start"] = 1 /\ Fresh /\ \A v \in Users : pc[v] \in StartPcs => v = u
        /\ pending => pc[u] = "mark_config"
    BY <1>1 DEF KindInv, StartIsAlone
  <1>3. PICK to \in Pcs : pc' = [pc EXCEPT ![u] = to]
    BY <1>1 DEF StartStep, StartCreate, StartFails, CheckRunning, CheckPending, StartCheck, MarkStatus,
           MarkPending, MarkConfig, StartReturns, Goto, Pcs, StartPcs, MainPcs
  <1>4. pc'["monitor"] = "ready" /\ \A v \in Users : v # u => pc'[v] = pc[v]
    BY <1>1, <1>2, <1>3 DEF Fresh, Callers
  <1>5. CASE MarkConfig(u)
    <2>1. to = "ready" /\ \A v \in Users : pc'[v] \notin StartPcs
      BY <1>1, <1>2, <1>3, <1>4, <1>5 DEF MarkConfig, StartReturns, Goto, StartPcs
    <2>2. \A i \in Instances : task'[i] \in {"none", "connecting"}
      BY <1>2, <1>5 DEF MarkConfig, Fresh, TasksOK
    <2>3. StartIsAlone'
      BY <1>1, <1>2, <2>1 DEF StartIsAlone
    <2>4. Clean'
      BY <1>1, <1>2 DEF Fresh, Clean
    <2>5. KindIsKept' /\ MarkIsClean' /\ ClaimIsClean' /\ MonitorIsAlone'
      BY <1>4, <2>2, <2>4 DEF KindIsKept, Clean, MarkIsClean, ClaimIsClean, MonitorIsAlone, Busy,
         Searching, Reconnecting, StopPcs, StartPcs
    <2>6. QED
      BY <2>3, <2>5 DEF KindInv
  <1>6. CASE ~MarkConfig(u)
    <2>1. UNCHANGED <<task, config>>
      BY <1>6 DEF StartStep, StartCreate, StartFails, CheckRunning, CheckPending, StartCheck, MarkStatus,
           MarkPending, mapVars, taskVars
    <2>2. Fresh' /\ Clean'
      BY <1>1, <1>2, <1>4, <2>1 DEF Fresh, Clean
    <2>3. pending' => to = "mark_config"
      <3>1. CASE MarkPending(u)
        BY <1>1, <1>3, <3>1 DEF MarkPending, Goto
      <3>2. CASE ~MarkPending(u)
        <4>1. pending' = pending /\ pc[u] # "mark_config"
          BY <1>6, <3>2 DEF StartStep, StartCreate, StartFails, CheckRunning, CheckPending,
             StartCheck, MarkStatus, At, mapVars
        <4>2. QED
          BY <1>2, <4>1
      <3>3. QED
        BY <3>1, <3>2
    <2>4. StartIsAlone'
      BY <1>1, <1>2, <1>3, <1>4, <2>2, <2>3 DEF StartIsAlone
    <2>5. KindIsKept' /\ MarkIsClean' /\ ClaimIsClean' /\ MonitorIsAlone'
      BY <1>4, <2>2 DEF KindIsKept, Clean, MarkIsClean, ClaimIsClean, MonitorIsAlone, Busy,
         Fresh, Searching, Reconnecting, StopPcs, StartPcs
    <2>6. QED
      BY <2>4, <2>5 DEF KindInv
  <1>7. QED
    BY <1>5, <1>6

\* A start() of the monitor follows its own stop().
LEMMA KindMonitorStart ==
  ASSUME Punctual, TypeInv, KindInv, StartStep("monitor")
  PROVE  KindInv'
  <1> USE DEF TypeInv, TypeOK, CallersOK
  <1>1. /\ pc["monitor"] \in StartPcs /\ UNCHANGED <<errKind, lastFailure, calls>>
        /\ "monitor" \notin Users /\ "monitor" \in Callers \cup {"main"}
    BY LifecycleAssumption
       DEF StartStep, StartCreate, StartFails, CheckRunning, CheckPending, StartCheck, MarkStatus,
           MarkPending, MarkConfig, StartReturns, InitFault, At, StartPcs, mapVars, checkVars,
           boundVars, Later, GivesUp, Callers
  <1>2. \A i \in Instances : ~Busy(i)
    BY InTimeMeansIdle DEF StartStep
  <1>3. ~Fresh /\ calls["start"] # 0 /\ \A u \in Users : pc[u] \notin StartPcs
    BY <1>1 DEF Fresh, KindInv, StartIsAlone, StartPcs
  <1>4. PICK to \in Pcs : pc' = [pc EXCEPT !["monitor"] = to]
    BY <1>1 DEF StartStep, StartCreate, StartFails, CheckRunning, CheckPending, StartCheck, MarkStatus,
           MarkPending, MarkConfig, StartReturns, Goto, Pcs, StartPcs, MainPcs, MonitorPcs
  <1>5. StartIsAlone'
    BY <1>1, <1>3, <1>4 DEF StartIsAlone, Callers
  <1>6. \A i \in Instances : ~Busy(i)'
    BY <1>2 DEF StartStep, StartCreate, StartFails, CheckRunning, CheckPending, StartCheck, MarkStatus,
           MarkPending, MarkConfig, Busy, taskVars, TasksOK
  <1>7. KindIsKept' /\ ClaimIsClean'
    BY <1>1, <1>6 DEF KindInv, KindIsKept, ClaimIsClean, Busy
  <1>8. CASE MarkPending("monitor")
    <2>1. Clean /\ to = "mark_config"
      BY <1>1, <1>4, <1>8 DEF KindInv, MonitorIsAlone, Reconnecting, StartPcs, StopPcs, MarkPending, At, Goto
    <2>2. MarkIsClean' /\ MonitorIsAlone'
      BY <1>1, <1>4, <1>6, <2>1 DEF Clean, MarkIsClean, MonitorIsAlone, Searching, Reconnecting, StopPcs, StartPcs
    <2>3. QED
      BY <1>5, <1>7, <2>2 DEF KindInv
  <1>9. CASE MarkConfig("monitor")
    <2>1. to = "m_poll" /\ pending' = pending
      BY <1>1, <1>4, <1>9 DEF MarkConfig, StartReturns, Goto
    <2>2. MarkIsClean' /\ MonitorIsAlone'
      BY <1>1, <1>4, <1>6, <2>1 DEF KindInv, Clean, MarkIsClean, MonitorIsAlone, Searching, Reconnecting, StopPcs, StartPcs
    <2>3. QED
      BY <1>5, <1>7, <2>2 DEF KindInv
  <1>10. CASE ~MarkPending("monitor") /\ ~MarkConfig("monitor")
    <2>1. pending' = pending /\ pc["monitor"] \in Reconnecting
      BY <1>10 DEF StartStep, StartCreate, StartFails, CheckRunning, CheckPending, StartCheck, MarkStatus,
         At, Reconnecting, StartPcs, mapVars
    <2>2. ~pending' /\ Clean'
      BY <1>1, <2>1 DEF KindInv, MonitorIsAlone, Clean
    <2>3. MarkIsClean' /\ MonitorIsAlone'
      BY <1>6, <2>2 DEF MarkIsClean, MonitorIsAlone
    <2>4. QED
      BY <1>5, <1>7, <2>3 DEF KindInv
  <1>11. QED
    BY <1>8, <1>9, <1>10

\* A connect task takes the mark and notes its result.
LEMMA KindConnect ==
  ASSUME TypeInv, KindInv, NEW i \in Instances, ConnectStep(i)
  PROVE  KindInv'
  <1> USE DEF TypeInv, TypeOK, TasksOK
  <1>1. UNCHANGED <<pc, calls>> /\ task[i] # "none" /\ pending' \in {pending, FALSE}
    BY DEF ConnectStep, ConnectReturns, Claim, ClearKind, Install, Announce, NoteKind, NoteStatus,
           pcVars, boundVars, mapVars, Fault
  <1>2. ~Fresh /\ calls["start"] # 0 /\ \A u \in Users : pc[u] \notin StartPcs
    BY <1>1 DEF Fresh, KindInv, StartIsAlone
  <1>3. StartIsAlone'
    BY <1>1, <1>2 DEF StartIsAlone
  <1>4. PICK at \in {"none", "returned", "claimed", "cleared", "announce", "note"} :
          task' = [task EXCEPT ![i] = at]
    BY DEF ConnectStep, ConnectReturns, Claim, ClearKind, Install, Announce, NoteKind, NoteStatus
  <1>5. CASE Claim(i) /\ pending
    <2>1. Clean /\ \A j \in Instances : ~Busy(j)
      BY <1>5 DEF KindInv, MarkIsClean
    <2>2. ~pending' /\ Clean' /\ at = "claimed"
      BY <1>4, <1>5, <2>1 DEF Claim, Clean, checkVars
    <2>3. KindIsKept' /\ MarkIsClean'
      BY <2>2 DEF KindIsKept, MarkIsClean, Clean
    <2>4. ClaimIsClean'
      BY <1>4, <2>1, <2>2 DEF ClaimIsClean, Busy
    <2>5. pc["monitor"] \notin Searching \cup {"stop"} \cup Reconnecting
      BY <1>5 DEF KindInv, MonitorIsAlone
    <2>6. MonitorIsAlone'
      BY <1>1, <2>5 DEF MonitorIsAlone
    <2>7. QED
      BY <1>3, <2>3, <2>4, <2>6 DEF KindInv
  <1>6. CASE task[i] = "claimed"
    <2>1. Clean /\ Busy(i) /\ ~pending /\ \A j \in Instances : task[j] = "claimed" => j = i
      BY <1>6 DEF KindInv, ClaimIsClean, MarkIsClean, Busy
    <2>2. ClearKind(i) \/ NoteKind(i)
      BY <1>6 DEF ConnectStep, ConnectReturns, Claim, Install, Announce, NoteStatus
    <2>3. ~pending' /\ KindIsKept' /\ at # "claimed"
      BY <1>4, <2>1, <2>2 DEF ClearKind, NoteKind, Clean, KindIsKept, checkVars
    <2>4. MarkIsClean' /\ ClaimIsClean'
      BY <1>4, <2>1, <2>3 DEF MarkIsClean, ClaimIsClean
    <2>5. MonitorIsAlone'
      BY <1>1, <2>1 DEF KindInv, MonitorIsAlone
    <2>6. QED
      BY <1>3, <2>3, <2>4, <2>5 DEF KindInv
  <1>7. CASE task[i] # "claimed" /\ ~(Claim(i) /\ pending)
    <2>1. UNCHANGED <<errKind, lastFailure>> /\ at # "claimed"
      BY <1>4, <1>7 DEF ConnectStep, ConnectReturns, Claim, ClearKind, Install, Announce, NoteKind, NoteStatus,
           mapVars, checkVars
    <2>2. \A j \in Instances : Busy(j)' => Busy(j)
      BY <1>4, <1>7 DEF ConnectStep, ConnectReturns, Claim, ClearKind, Install, Announce, NoteKind, NoteStatus, Busy
    <2>3. pending' => pending
      BY <1>1 DEF MapsOK
    <2>4. KindIsKept' /\ MarkIsClean' /\ MonitorIsAlone'
      BY <1>1, <2>1, <2>2, <2>3 DEF KindInv, KindIsKept, MarkIsClean, MonitorIsAlone, Clean
    <2>5. ClaimIsClean'
      BY <1>4, <2>1 DEF KindInv, ClaimIsClean, Clean
    <2>6. QED
      BY <1>3, <2>4, <2>5 DEF KindInv
  <1>8. QED
    BY <1>5, <1>6, <1>7

\* Any stop() forgets the failure with its kind.
LEMMA KindStop ==
  ASSUME Punctual, TypeInv, KindInv, NEW c \in Callers, StopStep(c)
  PROVE  KindInv'
  <1> USE DEF TypeInv, TypeOK, CallersOK
  <1>1. /\ UNCHANGED <<task, calls>> /\ pending' \in {pending, FALSE} /\ config' \in {config, FALSE}
        /\ pc[c] \in StopPcs /\ c \in Callers \cup {"main"}
    BY DEF StopStep, StopBegins, StopPending, CancelConfig, CancelStatus, Remove, Forget, Disconnect,
           StopStatus, StopPcs, At, mapVars, taskVars, boundVars
  <1>2. \A i \in Instances : ~Busy(i) /\ ~Busy(i)'
    BY <1>1, InTimeMeansIdle DEF StopStep, Busy
  <1>3. PICK to \in (StopPcs \ {"stop"}) \cup (IF c \in Users THEN {"ready"} ELSE {"m_sleep"}) :
          pc' = [pc EXCEPT ![c] = to]
    BY DEF StopStep, StopBegins, StopPending, CancelConfig, CancelStatus, Remove, Forget, Disconnect,
           StopStatus, StopReturns, StopPcs, Goto
  <1>4. pending' => pending
    BY <1>1 DEF MapsOK
  <1>5. UNCHANGED <<errKind, lastFailure>> \/ (Clean' /\ pc[c] = "stop")
    BY DEF StopStep, StopBegins, StopPending, CancelConfig, CancelStatus, Remove, Forget, Disconnect,
           StopStatus, At, Clean, mapVars, checkVars
  <1>6. Clean => Clean'
    BY <1>5 DEF Clean
  <1>7. KindIsKept' /\ MarkIsClean' /\ ClaimIsClean'
    BY <1>2, <1>4, <1>5, <1>6 DEF KindInv, KindIsKept, Clean, MarkIsClean, ClaimIsClean, Busy
  <1>8. CASE c \in Users
    <2>1. pc'["monitor"] = pc["monitor"] /\ \A u \in Users : pc'[u] \notin StartPcs \/ pc'[u] = pc[u]
      BY <1>1, <1>3, <1>8, LifecycleAssumption DEF StopPcs, StartPcs, Callers
    <2>2. Fresh => Fresh'
      BY <1>1, <1>6, <2>1 DEF Fresh, MapsOK
    <2>3. StartIsAlone'
      BY <1>1, <1>4, <2>1, <2>2 DEF KindInv, StartIsAlone
    <2>4. MonitorIsAlone'
      BY <1>2, <1>4, <1>6, <2>1 DEF KindInv, MonitorIsAlone
    <2>5. QED
      BY <1>7, <2>3, <2>4 DEF KindInv
  <1>9. CASE c = "monitor"
    <2>1. \A u \in Users : pc'[u] = pc[u]
      BY <1>3, <1>9, LifecycleAssumption DEF Callers
    <2>2. ~Fresh
      BY <1>1, <1>9 DEF Fresh, StopPcs
    <2>3. StartIsAlone'
      BY <1>1, <2>1, <2>2 DEF KindInv, StartIsAlone
    <2>4. ~pending /\ (pc["monitor"] = "stop" \/ Clean)
      BY <1>1, <1>9 DEF KindInv, MonitorIsAlone, Reconnecting
    <2>5. Clean'
      <3>1. CASE StopBegins(c)
        BY <3>1 DEF StopBegins, Clean
      <3>2. CASE ~StopBegins(c)
        <4>1. pc[c] # "stop"
          BY <3>2 DEF StopStep, StopPending, CancelConfig, CancelStatus, Remove, Forget, Disconnect,
             StopStatus, At
        <4>2. QED
          BY <1>6, <1>9, <2>4, <4>1
      <3>3. QED
        BY <3>1, <3>2
    <2>6. MonitorIsAlone'
      BY <1>2, <1>4, <2>4, <2>5 DEF MonitorIsAlone
    <2>7. QED
      BY <1>7, <2>3, <2>6 DEF KindInv
  <1>10. QED
    BY <1>8, <1>9 DEF Callers

\* A round of the monitor.
LEMMA KindMonitor ==
  ASSUME Punctual, TypeInv, KindInv, MonitorStep
  PROVE  KindInv'
  <1> USE DEF TypeInv, TypeOK, CallersOK
  <1>1. UNCHANGED <<task, calls, pending, config, errKind, lastFailure>>
    BY DEF MonitorStep, Tick, SkipPending, CheckHealth, PermanentGuard, LooksHealthy, LooksDown,
           ShowReconnecting, RetryTransport, ShowRestored, Evict, SetStatusFailed, CloneConfig,
           Sleep, PollConnected, PollFailed, PollTimesOut, MonitorGoes, Later, GivesUp, mapVars,
           taskVars, boundVars, checkVars
  <1>2. \A i \in Instances : ~Busy(i) /\ ~Busy(i)'
    BY <1>1, InTimeMeansIdle DEF MonitorStep, Busy
  <1>3. PICK to \in MonitorPcs \cup {"ready", "stop", "start"} : pc' = [pc EXCEPT !["monitor"] = to]
    BY DEF MonitorStep, Tick, SkipPending, CheckHealth, PermanentGuard, LooksHealthy, LooksDown,
           ShowReconnecting, RetryTransport, ShowRestored, Evict, SetStatusFailed, CloneConfig,
           Sleep, PollConnected, PollFailed, PollTimesOut, MonitorGoes, Goto, MonitorPcs
  <1>4. \A u \in Users : pc'[u] = pc[u]
    BY <1>3, LifecycleAssumption DEF Callers
  <1>5. ~Fresh
    <2>1. pc["monitor"] # "ready" \/ config
      BY DEF MonitorStep, Tick, SkipPending, CheckHealth, PermanentGuard, LooksHealthy, LooksDown,
           ShowReconnecting, RetryTransport, ShowRestored, Evict, SetStatusFailed, CloneConfig,
           Sleep, PollConnected, PollFailed, PollTimesOut, MonitorGoes, At
    <2>2. QED
      BY <2>1 DEF Fresh
  <1>6. StartIsAlone'
    BY <1>1, <1>4, <1>5 DEF KindInv, StartIsAlone
  <1>7. KindIsKept' /\ MarkIsClean' /\ ClaimIsClean'
    BY <1>1, <1>2 DEF KindInv, KindIsKept, Clean, MarkIsClean, ClaimIsClean, Busy
  <1>8. /\ to \in Searching \cup {"stop"} \cup Reconnecting => ~pending
        /\ to \in Reconnecting => Clean
    <2>1. CASE SkipPending
      <3>1. to = IF pending THEN "ready" ELSE "m_health"
        BY <1>3, <2>1 DEF SkipPending, MonitorGoes, Goto, Callers
      <3>2. QED
        BY <3>1 DEF Searching, Reconnecting, StopPcs, StartPcs
    <2>2. CASE Sleep
      <3>1. pc["monitor"] = "m_sleep"
        BY <2>2 DEF Sleep, MonitorGoes, At
      <3>2. QED
        BY <3>1 DEF KindInv, MonitorIsAlone, Reconnecting
    <2>3. CASE ~SkipPending /\ ~Sleep
      <3>1. \/ to \in {"ready", "m_pending", "m_restored", "m_evict", "m_fail_status", "m_poll"}
            \/ pc["monitor"] \in Searching /\ to \in Searching \cup {"stop"}
        BY <1>3, <2>3 DEF MonitorStep, Tick, CheckHealth, PermanentGuard, LooksHealthy, LooksDown,
             ShowReconnecting, RetryTransport, ShowRestored, Evict, SetStatusFailed, CloneConfig,
             PollConnected, PollFailed, PollTimesOut, MonitorGoes, At, Goto, Searching, Callers
      <3>2. QED
        BY <3>1 DEF KindInv, MonitorIsAlone, Searching, Reconnecting, StopPcs, StartPcs
    <2>4. QED
      BY <2>1, <2>2, <2>3
  <1>9. pc'["monitor"] = to
    BY <1>3 DEF Callers
  <1>10. MonitorIsAlone'
    BY <1>1, <1>2, <1>8, <1>9 DEF MonitorIsAlone, Clean
  <1>11. QED
    BY <1>6, <1>7, <1>10 DEF KindInv

\* API calls, sends, listings, the adapter and the shutdown.
LEMMA KindSurroundings ==
  ASSUME TypeInv, KindInv, OneStart', Surroundings
  PROVE  KindInv'
  <1> USE DEF TypeInv, TypeOK, CallersOK
  <1>1. ASSUME NEW u \in Users, CallStart(u) PROVE KindInv'
    <2>1. calls["start"] = 0 /\ calls'["start"] = 1
      BY <1>1 DEF CallStart, OneStart, BoundsOK
    <2>2. Fresh /\ ~pending
      BY <2>1 DEF KindInv, StartIsAlone
    <2>3. \A v \in Users : pc[v] \notin StartPcs
      BY <2>1 DEF KindInv, StartIsAlone
    <2>4. pc' = [pc EXCEPT ![u] = "start"] /\ UNCHANGED <<task, config, pending, errKind, lastFailure>>
      BY <1>1 DEF CallStart, Goto, taskVars, mapVars, checkVars
    <2>5. pc'["monitor"] = pc["monitor"] /\ \A v \in Users : v # u => pc'[v] = pc[v]
      BY <2>4, LifecycleAssumption DEF Callers
    <2>6. Fresh' /\ ~pending'
      BY <2>2, <2>4, <2>5 DEF Fresh, Clean
    <2>7. StartIsAlone'
      BY <2>1, <2>3, <2>5, <2>6 DEF StartIsAlone
    <2>8. KindIsKept' /\ MarkIsClean' /\ ClaimIsClean' /\ MonitorIsAlone'
      BY <2>6 DEF KindIsKept, Clean, MarkIsClean, ClaimIsClean, MonitorIsAlone, Busy, Fresh
    <2>9. QED
      BY <2>7, <2>8 DEF KindInv
  <1>2. CASE ~\E u \in Users : CallStart(u)
    <2>1. /\ UNCHANGED <<task, errKind, lastFailure>> /\ pending' \in {pending, FALSE} /\ config' \in {config, FALSE}
      BY <1>2 DEF Surroundings, CallStop, SendBegins, SendEnds, ListStatuses, MergeStatuses, HealthChanges,
         MainStep, MainGoes, StopMonitor, ClearPending, Drain, ClearConfigs, DisconnectAll,
         mapVars, taskVars, checkVars
    <2>2. calls'["start"] = calls["start"]
      BY <1>2 DEF Surroundings, CallStop, SendBegins, SendEnds, ListStatuses, MergeStatuses, HealthChanges,
         MainStep, MainGoes, StopMonitor, ClearPending, Drain, ClearConfigs, DisconnectAll, Fault,
         boundVars, BoundsOK
    <2>3. \/ pc' = pc \/ \E to \in Pcs : pc' = [pc EXCEPT !["main"] = to]
          \/ \E u \in Users : pc' = [pc EXCEPT ![u] = "stop"]
      BY <1>2 DEF Surroundings, CallStop, SendBegins, SendEnds, ListStatuses, MergeStatuses, HealthChanges,
         MainStep, MainGoes, StopMonitor, ClearPending, Drain, ClearConfigs, DisconnectAll, Goto,
         pcVars, Pcs, MainPcs
    <2>4. pc'["monitor"] = pc["monitor"] /\ \A u \in Users : pc'[u] = pc[u] \/ pc'[u] \notin StartPcs
      BY <2>3, LifecycleAssumption DEF Callers, StartPcs
    <2>5. QED
      BY <2>1, <2>2, <2>4, KindFramed
  <1>3. QED
    BY <1>1, <1>2

\* Only the API counts calls.
LEMMA CallsAreCounted ==
  ASSUME Next
  PROVE  calls' = calls \/ \E u \in Users : CallStart(u) \/ CallStop(u)
  <1>1. ASSUME NEW c \in Callers, StartStep(c) \/ StopStep(c) PROVE calls' = calls
    BY <1>1 DEF StartStep, StartCreate, StartFails, CheckRunning, CheckPending, StartCheck,
         MarkStatus, MarkPending, MarkConfig, StopStep, StopBegins, StopPending, CancelConfig,
         CancelStatus, Remove, Forget, Disconnect, StopStatus, InitFault, boundVars
  <1>2. ASSUME NEW i \in Instances, ConnectStep(i) PROVE calls' = calls
    BY <1>2 DEF ConnectStep, ConnectReturns, Claim, ClearKind, Install, Announce, NoteKind,
         NoteStatus, Fault, boundVars
  <1>3. CASE MonitorStep
    BY <1>3 DEF MonitorStep, Tick, SkipPending, CheckHealth, PermanentGuard, LooksHealthy,
         LooksDown, ShowReconnecting, RetryTransport, ShowRestored, Evict, SetStatusFailed,
         CloneConfig, Sleep, PollConnected, PollFailed, PollTimesOut, MonitorGoes, Fault, boundVars
  <1>4. CASE Surroundings
    BY <1>4 DEF Surroundings, SendBegins, SendEnds, ListStatuses, MergeStatuses, HealthChanges,
         MainStep, MainGoes, StopMonitor, ClearPending, Drain, ClearConfigs, DisconnectAll,
         Fault, boundVars
  <1>5. QED
    BY <1>1, <1>2, <1>3, <1>4, NextCases

\* Every step, while start() was called at most once.
LEMMA KindStep ==
  ASSUME Punctual, TypeInv, OneStart => KindInv, [Next]_vars
  PROVE  OneStart' => KindInv'
  <1> SUFFICES ASSUME OneStart' PROVE KindInv'
    OBVIOUS
  <1>1. calls'["start"] \in Nat /\ calls["start"] \in Nat /\ calls["start"] <= calls'["start"]
    <2>1. CASE Next
      <3>1. calls' = calls \/ \E u \in Users : CallStart(u) \/ CallStop(u)
        BY <2>1, CallsAreCounted
      <3>2. QED
        BY <3>1 DEF CallStart, CallStop, TypeInv, TypeOK, BoundsOK
    <2>2. CASE UNCHANGED vars
      BY <2>2 DEF vars, boundVars, TypeInv, TypeOK, BoundsOK
    <2>3. QED
      BY <2>1, <2>2
  <1>2. KindInv
    BY <1>1 DEF OneStart
  <1>3. CASE Next
    BY <1>2, <1>3, NextCases, KindUserStart, KindMonitorStart, KindStop, KindConnect, KindMonitor,
       KindSurroundings DEF Callers
  <1>4. CASE UNCHANGED vars
    BY <1>2, <1>4, KindFramed DEF vars, mapVars, taskVars, pcVars, boundVars, checkVars
  <1>5. QED
    BY <1>3, <1>4

\* When connect tasks finish their few steps in time and start() was called once
\* through the API, the kind on record when the monitor sees its reconnect fail is
\* the kind of that failure, whatever stops, rounds, time-outs and shutdowns come
\* between (manager.rs, reconnect.rs).
THEOREM KindIsCurrent ==
  ASSUME Punctual
  PROVE  Spec => [](OneStart => KindIsOfThisFailure)
  <1>1. Init => KindInv
    <2> SUFFICES ASSUME Init PROVE KindInv
      OBVIOUS
    <2>1. Fresh /\ ~pending /\ \A u \in Users : pc[u] \notin StartPcs
      BY DEF Init, Fresh, Clean, Callers, StartPcs
    <2>2. QED
      BY <2>1 DEF KindInv, StartIsAlone, KindIsKept, Clean, MarkIsClean, ClaimIsClean, MonitorIsAlone,
         Busy, Fresh, Searching, Reconnecting, StopPcs, StartPcs
  <1>2. TypeInv /\ (OneStart => KindInv) /\ [Next]_vars => (OneStart => KindInv)'
    BY KindStep
  <1>3. KindInv => KindIsOfThisFailure
    BY DEF KindInv, KindIsKept, KindIsOfThisFailure
  <1>4. Spec => [](OneStart => KindInv)
    BY <1>1, <1>2, AlwaysTyped, PTL DEF Spec
  <1>5. QED
    BY <1>3, <1>4, PTL
=============================================================================
