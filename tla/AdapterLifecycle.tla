-------------------------- MODULE AdapterLifecycle --------------------------
(***************************************************************************)
(* AdapterManager, seen from one platform: start and stop called through   *)
(* the API, the connect task start() spawns, the health monitor with its   *)
(* transport retry and its full reconnect, messages sent through the       *)
(* installed adapter, and stop_all at shutdown.                            *)
(*                                                                         *)
(* Every map of the manager has a lock of its own, so one action is one    *)
(* critical section; a call is a sequence of them and other calls step in  *)
(* between.  The lock of the adapters map is held by a send for as long as *)
(* the platform takes.                                                     *)
(***************************************************************************)
EXTENDS Naturals, FiniteSets

CONSTANTS
  Users,             \* concurrent API calls
  UserOps,           \* what they call: a subset of {"start", "stop"}
  Instances,         \* bound: adapter objects alive at a time
  None,
  Elsewhere,         \* an adapter of another platform
  Senders,           \* concurrent sends, through any platform's adapter
  TransportOutcomes, \* what the adapter's retry_transport may return
  MaxTransport,      \* MAX_TRANSPORT_RETRIES
  MaxCalls,          \* bound: API calls
  MaxInitFaults,     \* bound: failing create or init
  MaxFaults,         \* bound: connects and retries that fail, task deaths
  MayShutDown,       \* is the gateway shut down in this instance
  Punctual           \* timing: a connect task that took its pending mark is
                     \* done before any caller takes another step

ASSUME LifecycleAssumption ==
  /\ UserOps \subseteq {"start", "stop"}
  /\ None \notin Instances /\ Elsewhere \notin Instances \cup {None}
  /\ "monitor" \notin Users /\ "main" \notin Users
  /\ TransportOutcomes \subseteq {"restarted", "unsupported", "transient", "permanent"}
  /\ MaxTransport \in Nat /\ MaxCalls \in Nat
  /\ MaxInitFaults \in Nat /\ MaxFaults \in Nat
  /\ MayShutDown \in BOOLEAN /\ Punctual \in BOOLEAN

VARIABLES
  running,     \* adapters[platform]: the installed object
  pending,     \* platform \in pending_connections
  status,      \* statuses[platform].state
  config,      \* platform \in configs
  errKind,     \* last_connect_error_kind[platform]
  task,        \* where the connect task of each object is
  result,      \* what its connect() returned
  health,      \* health of the installed object
  sending,     \* the object each send in flight goes through
  listing,     \* list_statuses has a live state at hand
  pc, mine,    \* where each caller is, the object it has at hand
  perm, needs, retries, wasHealthy,   \* ReconnectState of the monitor
  calls, initFaults, faults,          \* bounds
  stopped,     \* ghost: a stop() returned, no start() was called since
  started,     \* ghost: start() was called since the last call of stop()
  settled,     \* ghost: a stop() met no connect task past its claim
  retryDue,    \* ghost: the monitor announced a next retry
  lastFailure  \* ghost: how the last connect that counted failed

mapVars     == <<running, pending, status, config, errKind>>
taskVars    == <<task, result>>
pcVars      == <<pc, mine>>
monitorVars == <<perm, needs, retries, wasHealthy>>
boundVars   == <<calls, initFaults, faults>>
wishVars    == <<stopped, started, settled>>
checkVars   == <<retryDue, lastFailure>>
useVars     == <<health, sending, listing>>
vars == <<mapVars, taskVars, pcVars, monitorVars, boundVars, wishVars,
          checkVars, useVars>>

Callers == Users \cup {"monitor"}

States   == {"absent", "connecting", "connected", "reconnecting", "failed", "stopped"}
Failures == {"transient", "permanent", "unknown"}

StopPcs  == {"stop", "stop_pending", "cancel_config", "cancel_status",
             "remove", "forget", "disconnect", "stop_status"}
StartPcs == {"start", "check_running", "check_pending", "mark_status",
             "mark_pending", "mark_config"}
MonitorPcs == {"m_pending", "m_health", "m_guard", "m_decide", "m_soft",
               "m_retry", "m_restored", "m_evict",
               "m_fail_status", "m_hard", "m_config", "m_sleep", "m_poll"}
MainPcs  == {"ready", "clear_pending", "drain", "clear_config", "disconnect", "exited"}
Pcs == StopPcs \cup StartPcs \cup MonitorPcs \cup MainPcs

MapsOK ==
  /\ running \in Instances \cup {None}
  /\ pending \in BOOLEAN /\ config \in BOOLEAN
  /\ status \in States
  /\ errKind \in {"none", "transient", "permanent"}

TasksOK ==
  /\ task \in [Instances -> {"none", "connecting", "returned", "claimed",
                             "cleared", "announce", "note"}]
  /\ result \in [Instances -> {"none", "ok"} \cup Failures]

UseOK ==
  /\ health \in {"up", "quiet", "down"}
  /\ sending \in [Senders -> Instances \cup {None, Elsewhere}]
  /\ listing \in BOOLEAN

CallersOK ==
  /\ pc \in [Callers \cup {"main"} -> Pcs]
  /\ mine \in [Callers \cup {"main"} -> Instances \cup {None}]

MonitorOK ==
  /\ perm \in BOOLEAN /\ needs \in BOOLEAN /\ wasHealthy \in BOOLEAN
  /\ retries \in 0..MaxTransport

BoundsOK ==
  /\ calls \in [{"start", "stop"} -> Nat]
  /\ initFaults \in Nat /\ faults \in Nat

GhostsOK ==
  /\ stopped \in BOOLEAN /\ started \in BOOLEAN /\ settled \in BOOLEAN
  /\ retryDue \in BOOLEAN
  /\ lastFailure \in {"none"} \cup Failures

\* Every map, task and caller has its type; transport retries stay in budget.
TypeOK ==
  MapsOK /\ TasksOK /\ UseOK /\ CallersOK /\ MonitorOK /\ BoundsOK /\ GhostsOK

Init ==
  /\ running = None /\ pending = FALSE /\ status = "absent" /\ config = FALSE
  /\ errKind = "none"
  /\ task = [i \in Instances |-> "none"]
  /\ result = [i \in Instances |-> "none"]
  /\ health = "up" /\ sending = [s \in Senders |-> None] /\ listing = FALSE
  /\ pc = [c \in Callers \cup {"main"} |-> "ready"]
  /\ mine = [c \in Callers \cup {"main"} |-> None]
  /\ perm = FALSE /\ needs = FALSE /\ retries = 0 /\ wasHealthy = FALSE
  /\ calls = [o \in {"start", "stop"} |-> 0] /\ initFaults = 0 /\ faults = 0
  /\ stopped = FALSE /\ started = FALSE /\ settled = FALSE
  /\ retryDue = FALSE /\ lastFailure = "none"

-----------------------------------------------------------------------------
(* Helpers *)

At(c, from)     == pc[c] = from
Goto(c, to)     == pc' = [pc EXCEPT ![c] = to]
Holding(c, i)   == mine' = [mine EXCEPT ![c] = i]

\* An entry of the status cache is only updated when there is one.
Show(state) == status' = IF status = "absent" THEN "absent" ELSE state

\* Objects nobody refers to any more are dropped.
Free(i) == /\ running # i /\ task[i] = "none"
           /\ \A c \in Callers \cup {"main"} : mine[c] # i

\* The write lock of the adapters map: no send holds the read lock.
Unread == \A s \in Senders : sending[s] = None

\* The map entry goes; the health of an object outside the map is nobody's.
Vacate == running' = None /\ health' = "up"

\* A task between taking its pending mark and installing its object.
Landing(i) == task[i] \in {"claimed", "cleared"}

\* The few steps between two awaits of a connect task against the 30 s of a
\* monitor round: assumed in the instances that say so.
InTime == Punctual => \A i \in Instances : task[i] \in {"none", "connecting", "returned"}

Fault     == faults < MaxFaults /\ faults' = faults + 1 /\ UNCHANGED <<calls, initFaults>>
InitFault == initFaults < MaxInitFaults /\ initFaults' = initFaults + 1
             /\ UNCHANGED <<calls, faults>>

\* How the monitor takes a failure: give up for good, or retry later.
GivesUp == perm' = TRUE /\ retryDue' = FALSE /\ UNCHANGED <<needs, retries, wasHealthy>>
Later   == retryDue' = TRUE /\ UNCHANGED monitorVars

-----------------------------------------------------------------------------
(* start(platform, config) *)

CallStart(u) ==
  /\ At(u, "ready") /\ "start" \in UserOps
  /\ calls["start"] + calls["stop"] < MaxCalls
  /\ calls' = [calls EXCEPT !["start"] = @ + 1]
  /\ Goto(u, "start")
  /\ stopped' = FALSE /\ started' = TRUE /\ UNCHANGED settled
  /\ UNCHANGED <<mapVars, taskVars, mine, monitorVars, initFaults, faults,
                 checkVars, useVars>>

\* start() returns; a reconnecting monitor waits for the outcome, or deals
\* with the error, of which only the classification matters.
StartReturns(c, ok) ==
  IF c \in Users
  THEN Goto(c, "ready") /\ UNCHANGED <<perm, needs, retries, wasHealthy, retryDue>>
  ELSE IF ok THEN Goto(c, "m_poll") /\ UNCHANGED <<perm, needs, retries, wasHealthy, retryDue>>
  ELSE Goto(c, "ready") /\ Later

StartCreate(c) ==
  /\ At(c, "start")
  /\ \E i \in Instances : Free(i) /\ Holding(c, i)
  /\ Goto(c, "check_running")
  /\ settled' = FALSE
  /\ UNCHANGED <<mapVars, taskVars, monitorVars, boundVars, stopped, started,
                 checkVars, useVars>>

\* create or init returns an error, or init says ok: false, which is shown.
StartFails(c) ==
  /\ At(c, "start")
  /\ InitFault
  /\ status' \in {status, "failed"}
  /\ \/ StartReturns(c, FALSE)
     \/ c = "monitor" /\ GivesUp /\ Goto(c, "m_fail_status")
  /\ UNCHANGED <<running, pending, config, errKind, taskVars, mine, wishVars,
                 lastFailure, useVars>>

StartCheck(c, from, refused, to) ==
  /\ At(c, from)
  /\ IF refused THEN Holding(c, None) /\ StartReturns(c, FALSE)
     ELSE /\ Goto(c, to)
          /\ UNCHANGED <<mine, perm, needs, retries, wasHealthy, retryDue>>
  /\ UNCHANGED <<mapVars, taskVars, boundVars, wishVars, lastFailure, useVars>>

CheckRunning(c) == StartCheck(c, "check_running", running # None, "check_pending")
CheckPending(c) == StartCheck(c, "check_pending", pending, "mark_status")

MarkStatus(c) ==
  /\ At(c, "mark_status") /\ Goto(c, "mark_pending")
  /\ status' = "connecting"
  /\ UNCHANGED <<running, pending, config, errKind, taskVars, mine, monitorVars,
                 boundVars, wishVars, checkVars, useVars>>

MarkPending(c) ==
  /\ At(c, "mark_pending") /\ Goto(c, "mark_config")
  /\ pending' = TRUE
  /\ UNCHANGED <<running, status, config, errKind, taskVars, mine, monitorVars,
                 boundVars, wishVars, checkVars, useVars>>

\* The config is kept for the monitor, the connect task is spawned.
MarkConfig(c) ==
  /\ At(c, "mark_config")
  /\ config' = TRUE
  /\ task' = [task EXCEPT ![mine[c]] = "connecting"]
  /\ Holding(c, None)
  /\ StartReturns(c, TRUE)
  /\ UNCHANGED <<running, pending, status, errKind, result, boundVars, wishVars,
                 lastFailure, useVars>>

-----------------------------------------------------------------------------
(* The connect task of object i *)

ConnectReturns(i) ==
  /\ task[i] = "connecting"
  /\ task' = [task EXCEPT ![i] = "returned"]
  /\ \/ result' = [result EXCEPT ![i] = "ok"] /\ UNCHANGED boundVars
     \/ Fault /\ \E f \in Failures : result' = [result EXCEPT ![i] = f]
  /\ UNCHANGED <<mapVars, pcVars, monitorVars, wishVars, checkVars, useVars>>

\* Mutant: the task goes on although its mark is gone.
Claim_NoCheck(i) ==
  /\ task[i] = "returned"
  /\ task' = [task EXCEPT ![i] = "claimed"]
  /\ pending' = FALSE
  /\ UNCHANGED <<running, status, config, errKind, result, pcVars, monitorVars,
                 boundVars, wishVars, checkVars, useVars>>

\* The task takes the pending mark; without it, the object is dropped.
Claim(i) ==
  /\ task[i] = "returned"
  /\ task' = [task EXCEPT ![i] = IF pending THEN "claimed" ELSE "none"]
  /\ result' = [result EXCEPT ![i] = IF pending THEN @ ELSE "none"]
  /\ pending' = FALSE
  /\ UNCHANGED <<running, status, config, errKind, pcVars, monitorVars,
                 boundVars, wishVars, checkVars, useVars>>

ClearKind(i) ==
  /\ task[i] = "claimed" /\ result[i] = "ok"
  /\ task' = [task EXCEPT ![i] = "cleared"]
  /\ result' = [result EXCEPT ![i] = "none"]
  /\ errKind' = "none"
  /\ UNCHANGED <<running, pending, status, config, pcVars, monitorVars,
                 boundVars, wishVars, checkVars, useVars>>

\* An object that was installed before is dropped, not disconnected.
Install(i) ==
  /\ task[i] = "cleared" /\ Unread
  /\ task' = [task EXCEPT ![i] = "announce"]
  /\ running' = i /\ health' = "up"
  /\ UNCHANGED <<pending, status, config, errKind, result, pcVars, monitorVars,
                 boundVars, wishVars, checkVars, sending, listing>>

\* The configuration is stored with the lock of the statuses still held.
Announce(i) ==
  /\ task[i] = "announce"
  /\ task' = [task EXCEPT ![i] = "none"]
  /\ Show("connected") /\ config' = TRUE
  /\ UNCHANGED <<running, pending, errKind, result, pcVars, monitorVars,
                 boundVars, wishVars, checkVars, useVars>>

\* connect() failed: the kind of the failure first, then the status.
NoteKind(i) ==
  /\ task[i] = "claimed" /\ result[i] # "ok"
  /\ task' = [task EXCEPT ![i] = "note"]
  /\ errKind' = IF result[i] = "unknown" THEN errKind ELSE result[i]
  /\ lastFailure' = result[i] /\ result' = [result EXCEPT ![i] = "none"]
  /\ UNCHANGED <<running, pending, status, config, pcVars, monitorVars,
                 boundVars, wishVars, retryDue, useVars>>

\* Mutant: the configuration of an adapter that fails to connect is removed.
NoteStatus_Forgets(i) ==
  /\ task[i] = "note"
  /\ task' = [task EXCEPT ![i] = "none"]
  /\ Show("failed") /\ config' = FALSE
  /\ UNCHANGED <<running, pending, errKind, result, pcVars, monitorVars,
                 boundVars, wishVars, checkVars, useVars>>

\* The configuration stays, for the monitor to retry.
NoteStatus(i) ==
  /\ task[i] = "note"
  /\ task' = [task EXCEPT ![i] = "none"]
  /\ Show("failed")
  /\ UNCHANGED <<running, pending, config, errKind, result, pcVars, monitorVars,
                 boundVars, wishVars, checkVars, useVars>>

ConnectStep(i) == \/ ConnectReturns(i) \/ Claim(i) \/ ClearKind(i) \/ Install(i)
                  \/ Announce(i) \/ NoteKind(i) \/ NoteStatus(i)

-----------------------------------------------------------------------------
(* stop(platform) *)

CallStop(u) ==
  /\ At(u, "ready") /\ "stop" \in UserOps
  /\ calls["start"] + calls["stop"] < MaxCalls
  /\ calls' = [calls EXCEPT !["stop"] = @ + 1]
  /\ Goto(u, "stop")
  /\ started' = FALSE /\ UNCHANGED <<stopped, settled>>
  /\ UNCHANGED <<mapVars, taskVars, mine, monitorVars, initFaults, faults,
                 checkVars, useVars>>

\* stop() returns: it had the last word if nobody called start() meanwhile.
StopReturns(c) ==
  /\ Goto(c, IF c \in Users THEN "ready" ELSE "m_sleep")
  /\ stopped' = (\/ stopped
                 \/ /\ c \in Users /\ ~started
                    /\ \A u \in Users \ {c} : At(u, "ready"))
  /\ UNCHANGED <<started, settled>>

\* Mutant: the kind of an earlier failure stays on record.
StopBegins_KeepsKind(c) ==
  /\ At(c, "stop") /\ Goto(c, "stop_pending")
  /\ lastFailure' = "none"
  /\ UNCHANGED <<mapVars, taskVars, mine, monitorVars, boundVars, wishVars,
                 retryDue, useVars>>

StopBegins(c) ==
  /\ At(c, "stop") /\ Goto(c, "stop_pending")
  /\ errKind' = "none" /\ lastFailure' = "none"
  /\ UNCHANGED <<running, pending, status, config, taskVars, mine, monitorVars,
                 boundVars, wishVars, retryDue, useVars>>

\* No object is on its way into the map unmarked, none is connecting while
\* another one is installed.
Regular == /\ \A i \in Instances : ~Landing(i)
           /\ \A c \in Callers : pc[c] \notin StartPcs \ {"start"}
           /\ ~(pending /\ running # None)

StopPending(c) ==
  /\ At(c, "stop_pending")
  /\ Goto(c, IF pending THEN "cancel_config" ELSE "remove")
  /\ pending' = FALSE
  /\ settled' = Regular
  /\ UNCHANGED <<running, status, config, errKind, taskVars, mine, monitorVars,
                 boundVars, stopped, started, checkVars, useVars>>

CancelConfig(c) ==
  /\ At(c, "cancel_config") /\ Goto(c, "cancel_status")
  /\ config' = FALSE
  /\ UNCHANGED <<running, pending, status, errKind, taskVars, mine, monitorVars,
                 boundVars, wishVars, checkVars, useVars>>

CancelStatus(c) ==
  /\ At(c, "cancel_status")
  /\ Show("stopped")
  /\ StopReturns(c)
  /\ UNCHANGED <<running, pending, config, errKind, taskVars, mine, monitorVars,
                 boundVars, checkVars, useVars>>

\* Mutant: the object is taken out of the map with sends in flight.
Remove_Unlocked(c) ==
  /\ At(c, "remove") /\ Goto(c, "forget")
  /\ Holding(c, running) /\ Vacate
  /\ UNCHANGED <<pending, status, config, errKind, taskVars, monitorVars,
                 boundVars, wishVars, checkVars, sending, listing>>

Remove(c) ==
  /\ At(c, "remove") /\ Unread
  /\ Goto(c, "forget")
  /\ Holding(c, running) /\ Vacate
  /\ UNCHANGED <<pending, status, config, errKind, taskVars, monitorVars,
                 boundVars, wishVars, checkVars, sending, listing>>

Forget(c) ==
  /\ At(c, "forget")
  /\ config' = FALSE
  /\ IF mine[c] = None THEN StopReturns(c) ELSE Goto(c, "disconnect") /\ UNCHANGED wishVars
  /\ UNCHANGED <<running, pending, status, errKind, taskVars, mine, monitorVars,
                 boundVars, checkVars, useVars>>

Disconnect(c) ==
  /\ c \in Callers /\ At(c, "disconnect") /\ Goto(c, "stop_status")
  /\ Holding(c, None)
  /\ UNCHANGED <<mapVars, taskVars, monitorVars, boundVars, wishVars, checkVars, useVars>>

StopStatus(c) ==
  /\ At(c, "stop_status")
  /\ Show("stopped")
  /\ StopReturns(c)
  /\ UNCHANGED <<running, pending, config, errKind, taskVars, mine, monitorVars,
                 boundVars, checkVars, useVars>>

StartStep(c) ==
  /\ InTime
  /\ \/ StartCreate(c) \/ StartFails(c) \/ CheckRunning(c) \/ CheckPending(c)
     \/ MarkStatus(c) \/ MarkPending(c) \/ MarkConfig(c)

StopStep(c) ==
  /\ InTime
  /\ \/ StopBegins(c) \/ StopPending(c) \/ CancelConfig(c) \/ CancelStatus(c)
     \/ Remove(c) \/ Forget(c) \/ Disconnect(c) \/ StopStatus(c)

-----------------------------------------------------------------------------
(* The health monitor: one round over the platform every 30 s, none while   *)
(* its back-off lasts.                                                      *)

MonitorGoes(from, to) ==
  /\ At("monitor", from) /\ Goto("monitor", to)
  /\ UNCHANGED <<mine, boundVars, wishVars, taskVars>>

Tick ==
  /\ MonitorGoes("ready", "m_pending")
  /\ pc["main"] = "ready"
  /\ config
  /\ retryDue' = FALSE
  /\ UNCHANGED <<mapVars, monitorVars, lastFailure, useVars>>

SkipPending ==
  /\ MonitorGoes("m_pending", IF pending THEN "ready" ELSE "m_health")
  /\ UNCHANGED <<mapVars, monitorVars, checkVars, useVars>>

\* needs_reconnect; an object that is gone needs it as well.
CheckHealth ==
  /\ MonitorGoes("m_health", IF perm THEN "m_guard" ELSE "m_decide")
  /\ needs' = (running = None \/ health = "down")
  /\ UNCHANGED <<mapVars, perm, retries, wasHealthy, checkVars, useVars>>

\* After a permanent failure only an adapter seen healthy is looked after.
PermanentGuard ==
  LET healthy == running # None /\ health = "up" IN
  /\ MonitorGoes("m_guard", IF healthy THEN "m_decide" ELSE "ready")
  /\ perm' = ~healthy
  /\ UNCHANGED <<mapVars, needs, retries, wasHealthy, checkVars, useVars>>

LooksHealthy ==
  /\ ~needs
  /\ MonitorGoes("m_decide", "ready")
  /\ retries' = IF wasHealthy THEN 0 ELSE retries
  /\ wasHealthy' = TRUE /\ needs' = FALSE
  /\ UNCHANGED <<mapVars, perm, checkVars, useVars>>

\* Mutant: the transport is restarted any number of times.
LooksDown_NoLimit ==
  /\ needs
  /\ MonitorGoes("m_decide", IF running # None THEN "m_soft" ELSE "m_hard")
  /\ needs' = FALSE
  /\ UNCHANGED <<mapVars, perm, retries, wasHealthy, checkVars, useVars>>

LooksDown ==
  /\ needs
  /\ MonitorGoes("m_decide",
       IF running # None /\ retries < MaxTransport THEN "m_soft" ELSE "m_hard")
  /\ needs' = FALSE
  /\ UNCHANGED <<mapVars, perm, retries, wasHealthy, checkVars, useVars>>

ShowReconnecting ==
  /\ \/ MonitorGoes("m_soft", "m_retry") \/ MonitorGoes("m_hard", "m_config")
  /\ Show("reconnecting")
  /\ UNCHANGED <<running, pending, config, errKind, monitorVars, checkVars, useVars>>

\* retry_transport(), called with the write lock of the map.
RetryTransport ==
  /\ Unread
  /\ \/ /\ running # None /\ "restarted" \in TransportOutcomes
        /\ MonitorGoes("m_retry", "m_restored")
        /\ health' = "up" /\ retries' = retries + 1
        /\ UNCHANGED <<perm, retryDue>>
     \/ /\ running # None /\ "unsupported" \in TransportOutcomes
        /\ MonitorGoes("m_retry", "m_hard")
        /\ UNCHANGED <<health, retries, perm, retryDue>>
     \/ /\ running = None \/ "transient" \in TransportOutcomes
        /\ MonitorGoes("m_retry", "ready")
        /\ retries' = retries + 1 /\ retryDue' = TRUE
        /\ UNCHANGED <<health, perm>>
     \/ /\ running # None /\ "permanent" \in TransportOutcomes
        /\ MonitorGoes("m_retry", "m_evict")
        /\ perm' = TRUE
        /\ UNCHANGED <<health, retries, retryDue>>
  /\ UNCHANGED <<mapVars, needs, wasHealthy, lastFailure, sending, listing>>

ShowRestored ==
  /\ MonitorGoes("m_restored", "ready")
  /\ Show("connected")
  /\ UNCHANGED <<running, pending, config, errKind, monitorVars, checkVars, useVars>>

\* The object is removed and disconnected under the lock of the map.
Evict ==
  /\ MonitorGoes("m_evict", "m_fail_status") /\ Unread
  /\ Vacate
  /\ UNCHANGED <<pending, status, config, errKind, monitorVars, checkVars, sending, listing>>

SetStatusFailed ==
  /\ MonitorGoes("m_fail_status", "ready")
  /\ status' = "failed"
  /\ UNCHANGED <<running, pending, config, errKind, monitorVars, checkVars, useVars>>

CloneConfig ==
  /\ MonitorGoes("m_config", IF config THEN "stop" ELSE "ready")
  /\ UNCHANGED <<mapVars, monitorVars, checkVars, useVars>>

\* Two seconds for the sockets to drain.
Sleep ==
  /\ MonitorGoes("m_sleep", "start")
  /\ UNCHANGED <<mapVars, monitorVars, checkVars, useVars>>

\* get_status(): an installed object speaks for itself.
View == IF running # None THEN "connected" ELSE status

PollConnected ==
  /\ MonitorGoes("m_poll", "ready")
  /\ ~pending /\ View = "connected"
  /\ retries' = 0 /\ perm' = FALSE
  /\ UNCHANGED <<mapVars, needs, wasHealthy, checkVars, useVars>>

\* The kind of the failure decides; without one, the wording does.
PollFailed ==
  /\ At("monitor", "m_poll") /\ ~pending /\ View = "failed"
  /\ \/ errKind # "permanent" /\ Later /\ Goto("monitor", "ready")
     \/ errKind # "transient" /\ GivesUp /\ Goto("monitor", "m_fail_status")
  /\ UNCHANGED <<mapVars, taskVars, mine, boundVars, wishVars, lastFailure,
                 useVars>>

\* 60 s without a result.
PollTimesOut ==
  /\ At("monitor", "m_poll") /\ Goto("monitor", "ready")
  /\ Later
  /\ UNCHANGED <<mapVars, taskVars, mine, boundVars, wishVars, lastFailure,
                 useVars>>

MonitorStep ==
  /\ InTime
  /\ \/ Tick \/ SkipPending \/ CheckHealth \/ PermanentGuard
     \/ LooksHealthy \/ LooksDown \/ ShowReconnecting
     \/ RetryTransport \/ ShowRestored \/ Evict \/ SetStatusFailed
     \/ CloneConfig \/ Sleep \/ PollConnected \/ PollFailed \/ PollTimesOut

-----------------------------------------------------------------------------
(* Sends, status listings, the adapter's own task, and shutdown *)

\* A queued writer has precedence over new readers.
WriterWaits ==
  \/ \E c \in Callers \cup {"main"} : pc[c] \in {"remove", "m_retry", "m_evict", "drain"}
  \/ \E i \in Instances : task[i] = "cleared"

SendBegins(s) ==
  /\ sending[s] = None /\ ~WriterWaits
  /\ \E i \in {running, Elsewhere} \ {None} : sending' = [sending EXCEPT ![s] = i]
  /\ UNCHANGED <<mapVars, taskVars, pcVars, monitorVars, boundVars, wishVars,
                 checkVars, health, listing>>

\* Mutant: a send without a time-out.
SendEnds_Never(s) == FALSE

SendEnds(s) ==
  /\ sending[s] # None
  /\ sending' = [sending EXCEPT ![s] = None]
  /\ UNCHANGED <<mapVars, taskVars, pcVars, monitorVars, boundVars, wishVars,
                 checkVars, health, listing>>

\* list_statuses collects the live states, and later merges them into the
\* cache, where a terminal state prevails.
ListStatuses ==
  /\ running # None /\ ~listing /\ listing' = TRUE
  /\ UNCHANGED <<mapVars, taskVars, pcVars, monitorVars, boundVars, wishVars,
                 checkVars, health, sending>>

MergeStatuses ==
  /\ listing /\ listing' = FALSE
  /\ status' = IF status \in {"failed", "stopped"} THEN status ELSE "connected"
  /\ UNCHANGED <<running, pending, config, errKind, taskVars, pcVars, monitorVars,
                 boundVars, wishVars, checkVars, health, sending>>

\* The adapter's task dies (down), falls silent (quiet) or hears again (up).
HealthChanges ==
  /\ running # None
  /\ \/ health # "down" /\ Fault /\ health' \in {"quiet", "down"} \ {health}
     \/ health = "quiet" /\ health' = "up" /\ UNCHANGED boundVars
  /\ UNCHANGED <<mapVars, taskVars, pcVars, monitorVars, wishVars, checkVars,
                 sending, listing>>

\* stop_all(), after the HTTP server answered its last request: the monitor
\* is told to stop, which it heeds between two rounds.
MainGoes(from, to) ==
  /\ MayShutDown
  /\ At("main", from) /\ Goto("main", to)
  /\ UNCHANGED <<status, errKind, taskVars, monitorVars, boundVars, wishVars,
                 checkVars, sending, listing>>

StopMonitor ==
  /\ MainGoes("ready", "clear_pending")
  /\ \A u \in Users : At(u, "ready")
  /\ UNCHANGED <<running, pending, config, mine, health>>

ClearPending ==
  /\ MainGoes("clear_pending", "drain")
  /\ pending' = FALSE /\ UNCHANGED <<running, config, mine, health>>

Drain ==
  /\ MainGoes("drain", "clear_config") /\ Unread
  /\ Holding("main", running) /\ Vacate /\ UNCHANGED <<pending, config>>

ClearConfigs ==
  /\ MainGoes("clear_config", "disconnect")
  /\ config' = FALSE /\ UNCHANGED <<running, pending, mine, health>>

DisconnectAll ==
  /\ MainGoes("disconnect", "exited")
  /\ Holding("main", None) /\ UNCHANGED <<running, pending, config, health>>

MainStep == StopMonitor \/ ClearPending \/ Drain \/ ClearConfigs \/ DisconnectAll

-----------------------------------------------------------------------------
Next ==
  /\ pc["main"] # "exited"
  /\ \/ \E u \in Users : pc["main"] = "ready" /\ (CallStart(u) \/ CallStop(u))
     \/ \E c \in Callers : StartStep(c) \/ StopStep(c)
     \/ \E i \in Instances : ConnectStep(i)
     \/ MonitorStep
     \/ \E s \in Senders : SendBegins(s) \/ SendEnds(s)
     \/ ListStatuses \/ MergeStatuses
     \/ HealthChanges
     \/ MainStep

Spec == Init /\ [][Next]_vars

\* The runtime polls every task that can run; the adapters bound their calls
\* to the platform by time-outs.  Strong fairness of StartCreate only keeps the
\* bound on objects from starving a start.  Nothing is assumed of API callers.
Fairness ==
  /\ \A c \in Callers : /\ WF_vars(StartStep(c)) /\ WF_vars(StopStep(c))
                       /\ SF_vars(InTime /\ StartCreate(c))
  /\ \A i \in Instances : WF_vars(ConnectStep(i))
  /\ \A s \in Senders : WF_vars(SendEnds(s))
  /\ WF_vars(MonitorStep)

FairSpec == Spec /\ Fairness

-----------------------------------------------------------------------------
(* Safety *)

\* A message in flight goes through the object installed in the map: nobody
\* disconnects, replaces or drops an adapter in the middle of a send.
SendUsesInstalled ==
  \A s \in Senders : sending[s] \in Instances => sending[s] = running

\* A stop() that met no race leaves nothing installed and nothing on its way
\* into the map until the next start: a connect it cancelled is dropped.
SettledStopHolds ==
  settled /\ (\A c \in Callers : pc[c] \notin StopPcs) => running = None

\* When the monitor sees its reconnect fail (and no other connect is about to
\* install its object), the kind on record is the kind of that failure: it
\* neither gives up on an outage nor keeps retrying refused credentials.
KindIsOfThisFailure ==
  /\ At("monitor", "m_poll") /\ ~pending /\ View = "failed"
  /\ \A i \in Instances : ~Landing(i)
  => errKind = IF lastFailure = "unknown" THEN "none" ELSE lastFailure

-----------------------------------------------------------------------------
(* Liveness *)

\* Every call of start() and stop() returns, although sends hold the lock of
\* the map and keep coming.
CallsReturn == \A u \in Users : ~At(u, "ready") ~> At(u, "ready")

\* While nobody stops it, an adapter that was started, failed to connect or
\* died is up again once the platform lets it, unless it was given up for good.
Recovers == [](config => <>((running # None /\ health # "down") \/ perm))

-----------------------------------------------------------------------------
(* What comments in the code say and the code does not do *)

\* stop() deals with connected adapters and with those still connecting.
StopHolds == stopped => running = None

\* After a failed reconnect the configuration is still there for the retry
\* that was announced, when nobody called stop().
RetryIsPossible ==
  retryDue /\ At("monitor", "ready") /\ calls["stop"] = 0 => config
=============================================================================
