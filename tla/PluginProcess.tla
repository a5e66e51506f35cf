---------------------------- MODULE PluginProcess ----------------------------
(* A plugin as an adapter: the process that is spawned, the requests written   *)
(* to it line by line, the reader task that hands answers to the callers, and  *)
(* what happens when the process ends, hangs or is replaced. The factory and    *)
(* the adapter manager both initialise an instance, one after the other.       *)
EXTENDS Integers, Sequences, FiniteSets

CONSTANTS IpCalls,                \* calls, by the request id
          MaxIpProcesses          \* bound: processes spawned
ASSUME IpAssumption == IsFiniteSet(IpCalls) /\ MaxIpProcesses \in Nat \ {0}

VARIABLES
  ipAt,             \* what the owner of the instance does next
  ipProcesses,      \* spawned processes: "alive", "ended", and "read" to the end
  ipChild,          \* the process whose handle and stdin the instance holds; 0 is none
  ipExited,         \* child_exited
  ipGeneration,     \* the process whose table of pending requests is in use
  ipPending,        \* requests in each process's table
  ipCall,           \* calls: state, table, process written to, result
  ipConnected       \* the adapter's state is Connected
ipVars == <<ipAt, ipProcesses, ipChild, ipExited, ipGeneration, ipPending, ipCall, ipConnected>>

Unused == [at |-> "unused", table |-> 0, process |-> 0, result |-> "none"]
ControlSteps == {"handshake", "init", "connect", "retry_transport", "disconnect", "shutdown"}
IpInit ==
  /\ ipAt = "factory" /\ ipProcesses = <<>> /\ ipChild = 0 /\ ipExited = FALSE /\ ipGeneration = 0
  /\ ipPending = [g \in 0..MaxIpProcesses |-> {}] /\ ipCall = [c \in IpCalls |-> Unused] /\ ipConnected = FALSE

NoCall == \A c \in IpCalls : ipCall[c].at = "unused"
Alive(g) == g \in DOMAIN ipProcesses /\ ipProcesses[g] = "alive"
Ends(c, result) == [ipCall EXCEPT ![c].at = "done", ![c].result = result]

(* ---- the owner: AdapterFactory, AdapterManager ------------------------- *)

\* A fresh table and a fresh flag, then the process, which may not start.
\* Dropping the handle of an earlier process kills it.
Spawns ==
  /\ Len(ipProcesses) < MaxIpProcesses /\ ipExited' = FALSE
  /\ \/ /\ ipGeneration' = Len(ipProcesses) + 1 /\ ipChild' = ipGeneration' /\ ipAt' = "handshake"
        /\ ipProcesses' = Append([g \in DOMAIN ipProcesses |-> IF ipProcesses[g] = "alive" THEN "ended" ELSE ipProcesses[g]], "alive")
     \/ ipAt' = "dropped" /\ UNCHANGED <<ipGeneration, ipChild, ipProcesses>>
  /\ UNCHANGED <<ipPending, ipCall, ipConnected>>

\* Mutant: an instance whose process runs is initialised once more.
IpStart_AlwaysSpawns == ipAt \in {"factory", "start"} /\ NoCall /\ Spawns

\* init, from the factory and again from AdapterManager::start: a process that
\* runs is kept.
IpStart ==
  /\ ipAt \in {"factory", "start"} /\ NoCall
  /\ \/ ipChild # 0 /\ ~ipExited /\ ipAt' = "connect" /\ UNCHANGED <<ipProcesses, ipChild, ipExited, ipGeneration, ipPending, ipCall, ipConnected>>
     \/ (ipChild = 0 \/ ipExited) /\ Spawns

\* What may follow a control call that succeeded, or failed: an instance whose
\* init fails is dropped, a failed connect may be tried again, and disconnect
\* goes through in any case.
After(step, ok) ==
  CASE step = "handshake" -> {IF ok THEN "init" ELSE "dropped"}
    [] step = "init" -> {IF ~ok THEN "dropped" ELSE IF ipGeneration = 1 THEN "start" ELSE "connect"}
    [] step \in {"connect", "retry_transport"} -> IF ok THEN {"serve"} ELSE {"connect", "disconnect", "dropped"}
    [] step = "disconnect" -> {"shutdown"} [] OTHER -> {"reap"}

\* The one control call of a step has been answered; a handshake of another
\* protocol version counts as failed.
IpControlEnds ==
  /\ ipAt \in ControlSteps
  /\ \E c \in IpCalls :
       /\ ipCall[c].at = "done"
       /\ \E ok \in {ipCall[c].result = "answer", FALSE} : ipAt' \in After(ipAt, ok) /\ ipConnected' = IF ipAt = "connect" THEN ok ELSE ipConnected
       /\ ipCall' = [ipCall EXCEPT ![c] = Unused]
  /\ UNCHANGED <<ipProcesses, ipChild, ipExited, ipGeneration, ipPending>>

\* The manager stops or replaces the adapter, or its health check asks for the
\* transport to be retried; calls of others end first.
IpLeave == ipAt = "serve" /\ NoCall /\ ipAt' \in {"disconnect", "retry_transport"} /\ UNCHANGED <<ipProcesses, ipChild, ipExited, ipGeneration, ipPending, ipCall, ipConnected>>

\* disconnect waits for the process, without a limit.
IpReap ==
  /\ ipAt = "reap" /\ (ipChild = 0 \/ ~Alive(ipChild))
  /\ ipAt' = "dropped" /\ ipChild' = 0 /\ ipConnected' = FALSE /\ UNCHANGED <<ipProcesses, ipExited, ipGeneration, ipPending, ipCall>>

\* An instance that failed to start is dropped and its process killed.
IpDropped ==
  /\ ipAt = "dropped" /\ Alive(ipChild)
  /\ ipProcesses' = [ipProcesses EXCEPT ![ipChild] = "ended"] /\ UNCHANGED <<ipAt, ipChild, ipExited, ipGeneration, ipPending, ipCall, ipConnected>>

(* ---- calls ------------------------------------------------------------- *)

\* A control step makes one call; a connected adapter serves several callers
\* (send, send_media) at once.
MayCall == (ipAt \in ControlSteps /\ NoCall) \/ ipAt = "serve"

IpRegister ==
  \E c \in IpCalls :
    /\ MayCall /\ ipCall[c].at = "unused" /\ ipPending' = [ipPending EXCEPT ![ipGeneration] = @ \cup {c}]
    /\ ipCall' = [ipCall EXCEPT ![c] = [at |-> "registered", table |-> ipGeneration, process |-> 0, result |-> "none"]]
    /\ UNCHANGED <<ipAt, ipProcesses, ipChild, ipExited, ipGeneration, ipConnected>>

\* The request goes to the stdin the instance holds. If there is none, or the
\* process has ended, the call fails and its entry stays in the table.
IpWrite ==
  \E c \in IpCalls :
    /\ ipCall[c].at = "registered"
    /\ \/ Alive(ipChild) /\ ipCall' = [ipCall EXCEPT ![c].at = "waits", ![c].process = ipChild]
       \/ ~Alive(ipChild) /\ ipCall' = Ends(c, "unwritten")
    /\ UNCHANGED <<ipAt, ipProcesses, ipChild, ipExited, ipGeneration, ipPending, ipConnected>>

\* The reader of a process takes a line: a caller in that process's table gets it.
IpAnswer ==
  \E c \in IpCalls, result \in {"answer", "error"} :
    /\ ipCall[c].at = "waits" /\ Alive(ipCall[c].process) /\ c \in ipPending[ipCall[c].process]
    /\ ipPending' = [ipPending EXCEPT ![ipCall[c].process] = @ \ {c}] /\ ipCall' = Ends(c, result)
    /\ UNCHANGED <<ipAt, ipProcesses, ipChild, ipExited, ipGeneration, ipConnected>>

\* The call gives up after call_timeout; a late answer finds nobody.
IpTimeout ==
  \E c \in IpCalls :
    /\ ipCall[c].at = "waits" /\ ipPending' = [ipPending EXCEPT ![ipCall[c].table] = @ \ {c}] /\ ipCall' = Ends(c, "timeout")
    /\ UNCHANGED <<ipAt, ipProcesses, ipChild, ipExited, ipGeneration, ipConnected>>

\* The caller takes its result; the id is not used again, another stands for it.
IpReturns ==
  \E c \in IpCalls : ipAt \notin ControlSteps /\ ipCall[c].at = "done" /\ ipCall' = [ipCall EXCEPT ![c] = Unused]
                     /\ UNCHANGED <<ipAt, ipProcesses, ipChild, ipExited, ipGeneration, ipPending, ipConnected>>

(* ---- the process and its reader ---------------------------------------- *)

IpEnds ==
  \E g \in DOMAIN ipProcesses :
    Alive(g) /\ ipProcesses' = [ipProcesses EXCEPT ![g] = "ended"] /\ UNCHANGED <<ipAt, ipChild, ipExited, ipGeneration, ipPending, ipCall, ipConnected>>

\* The end of the output: the flag is set, and every request in the table of
\* that process fails.
IpReadToEnd ==
  \E g \in DOMAIN ipProcesses :
    /\ ipProcesses[g] = "ended" /\ ipProcesses' = [ipProcesses EXCEPT ![g] = "read"] /\ ipExited' = TRUE
    /\ ipCall' = [c \in IpCalls |-> IF c \in ipPending[g] /\ ipCall[c].at = "waits" THEN Ends(c, "exited")[c] ELSE ipCall[c]]
    /\ ipPending' = [ipPending EXCEPT ![g] = {}] /\ UNCHANGED <<ipAt, ipChild, ipGeneration, ipConnected>>

PluginProcessNext ==
  \/ IpStart \/ IpControlEnds \/ IpLeave \/ IpReap \/ IpDropped
  \/ IpRegister \/ IpWrite \/ IpAnswer \/ IpTimeout \/ IpReturns
  \/ IpEnds \/ IpReadToEnd

PluginProcessTypeOK ==
  /\ ipAt \in ControlSteps \cup {"factory", "start", "serve", "reap", "dropped"}
  /\ ipProcesses \in UNION {[1..n -> {"alive", "ended", "read"}] : n \in 0..MaxIpProcesses}
  /\ ipChild \in 0..MaxIpProcesses /\ ipGeneration \in 0..MaxIpProcesses /\ ipExited \in BOOLEAN /\ ipConnected \in BOOLEAN
  /\ \A c \in IpCalls : ipCall[c].at \in {"unused", "registered", "waits", "done"}

\* A process that ends speaks for itself alone: the instance is called exited,
\* and a call is told its process exited, only if the process it has, or wrote
\* to, has ended. (init comment: a second spawn would let the old reader answer
\* the new handshake.)
LivePluginIsNotCalledDead ==
  /\ ipExited /\ ipChild # 0 => ~Alive(ipChild)
  /\ \A c \in IpCalls : ipCall[c].result = "exited" => ~Alive(ipCall[c].process)
=============================================================================
