--------------------------- MODULE DiscordGateway ---------------------------
(* The gateway connections of the Discord adapter, adapter-discord/src/lib.rs:  *)
(* one task per shard, all of them writing one Heartbeat, from which            *)
(* health_status() tells the health monitor whether to intervene. The library   *)
(* that speaks the protocol reconnects by itself after a receive error.         *)
EXTENDS Integers, FiniteSets

CONSTANTS
  MaxShards,          \* shards the platform may ask for
  AgeLimit,           \* DEFAULT_LIVENESS_THRESHOLD_MS in units of the 60 s timer
  FailureLimit,       \* DEFAULT_FAILURE_LOOP_THRESHOLD, 20
  MaxDgErrors,        \* bound: receive errors and ends of a stream
  MaxDgMessages,      \* bound: messages
  MaxDgStarts         \* bound: connects and transport retries

ASSUME DiscordAssumption ==
  /\ MaxShards \in Nat \ {0} /\ AgeLimit \in Nat /\ FailureLimit \in Nat
  /\ MaxDgErrors \in Nat /\ MaxDgMessages \in Nat /\ MaxDgStarts \in Nat

\* A generation of tasks and the one that replaces it.
Tasks == {1, 2} \X (1 .. MaxShards)

VARIABLES
  shardCount,         \* shard_count of the adapter
  shardTask,          \* where each task is; "up" is its flag connected
  cancelled,          \* tasks that were sent the cancellation
  dgUp,               \* state is Connected
  beatAge, streamAge, \* ages of last_beat_ms and last_success_at_ms
  failures,           \* consecutive_failures
  dgMessages, dgErrors, dgStarts

discordVars == <<shardCount, shardTask, cancelled, dgUp, beatAge, streamAge, failures,
                 dgMessages, dgErrors, dgStarts>>

DiscordTypeOK ==
  /\ shardCount \in 1 .. MaxShards
  /\ shardTask \in [Tasks -> {"off", "connecting", "up", "broken", "ended"}]
  /\ cancelled \subseteq Tasks /\ dgUp \in BOOLEAN
  /\ beatAge \in 0 .. AgeLimit + 1 /\ streamAge \in 0 .. AgeLimit + 1
  /\ failures \in 0 .. MaxDgErrors
  /\ dgMessages \in 0 .. MaxDgMessages /\ dgErrors \in 0 .. MaxDgErrors
  /\ dgStarts \in 0 .. MaxDgStarts

DiscordInit ==
  /\ shardCount = 1 /\ shardTask = [t \in Tasks |-> "off"] /\ cancelled = {}
  /\ dgUp = FALSE /\ beatAge = 0 /\ streamAge = 0 /\ failures = 0
  /\ dgMessages = 0 /\ dgErrors = 0 /\ dgStarts = 0

-----------------------------------------------------------------------------
\* Heartbeat: a sign of life, and a message, which alone ends a row of failures.
Beat == beatAge' = 0 /\ UNCHANGED <<streamAge, failures>>
BeatSuccess == beatAge' = 0 /\ streamAge' = 0 /\ failures' = 0

HealthStatus ==
  IF ~dgUp \/ beatAge > AgeLimit \/ failures >= FailureLimit THEN "down"
  ELSE IF streamAge > AgeLimit THEN "degraded" ELSE "healthy"

Live(t) == shardTask[t] # "off" /\ t \notin cancelled
Goes(t, to) == shardTask' = [shardTask EXCEPT ![t] = to]

\* spawn_gateway_task: the tasks there are get the cancellation, and one new task
\* per shard starts.
SpawnShards(count) ==
  \E g \in {1, 2} :
    /\ \A t \in Tasks : t[1] = g => shardTask[t] = "off"
    /\ shardTask' = [t \in Tasks |-> IF t[1] = g /\ t[2] <= count THEN "connecting" ELSE shardTask[t]]
    /\ cancelled' = {t \in Tasks : t[1] # g /\ shardTask[t] # "off"}

\* connect: the token is checked, the number of shards asked for (kept when that
\* fails), the tasks started.
ConnectGateway ==
  /\ dgStarts < MaxDgStarts /\ dgStarts' = dgStarts + 1
  /\ \/ /\ shardCount' \in 1 .. MaxShards /\ SpawnShards(shardCount') /\ dgUp' = TRUE
     \/ UNCHANGED <<shardCount, shardTask, cancelled, dgUp>>
  /\ UNCHANGED <<beatAge, streamAge, failures, dgMessages, dgErrors>>

RetryGateway ==
  /\ dgUp /\ HealthStatus = "down"
  /\ dgStarts < MaxDgStarts /\ dgStarts' = dgStarts + 1
  /\ SpawnShards(shardCount)
  /\ UNCHANGED <<shardCount, dgUp, beatAge, streamAge, failures, dgMessages, dgErrors>>

DisconnectGateway ==
  /\ dgUp /\ dgUp' = FALSE
  /\ cancelled' = {t \in Tasks : shardTask[t] # "off"}
  /\ UNCHANGED <<shardCount, shardTask, beatAge, streamAge, failures, dgMessages, dgErrors, dgStarts>>

\* The cancellation is seen at the top of the loop, not during a back-off.
TaskEnds(t) ==
  /\ t \in cancelled /\ shardTask[t] # "ended"
  /\ Goes(t, "off") /\ cancelled' = cancelled \ {t}
  /\ UNCHANGED <<shardCount, dgUp, beatAge, streamAge, failures, dgMessages, dgErrors, dgStarts>>

-----------------------------------------------------------------------------
\* Ready, or any event but a message: the connection is alive.
GatewayEvent(t) ==
  /\ shardTask[t] \in {"connecting", "broken"}
  /\ Goes(t, "up") /\ Beat
  /\ UNCHANGED <<shardCount, cancelled, dgUp, dgMessages, dgErrors, dgStarts>>

\* A message of somebody else is published; the owner of its guild is asked for
\* once and remembered, without holding the message back.
MessageCreate(t) ==
  /\ shardTask[t] = "up" /\ dgMessages < MaxDgMessages
  /\ dgMessages' = dgMessages + 1 /\ BeatSuccess
  /\ UNCHANGED <<shardCount, shardTask, cancelled, dgUp, dgErrors, dgStarts>>

\* GUILD_CREATE and GUILD_UPDATE: a sign of life, and the name is remembered.
GuildEvent(t) ==
  /\ shardTask[t] = "up" /\ Beat
  /\ UNCHANGED <<shardCount, shardTask, cancelled, dgUp, dgMessages, dgErrors, dgStarts>>

\* A receive error counts as a failure and clears the flag.
ReceiveError(t) ==
  /\ shardTask[t] \in {"connecting", "up", "broken"} /\ dgErrors < MaxDgErrors
  /\ dgErrors' = dgErrors + 1 /\ failures' = failures + 1 /\ Goes(t, "broken")
  /\ UNCHANGED <<shardCount, cancelled, dgUp, beatAge, streamAge, dgMessages, dgStarts>>

\* Mutant: the task returns when its stream ends.
StreamEnds_Returns(t) ==
  /\ shardTask[t] \in {"connecting", "up", "broken"} /\ dgErrors < MaxDgErrors
  /\ dgErrors' = dgErrors + 1 /\ failures' = failures + 1 /\ Goes(t, "off")
  /\ UNCHANGED <<shardCount, cancelled, dgUp, beatAge, streamAge, dgMessages, dgStarts>>

\* The stream ends for good: the task waits, then opens a new connection.
StreamEnds(t) ==
  /\ shardTask[t] \in {"connecting", "up", "broken"} /\ dgErrors < MaxDgErrors
  /\ dgErrors' = dgErrors + 1 /\ failures' = failures + 1 /\ Goes(t, "ended")
  /\ UNCHANGED <<shardCount, cancelled, dgUp, beatAge, streamAge, dgMessages, dgStarts>>

ShardReconnects(t) ==
  /\ shardTask[t] = "ended" /\ Goes(t, "connecting")
  /\ UNCHANGED <<shardCount, cancelled, dgUp, beatAge, streamAge, failures, dgMessages, dgErrors, dgStarts>>

\* Sixty seconds: the liveness timer of a task beats while its connection is up.
Minute ==
  /\ beatAge' = IF \E t \in Tasks : shardTask[t] = "up" THEN 0
                ELSE IF beatAge > AgeLimit THEN beatAge ELSE beatAge + 1
  /\ streamAge' = IF streamAge > AgeLimit THEN streamAge ELSE streamAge + 1
  /\ UNCHANGED <<shardCount, shardTask, cancelled, dgUp, failures, dgMessages, dgErrors, dgStarts>>

DiscordNext ==
  \/ ConnectGateway \/ RetryGateway \/ DisconnectGateway \/ Minute
  \/ \E t \in Tasks :
       TaskEnds(t) \/ GatewayEvent(t) \/ MessageCreate(t) \/ GuildEvent(t) \/ ReceiveError(t)
       \/ StreamEnds(t) \/ ShardReconnects(t)

-----------------------------------------------------------------------------
\* No shard dies silently (gateway_shard_loop): while the adapter is connected
\* every shard has a task that is not cancelled, after errors, ended streams,
\* retries and a changed number of shards, and no other task is left running.
EveryShardHasATask ==
  \A s \in 1 .. MaxShards :
    Cardinality({g \in {1, 2} : Live(<<g, s>>)}) = IF dgUp /\ s <= shardCount THEN 1 ELSE 0

=============================================================================
