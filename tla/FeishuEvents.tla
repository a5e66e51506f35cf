---------------------------- MODULE FeishuEvents ----------------------------
(* The event subscription of the Feishu adapter, adapter-feishu/src/lib.rs and  *)
(* event.rs. The library holds the WebSocket, runs a handler for every pushed   *)
(* event and acknowledges it when the handler has returned; an event without    *)
(* acknowledgement is pushed again. The handler drops what it has seen, looks   *)
(* up the sender's role and publishes the message. A transport retry replaces   *)
(* the subscription, with its memory of events and of roles.                    *)
EXTENDS Integers, FiniteSets, TLC

CONSTANTS
  FsEvents,           \* event ids
  Malformed,          \* events handle_message_receive cannot read
  MaxPushes,          \* bound: pushes of one event
  MaxFsDrops,         \* bound: ends of a connection
  MaxFsStarts         \* bound: connects and transport retries

ASSUME FeishuAssumption ==
  /\ IsFiniteSet(FsEvents) /\ Malformed \subseteq FsEvents
  /\ MaxPushes \in Nat /\ MaxFsDrops \in Nat /\ MaxFsStarts \in Nat

Links == {1, 2}                  \* a subscription and the one that replaces it
NewLink == [at |-> "connecting", cancelled |-> FALSE]

VARIABLES
  link,               \* the subscriptions: "off", "connecting", "up", "down"
  seen,               \* event_dedup of each
  handler,            \* <<link, event>> -> where its handlers are
  pushes,             \* pushes of each event
  acked,              \* events the platform has an acknowledgement for
  fsPublished,        \* <<link, event>> -> messages published
  roleCached,         \* subscriptions that remember the sender's role
  abandoned,          \* ghost: events recorded by a subscription whose handler
                      \* was dropped before it published
  earlier,            \* ghost: events published by subscriptions since replaced
  fsBeat,             \* ghost: the last beat came while a connection was up
  fsDrops, fsStarts

feishuVars == <<link, seen, handler, pushes, acked, fsPublished, roleCached, abandoned, earlier,
                fsBeat, fsDrops, fsStarts>>

FeishuTypeOK ==
  /\ link \in [Links -> [at : {"off", "connecting", "up", "down"}, cancelled : BOOLEAN]]
  /\ seen \in [Links -> SUBSET FsEvents]
  /\ handler \in [Links \X FsEvents -> [check : 0 .. MaxPushes, role : 0 .. MaxPushes, publish : 0 .. MaxPushes]]
  /\ pushes \in [FsEvents -> 0 .. MaxPushes] /\ acked \subseteq FsEvents
  /\ fsPublished \in [Links \X FsEvents -> 0 .. MaxPushes]
  /\ roleCached \subseteq Links /\ abandoned \cup earlier \subseteq FsEvents /\ fsBeat \in BOOLEAN
  /\ fsDrops \in 0 .. MaxFsDrops /\ fsStarts \in 0 .. MaxFsStarts

NoHandlers == [check |-> 0, role |-> 0, publish |-> 0]

FeishuInit ==
  /\ link = [l \in Links |-> [at |-> "off", cancelled |-> FALSE]]
  /\ seen = [l \in Links |-> {}] /\ handler = [k \in Links \X FsEvents |-> NoHandlers]
  /\ pushes = [e \in FsEvents |-> 0] /\ acked = {}
  /\ fsPublished = [k \in Links \X FsEvents |-> 0]
  /\ roleCached = {} /\ abandoned = {} /\ earlier = {} /\ fsBeat = TRUE /\ fsDrops = 0 /\ fsStarts = 0

-----------------------------------------------------------------------------
\* cancel_and_respawn_ws: the subscription there is is told to stop; the new one
\* has seen nothing.
Respawn ==
  /\ fsStarts < MaxFsStarts /\ fsStarts' = fsStarts + 1
  /\ \E l \in Links :
       /\ link[l].at = "off"
       /\ link' = [m \in Links |-> IF m = l THEN NewLink
                                   ELSE [link[m] EXCEPT !.cancelled = @ \/ link[m].at # "off"]]
       /\ seen' = [seen EXCEPT ![l] = {}]
       /\ fsPublished' = [k \in Links \X FsEvents |-> IF k[1] = l THEN 0 ELSE fsPublished[k]]
       /\ earlier' = earlier \cup {e \in FsEvents : fsPublished[<<l, e>>] > 0}
       /\ roleCached' = roleCached \ {l}
  /\ fsBeat' = TRUE
  /\ UNCHANGED <<handler, pushes, acked, abandoned, fsDrops>>

\* Events whose handlers in l end with it, after they were recorded.
Dropped(l) == {e \in FsEvents : handler[<<l, e>>].role + handler[<<l, e>>].publish > 0}
DropHandlers(l) ==
  /\ handler' = [k \in Links \X FsEvents |-> IF k[1] = l THEN NoHandlers ELSE handler[k]]
  /\ abandoned' = abandoned \cup Dropped(l)

\* The task sees the cancellation: the library's future and its handlers go.
Stop(l) ==
  /\ link[l].cancelled /\ link[l].at # "off"
  /\ link' = [link EXCEPT ![l] = [at |-> "off", cancelled |-> FALSE]]
  /\ DropHandlers(l)
  /\ UNCHANGED <<seen, pushes, acked, fsPublished, roleCached, earlier, fsBeat, fsDrops, fsStarts>>

\* on_ready, and on_disconnected: the library connects again by itself.
OnReady(l) ==
  /\ link[l].at \in {"connecting", "down"} /\ link' = [link EXCEPT ![l].at = "up"]
  /\ fsBeat' = TRUE
  /\ UNCHANGED <<seen, handler, pushes, acked, fsPublished, roleCached, abandoned, earlier, fsDrops, fsStarts>>

OnDisconnected(l) ==
  /\ link[l].at = "up" /\ fsDrops < MaxFsDrops /\ fsDrops' = fsDrops + 1
  /\ link' = [link EXCEPT ![l].at = "down"] /\ DropHandlers(l)
  /\ UNCHANGED <<seen, pushes, acked, fsPublished, roleCached, earlier, fsBeat, fsStarts>>

\* Sixty seconds: a beat, unless the connection is down; without one the
\* heartbeat becomes too old.
Liveness ==
  /\ fsBeat' = (\E l \in Links : link[l].at = "up")
  /\ UNCHANGED <<link, seen, handler, pushes, acked, fsPublished, roleCached, abandoned, earlier, fsDrops, fsStarts>>

-----------------------------------------------------------------------------
\* The platform pushes an event it has no acknowledgement for, on a live
\* connection, again even while the handler of an earlier push is running.
Push(l, e) ==
  /\ link[l].at = "up" /\ e \notin acked /\ pushes[e] < MaxPushes
  /\ pushes' = [pushes EXCEPT ![e] = @ + 1]
  /\ handler' = [handler EXCEPT ![<<l, e>>].check = @ + 1]
  /\ UNCHANGED <<link, seen, acked, fsPublished, roleCached, abandoned, earlier, fsBeat, fsDrops, fsStarts>>

Ack(e) == acked' = acked \cup {e}

\* Mutant: the event is looked up here and recorded once it is published.
CheckAndRecord_Later(l, e) ==
  LET h == <<l, e>> IN
  /\ link[l].at = "up" /\ handler[h].check > 0
  /\ seen' = IF fsPublished[h] > 0 THEN [seen EXCEPT ![l] = @ \cup {e}] ELSE seen
  /\ IF e \in seen[l]
     THEN handler' = [handler EXCEPT ![h].check = @ - 1] /\ Ack(e)
     ELSE handler' = [handler EXCEPT ![h].check = @ - 1, ![h].role = @ + 1] /\ UNCHANGED acked
  /\ UNCHANGED <<link, pushes, fsPublished, roleCached, abandoned, earlier, fsBeat, fsDrops, fsStarts>>

\* check_and_record: a known event is acknowledged and dropped, a new one is
\* recorded before anything is done about it.
CheckAndRecord(l, e) ==
  LET h == <<l, e>> IN
  /\ link[l].at = "up" /\ handler[h].check > 0
  /\ \/ /\ e \in seen[l]
        /\ handler' = [handler EXCEPT ![h].check = @ - 1] /\ Ack(e) /\ UNCHANGED seen
     \/ /\ e \notin seen[l]
        /\ handler' = [handler EXCEPT ![h].check = @ - 1, ![h].role = @ + 1]
        /\ seen' = [seen EXCEPT ![l] = @ \cup {e}] /\ UNCHANGED acked
  /\ UNCHANGED <<link, pushes, fsPublished, roleCached, abandoned, earlier, fsBeat, fsDrops, fsStarts>>

\* EventDedup forgets after TTL, or the oldest at CAP: five minutes later, when
\* the platform has given up pushing.
ForgetEvent(l, e) ==
  /\ e \in seen[l] /\ pushes[e] = MaxPushes /\ handler[<<l, e>>] = NoHandlers
  /\ seen' = [seen EXCEPT ![l] = @ \ {e}]
  /\ UNCHANGED <<link, handler, pushes, acked, fsPublished, roleCached, abandoned, earlier, fsBeat, fsDrops, fsStarts>>

\* resolve_feishu_role: from the cache, or asked for (and then cached, or not).
ResolveRole(l, e) ==
  LET h == <<l, e>> IN
  /\ link[l].at = "up" /\ handler[h].role > 0
  /\ handler' = [handler EXCEPT ![h].role = @ - 1, ![h].publish = @ + 1]
  /\ \/ l \in roleCached /\ UNCHANGED roleCached
     \/ l \notin roleCached /\ roleCached' \in {roleCached, roleCached \cup {l}}
  /\ UNCHANGED <<link, seen, pushes, acked, fsPublished, abandoned, earlier, fsBeat, fsDrops, fsStarts>>

\* handle_message_receive publishes, or drops what it cannot read; both return,
\* and the library acknowledges.
HandleMessage(l, e) ==
  LET h == <<l, e>> IN
  /\ link[l].at = "up" /\ handler[h].publish > 0
  /\ handler' = [handler EXCEPT ![h].publish = @ - 1]
  /\ fsPublished' = IF e \in Malformed THEN fsPublished ELSE [fsPublished EXCEPT ![h] = @ + 1]
  /\ Ack(e) /\ fsBeat' = TRUE
  /\ UNCHANGED <<link, seen, pushes, roleCached, abandoned, earlier, fsDrops, fsStarts>>

\* im.chat.updated_v1 clears the roles of the chat.
ChatUpdated(l) ==
  /\ link[l].at = "up" /\ l \in roleCached /\ roleCached' = roleCached \ {l}
  /\ fsBeat' = TRUE
  /\ UNCHANGED <<link, seen, handler, pushes, acked, fsPublished, abandoned, earlier, fsDrops, fsStarts>>

FsHandlerStep(l, e) == CheckAndRecord(l, e) \/ ResolveRole(l, e) \/ HandleMessage(l, e)

FeishuNext ==
  \/ Respawn \/ Liveness
  \/ \E l \in Links : Stop(l) \/ OnReady(l) \/ OnDisconnected(l) \/ ChatUpdated(l)
  \/ \E l \in Links, e \in FsEvents : Push(l, e) \/ FsHandlerStep(l, e) \/ ForgetEvent(l, e)

-----------------------------------------------------------------------------
\* A subscription publishes an event once, although the platform repeats pushes
\* while a handler waits for a role (check_and_record records before it looks).
OncePerSubscription ==
  \A l \in Links, e \in FsEvents :
    LET h == handler[<<l, e>>] IN h.role + h.publish + fsPublished[<<l, e>>] <= 1

\* What the platform has an acknowledgement for, and so never sends again, was
\* published, or could not be read, or is still being handled, or was lost where
\* the code loses it: recorded by a handler that a disconnect dropped, so that
\* the repeated push was taken for a duplicate.
AckedWasPublished ==
  \A e \in acked :
    \/ e \in Malformed \cup abandoned \cup earlier
    \/ \E l \in Links : LET h == handler[<<l, e>>] IN h.role + h.publish + fsPublished[<<l, e>>] > 0

\* Events of a subscription are neither repeated on the bus nor, with the one
\* exception, acknowledged without being published.
EventsReachTheBusOnce == OncePerSubscription /\ AckedWasPublished
=============================================================================
