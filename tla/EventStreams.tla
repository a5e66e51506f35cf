---------------------------- MODULE EventStreams ----------------------------
(* WebSocket clients of the bus: the task that serialises each event once and  *)
(* broadcasts it, and the connections. Events are of one type; what tells them *)
(* apart is whether their chat is one the connected subject was granted.       *)
EXTENDS EventBus, FiniteSets

CONSTANTS EsClients,
          WsLimit,                \* max_clients
          DropLimit, AuthLimit,   \* MAX_DROPPED_EVENTS (50), MAX_AUTH_ATTEMPTS (5)
          MaxEsEvents             \* bound: events published
ASSUME EsAssumption == {WsLimit, AuthLimit} \subseteq Nat \ {0} /\ DropLimit \in Nat /\ MaxEsEvents \in Nat

VARIABLES
  esStream,         \* chats of the published events
  esFan,            \* cursor of the task that broadcasts
  esRing,           \* positions in esStream it broadcast, in order
  esClient,         \* connections
  esGot             \* ghost: the frames each received: event and seq
esVars == <<esStream, esFan, esRing, esClient, esGot>>

WsChats == {"granted", "other"}   \* "other": not granted to this subject, or the event names no chat
Disconnected == [at |-> "away", global |-> FALSE, cursor |-> 0, seq |-> 0, drops |-> 0, tries |-> 0, beats |-> 0]
Connected == {c \in EsClients : esClient[c].at # "away"}

EventStreamsInit ==
  /\ esStream = <<>> /\ esFan = 1 /\ esRing = <<>> /\ esClient = [c \in EsClients |-> Disconnected] /\ esGot = [c \in EsClients |-> <<>>]

EsPublish ==
  \E chat \in WsChats :
    /\ Len(esStream) < MaxEsEvents /\ esStream' = Append(esStream, chat)
    /\ UNCHANGED <<esFan, esRing, esClient, esGot>>

\* subscribe_many: events that left the ring are skipped in silence.
EsFan ==
  /\ Ready(esFan, Len(esStream))
  /\ IF Overrun(esFan, Len(esStream)) THEN esFan' = Oldest(Len(esStream)) /\ UNCHANGED esRing
     ELSE esFan' = esFan + 1 /\ esRing' = Append(esRing, esFan)
  /\ UNCHANGED <<esStream, esClient, esGot>>

(* ---- a WebSocket connection --------------------------------------------- *)

WsGoes(c, to) == esClient' = [esClient EXCEPT ![c] = to] /\ UNCHANGED <<esStream, esFan, esRing>>
Leaves(c) == WsGoes(c, Disconnected) /\ esGot' = [esGot EXCEPT ![c] = <<>>]

WsConnect ==
  \E c \in EsClients :
    /\ esClient[c].at = "away" /\ Cardinality(Connected) < WsLimit
    /\ WsGoes(c, [Disconnected EXCEPT !.at = "unknown"]) /\ UNCHANGED esGot

\* A frame before authentication: a key that is refused may be followed by
\* another, up to the limit. A key without the permission, and one whose use
\* could not be metered, end the connection; one that is accepted subscribes.
WsAuthenticate ==
  \E c \in EsClients, global \in BOOLEAN :
    /\ esClient[c].at = "unknown"
    /\ LET tries == esClient[c].tries + 1
       IN \/ tries <= AuthLimit /\ WsGoes(c, [esClient[c] EXCEPT !.tries = tries]) /\ UNCHANGED esGot
          \/ /\ tries <= AuthLimit /\ UNCHANGED esGot
             /\ WsGoes(c, [esClient[c] EXCEPT !.tries = tries, !.at = "streams", !.global = global, !.cursor = Subscribe(Len(esRing))])
          \/ Leaves(c)

\* The client closes, breaks the protocol, sends too many frames, cannot be
\* sent to, or lets the deadline for its key pass.
WsLeave == \E c \in Connected : Leaves(c)

\* A ping each interval; at the third with no pong since, the connection ends.
WsBeat ==
  \E c \in Connected :
    IF esClient[c].beats = 2 THEN Leaves(c) ELSE WsGoes(c, [esClient[c] EXCEPT !.beats = @ + 1]) /\ UNCHANGED esGot
WsPong == \E c \in Connected : esClient[c].beats > 0 /\ WsGoes(c, [esClient[c] EXCEPT !.beats = 0]) /\ UNCHANGED esGot

Streams(c) == esClient[c].at = "streams" /\ Ready(esClient[c].cursor, Len(esRing))
Entitled(c, chat) == esClient[c].global \/ chat = "granted"

\* Not for this subject: skipped without a number. (If the grants cannot be
\* read the connection ends.)
WsSkip ==
  \E c \in Connected :
    /\ Streams(c) /\ ~Overrun(esClient[c].cursor, Len(esRing)) /\ ~Entitled(c, esStream[esRing[esClient[c].cursor]])
    /\ WsGoes(c, [esClient[c] EXCEPT !.cursor = @ + 1]) /\ UNCHANGED esGot

\* The frame is numbered and sent; one that cannot be sent in 100 ms is counted
\* as dropped, though it may have reached the buffer and be read later.
WsSend ==
  \E c \in Connected :
    LET me == esClient[c]
        taken == [me EXCEPT !.cursor = @ + 1, !.seq = @ + 1]
        frame == [event |-> esRing[me.cursor], seq |-> me.seq + 1]
    IN /\ Streams(c) /\ ~Overrun(me.cursor, Len(esRing)) /\ Entitled(c, esStream[esRing[me.cursor]])
       /\ \/ WsGoes(c, [taken EXCEPT !.drops = 0]) /\ esGot' = [esGot EXCEPT ![c] = Append(@, frame)]
          \/ me.drops = DropLimit /\ Leaves(c)
          \/ /\ me.drops < DropLimit /\ WsGoes(c, [taken EXCEPT !.drops = @ + 1])
             /\ esGot' \in {esGot, [esGot EXCEPT ![c] = Append(@, frame)]}

\* Mutant: a connection that fell behind goes on with the oldest event left.
WsLagged_GoesOn ==
  \E c \in Connected : Streams(c) /\ Overrun(esClient[c].cursor, Len(esRing))
                       /\ WsGoes(c, [esClient[c] EXCEPT !.cursor = Oldest(Len(esRing))]) /\ UNCHANGED esGot

\* A connection that fell behind the broadcast ends.
WsLagged == \E c \in Connected : Streams(c) /\ Overrun(esClient[c].cursor, Len(esRing)) /\ Leaves(c)

EventStreamsNext ==
  \/ EsPublish \/ EsFan
  \/ WsConnect \/ WsAuthenticate \/ WsLeave \/ WsBeat \/ WsPong \/ WsSkip \/ WsSend \/ WsLagged

EventStreamsTypeOK ==
  /\ esStream \in Seq(WsChats) /\ esFan \in 1..(Len(esStream) + 1)
  /\ Cardinality(Connected) <= WsLimit
  /\ \A c \in EsClients : esClient[c].drops \in 0..DropLimit /\ esClient[c].tries \in 0..AuthLimit /\ esClient[c].beats \in 0..2

\* A client of the WebSocket can tell that it missed something: between two
\* frames with consecutive numbers the server broadcast nothing else that the
\* client may read, however slow it was, whatever was dropped, skipped for
\* another subject, or lost from the ring behind it (events that the bus itself
\* lost before the broadcast are the exception: see EsFan).
GapsAreVisible ==
  \A c \in Connected : \A i \in 1..(Len(esGot[c]) - 1) :
    LET one == esGot[c][i]
        next == esGot[c][i + 1]
    IN /\ next.event > one.event /\ next.seq > one.seq
       /\ next.seq = one.seq + 1 =>
            \A k \in DOMAIN esRing : one.event < esRing[k] /\ esRing[k] < next.event =>
              ~Entitled(c, esStream[esRing[k]])
=============================================================================
