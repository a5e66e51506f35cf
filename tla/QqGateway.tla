------------------------------ MODULE QqGateway ------------------------------
(* The gateway loop of the QQ adapter: gateway address, WebSocket connection,  *)
(* Hello, then Identify for a new session or Resume of the last one from the    *)
(* sequence number last seen. Public and private bots may subscribe to          *)
(* different channel messages; the loop finds out by being refused.             *)
EXTENDS Integers, Sequences, FiniteSets

CONSTANTS MaxQqEvents,            \* bound: events of a session
          MaxQqSessions,          \* bound: sessions the platform opens (never met)
          MaxQqFaults             \* bound: failures, lost connections, stops
ASSUME QqAssumption == MaxQqEvents \in Nat \ {0} /\ MaxQqFaults \in Nat /\ MaxQqSessions > MaxQqFaults + 1

VARIABLES
  qq,               \* the loop: at, session, seq, intents, auto (may switch), ready, configured
  qqHead,           \* platform: sessions opened so far -> events sent in each
  qqKept,           \* platform: the session it still has (0: none)
  qqNext,           \* platform: next event to deliver on this connection
  qqTakes,          \* platform: the channel intent this bot may ask for
  qqSeen,           \* <<session, n>> handed to handle_dispatch
  qqFaults
qqVars == <<qq, qqHead, qqKept, qqNext, qqTakes, qqSeen, qqFaults>>

QqOff == [at |-> "off", session |-> 0, seq |-> 0, intents |-> "private", auto |-> TRUE, ready |-> FALSE]
QqInit ==
  /\ qq = QqOff /\ qqHead = <<>> /\ qqKept = 0 /\ qqNext = 0 /\ qqTakes \in {"private", "public"}
  /\ qqSeen = {} /\ qqFaults = 0

Moves(at) == qq' = [qq EXCEPT !.at = at]
QqFault == qqFaults < MaxQqFaults /\ qqFaults' = qqFaults + 1
PlatformRests == UNCHANGED <<qqHead, qqKept, qqNext, qqTakes, qqSeen>>

\* connect(): an access token and the bot's own user, then the loop starts.
QqConnect ==
  /\ qq.at = "off" /\ PlatformRests
  /\ \/ qq' = [QqOff EXCEPT !.at = "url"] /\ UNCHANGED qqFaults
     \/ qq' = QqOff /\ QqFault

\* A refused token is renewed once on the spot; refused again, the loop ends.
QqUrl ==
  /\ qq.at = "url" /\ PlatformRests
  /\ \/ Moves("dial") /\ UNCHANGED qqFaults
     \/ UNCHANGED qq /\ QqFault
     \/ Moves("ended") /\ QqFault

QqDial ==
  /\ qq.at = "dial" /\ PlatformRests
  /\ (Moves("hello") /\ UNCHANGED qqFaults) \/ (Moves("url") /\ QqFault)

\* A connection that ends before its Hello is waited on for ever.
QqHello ==
  /\ qq.at = "hello" /\ PlatformRests
  /\ (Moves("open") /\ UNCHANGED qqFaults) \/ (Moves("stuck") /\ QqFault)

\* Resume if there is a session and a number, else Identify: a new session,
\* or the connection is closed with 4013 or 4014.
QqOpen ==
  /\ qq.at = "open"
  /\ IF qq.session # 0 /\ qq.seq > 0
     THEN Moves("resume") /\ UNCHANGED <<qqHead, qqKept, qqNext>>
     ELSE IF qq.intents = qqTakes
     THEN /\ Len(qqHead) < MaxQqSessions /\ qqHead' = Append(qqHead, 1)
          /\ qqKept' = Len(qqHead') /\ qqNext' = 1 /\ Moves("identify")
     ELSE Moves("refuse") /\ UNCHANGED <<qqHead, qqKept, qqNext>>
  /\ UNCHANGED <<qqTakes, qqSeen, qqFaults>>

\* Mutant: the number of the last session is kept.
QqReady_KeepsSeq ==
  /\ qq.at = "identify" /\ qqNext = 1 /\ qqNext' = 2
  /\ qq' = [qq EXCEPT !.at = "live", !.session = qqKept, !.auto = FALSE, !.ready = TRUE,
                      !.seq = IF @ > 0 THEN @ ELSE 1]
  /\ UNCHANGED <<qqHead, qqKept, qqTakes, qqSeen, qqFaults>>

QqReady ==
  /\ qq.at = "identify" /\ qqNext = 1 /\ qqNext' = 2
  /\ qq' = [qq EXCEPT !.at = "live", !.session = qqKept, !.seq = 1, !.auto = FALSE, !.ready = TRUE]
  /\ UNCHANGED <<qqHead, qqKept, qqTakes, qqSeen, qqFaults>>

\* The platform takes up a session it has after the number it is told, or
\* calls it invalid (op 9): the loop forgets it and connects again.
QqResumed ==
  /\ qq.at = "resume"
  /\ IF qq.session = qqKept
     THEN qq' = [qq EXCEPT !.at = "live", !.ready = TRUE] /\ qqNext' = qq.seq + 1
     ELSE qq' = [qq EXCEPT !.at = "url", !.session = 0, !.ready = FALSE] /\ UNCHANGED qqNext
  /\ UNCHANGED <<qqHead, qqKept, qqTakes, qqSeen, qqFaults>>

\* An event: its number is taken over, then it is handled, with no way out between.
QqEvent ==
  /\ qq.at = "live" /\ qqNext <= qqHead[qqKept] /\ qqNext' = qqNext + 1
  /\ qq' = [qq EXCEPT !.seq = qqNext] /\ qqSeen' = qqSeen \cup {<<qq.session, qqNext>>}
  /\ UNCHANGED <<qqHead, qqKept, qqTakes, qqFaults>>

\* The other channel intent, once.
QqRefused ==
  /\ qq.at = "refuse" /\ PlatformRests /\ UNCHANGED qqFaults
  /\ qq' = IF qq.auto
           THEN [qq EXCEPT !.at = "url", !.auto = FALSE, !.session = 0, !.ready = FALSE,
                           !.intents = IF @ = "private" THEN "public" ELSE "private"]
           ELSE [qq EXCEPT !.at = "url", !.ready = FALSE]

\* Reconnect requested (op 7), a close, the end of the stream, a send that fails,
\* no access token for the first message.
QqBreaks ==
  /\ qq.at \in {"open", "live", "identify", "resume"} /\ QqFault
  /\ qq' = [qq EXCEPT !.at = "url", !.ready = FALSE] /\ PlatformRests

\* disconnect(), or the monitor replaces an instance without beats. A stuck loop
\* does not look at the signal: it is left behind.
QqStop ==
  /\ qq.at \in {"url", "dial", "live", "identify", "resume"} /\ QqFault /\ qq' = QqOff /\ PlatformRests
QqReplace == qq.at \in {"stuck", "ended"} /\ qq' = QqOff /\ PlatformRests /\ UNCHANGED qqFaults

\* The platform sends an event, or forgets the session.
PlatformEvent ==
  /\ qqKept > 0 /\ qqHead[qqKept] < MaxQqEvents /\ qqHead' = [qqHead EXCEPT ![qqKept] = @ + 1]
  /\ UNCHANGED <<qq, qqKept, qqNext, qqTakes, qqSeen, qqFaults>>
PlatformForgets ==
  /\ qqKept > 0 /\ qq.at \notin {"live", "identify"} /\ QqFault /\ qqKept' = 0
  /\ UNCHANGED <<qq, qqHead, qqNext, qqTakes, qqSeen>>

GatewaySteps == QqConnect \/ QqUrl \/ QqDial \/ QqHello \/ QqOpen \/ QqReady \/ QqResumed \/ QqEvent \/ QqRefused \/ QqReplace
QqNextStep == GatewaySteps \/ QqBreaks \/ QqStop \/ PlatformEvent \/ PlatformForgets

QqTypeOK ==
  /\ qq.at \in {"off", "url", "dial", "hello", "open", "identify", "resume", "refuse", "live", "stuck", "ended"}
  /\ qqKept \in 0 .. Len(qqHead) /\ qq.session \in 0 .. Len(qqHead) /\ qq.seq \in 0 .. MaxQqEvents
  /\ qqFaults \in 0 .. MaxQqFaults

-----------------------------------------------------------------------------
\* A resumed session goes on where the adapter was: the number it would resume
\* from never passes an event of that session it has not handled, whatever
\* connections, sessions and intents came before.
QqResumeSkipsNothing ==
  qq.session # 0 => \A n \in 2 .. qq.seq : <<qq.session, n>> \in qqSeen

=============================================================================
