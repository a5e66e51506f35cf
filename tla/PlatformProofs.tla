--------------------------- MODULE PlatformProofs ---------------------------
(* Proofs about the platform adapters: the polling loops of WeChat and Telegram, *)
(* the gateways of QQ and Discord, the event subscription of Feishu, the access  *)
(* tokens their calls share, and the calls that send.                        *)
EXTENDS WechatPolling, QqGateway, TokenStore, TelegramPolling, DiscordGateway,
        FeishuEvents, PlatformSends, TLAPS, FiniteSetTheorems, SequenceTheorems

-----------------------------------------------------------------------------
(* The long poll of WeChat (WechatPolling).                                  *)
WechatSpec == WechatInit /\ [][WechatNext]_wxVars

Instances ==
  [at : {"off", "login", "poll", "publish", "pause"}, token : Nat, cursor : Nat,
   expired : Nat, failed : Nat, till : Nat]

\* What WechatTypeOK says, and the shapes it takes for granted.
Shapes ==
  /\ wxKinds \in Seq({"user", "bot", "bad"}) /\ wxValid \in Nat
  /\ wx \in Instances /\ wxDisk \in [token : Nat, cursor : Nat]
  /\ wxSaves \subseteq 0 .. Len(wxKinds)
  /\ WechatTypeOK

\* The messages of the batch the loop is about to publish.
InHand(i) == wx.at = "publish" /\ wx.till < i /\ i <= wx.cursor
\* A cursor that nothing was lost behind.
Sound(c) == \A i \in Wanted : i <= c => i \in wxOut \cup wxKilled \/ InHand(i)

\* A cursor reaches the disk from a task, a task has it from the loop, and the
\* loop has it from the disk: each of the three has to be sound.
CursorsSound == Sound(wx.cursor) /\ Sound(wxDisk.cursor) /\ \A c \in wxSaves : Sound(c)

-----------------------------------------------------------------------------
\* Every step but a new message leaves the messages, and so the wanted ones.
LEMMA SameMessages == wxKinds' = wxKinds => Wanted' = Wanted
  BY DEF Wanted

LEMMA OffIsInstance ==
  /\ WxOff \in Instances /\ WxOff.at = "off"
  /\ WxOff.cursor = 0 /\ WxOff.expired = 0 /\ WxOff.failed = 0
  BY DEF WxOff, Instances

LEMMA WantedAreMessages == wxKinds \in Seq({"user", "bot", "bad"}) => Wanted \subseteq 1 .. Len(wxKinds)
  BY DEF Wanted

LEMMA ShapesInitially == WechatInit => Shapes
  BY WechatAssumption, OffIsInstance DEF WechatInit, Shapes, WechatTypeOK, Wanted

\* What Shapes asks of the instance alone.
InstanceFits(w) == w \in Instances /\ w.cursor <= Len(wxKinds) /\ w.expired < MaxWxExpired /\ w.failed < MaxWxFailures

LEMMA FitsKeepsShapes ==
  ASSUME Shapes, wxKinds' = wxKinds, wxValid' = wxValid, InstanceFits(wx'),
         wxDisk' \in [token : Nat, cursor : Nat], wxDisk'.cursor \in {wxDisk.cursor} \cup wxSaves,
         wxSaves' \subseteq 0 .. Len(wxKinds), wxOut' \subseteq Wanted, wxFaults' \in 0 .. MaxWxFaults
  PROVE  Shapes'
<1>1. wx'.at \in {"off", "login", "poll", "publish", "pause"} /\ wx'.cursor \in Nat
  BY DEF InstanceFits, Instances
<1>2. wx'.cursor \in 0 .. Len(wxKinds) /\ wxDisk'.cursor \in 0 .. Len(wxKinds)
  BY <1>1 DEF InstanceFits, Shapes, WechatTypeOK
<1> QED
  BY <1>1, <1>2, SameMessages DEF InstanceFits, Shapes, WechatTypeOK

LEMMA ShapesStep == Shapes /\ [WechatNext]_wxVars => Shapes'
<1> SUFFICES ASSUME Shapes, [WechatNext]_wxVars PROVE Shapes'
  OBVIOUS
<1>a. /\ wxValid \in Nat /\ wxFaults \in 0 .. MaxWxFaults /\ MaxWxFaults \in Nat
      /\ wxDisk \in [token : Nat, cursor : Nat] /\ wxDisk.cursor <= Len(wxKinds)
      /\ wxSaves \subseteq 0 .. Len(wxKinds) /\ wxOut \subseteq Wanted /\ Len(wxKinds) \in Nat
  BY WechatAssumption DEF Shapes, WechatTypeOK
<1>b. InstanceFits(wx) /\ InstanceFits(WxOff)
  BY WechatAssumption, OffIsInstance DEF Shapes, WechatTypeOK, InstanceFits
<1>c. wx = [at |-> wx.at, token |-> wx.token, cursor |-> wx.cursor, expired |-> wx.expired,
            failed |-> wx.failed, till |-> wx.till]
  BY DEF Shapes, Instances
<1>1. CASE WxStart
  <2>1. wx' = [at |-> IF wxDisk.token = 0 THEN "login" ELSE "poll", token |-> wxDisk.token,
               cursor |-> wxDisk.cursor, expired |-> 0, failed |-> 0, till |-> 0]
    BY <1>1 DEF WxStart, WxOff
  <2>2. wx' \in Instances
    BY <1>a, <2>1 DEF Instances
  <2>3. InstanceFits(wx')
    BY <1>a, <2>1, <2>2, WechatAssumption DEF InstanceFits
  <2> QED
    BY <1>1, <1>a, <2>3, FitsKeepsShapes DEF WxStart
<1>2. CASE WxLogin
  <2>1. InstanceFits(wx')
    BY <1>2, <1>a, <1>b DEF WxLogin, InstanceFits, Instances
  <2>2. wxDisk' \in [token : Nat, cursor : Nat] /\ wxDisk'.cursor = wxDisk.cursor
    BY <1>2, <1>a DEF WxLogin
  <2> QED
    BY <1>2, <1>a, <2>1, <2>2, FitsKeepsShapes DEF WxLogin
<1>3. CASE WxMessages
  <2>1. PICK k \in wx.cursor + 1 .. Len(wxKinds) :
          /\ wx' = [wx EXCEPT !.at = "publish", !.cursor = k, !.till = wx.cursor, !.expired = 0, !.failed = 0]
          /\ wxSaves' = wxSaves \cup {k}
    BY <1>3 DEF WxMessages
  <2>2. wx.cursor \in Nat /\ k \in Nat /\ k <= Len(wxKinds)
    BY SMTT(30), <1>a, <1>b, <2>1 DEF InstanceFits, Instances
  <2>3. wx' \in Instances /\ wx'.cursor = k /\ wx'.expired = 0 /\ wx'.failed = 0
    BY <1>b, <2>1, <2>2 DEF InstanceFits, Instances
  <2>4. InstanceFits(wx')
    BY <2>2, <2>3, WechatAssumption DEF InstanceFits
  <2> QED
    BY <1>3, <1>a, <2>1, <2>2, <2>4, FitsKeepsShapes DEF WxMessages, Polling
<1>4. CASE WxPublish
  <2>1. InstanceFits(wx')
    BY <1>4, <1>b DEF WxPublish, InstanceFits, Instances
  <2>2. wxOut' \subseteq Wanted
    BY <1>4, <1>a DEF WxPublish
  <2> QED
    BY <1>4, <1>a, <2>1, <2>2, FitsKeepsShapes DEF WxPublish
<1>5. CASE WxTimeout \/ WxResume
  <2>1. /\ wx' \in Instances /\ wx'.cursor = wx.cursor
        /\ wx'.expired \in {0, wx.expired} /\ wx'.failed = 0
    <3>1. CASE WxTimeout
      BY <3>1, <1>b DEF WxTimeout, InstanceFits, Instances
    <3>2. CASE WxResume
      BY <3>2, <1>b DEF WxResume, InstanceFits, Instances
    <3> QED
      BY <1>5, <3>1, <3>2
  <2>2. InstanceFits(wx')
    BY <1>b, <2>1, WechatAssumption DEF InstanceFits
  <2> QED
    BY <1>5, <1>a, <2>2, FitsKeepsShapes DEF WxTimeout, WxResume, Polling
<1>6. CASE WxRefused \/ WxExpired \/ WxFails \/ WxStop
  <2>1. InstanceFits(wx')
    <3>1. CASE wx' = WxOff
      BY <1>b, <3>1 DEF InstanceFits
    <3>2. CASE wx' # WxOff
      <4>1. /\ wx' \in Instances /\ wx'.cursor = wx.cursor
            /\ wx'.expired < MaxWxExpired /\ wx'.failed < MaxWxFailures
        <5>1. CASE WxExpired
          <6>1. wx.expired + 1 < MaxWxExpired /\ wx' = [wx EXCEPT !.at = "pause", !.expired = wx.expired + 1]
            BY <5>1, <1>b, <3>2, WechatAssumption DEF WxExpired, InstanceFits, Instances
          <6>2. wx.expired + 1 \in Nat /\ wx \in Instances /\ wx.failed < MaxWxFailures
            BY <1>b DEF InstanceFits, Instances
          <6>3. wx'.expired = wx.expired + 1 /\ wx'.failed = wx.failed /\ wx'.cursor = wx.cursor
            BY <6>1, <6>2 DEF Instances
          <6>4. wx' \in Instances
            BY <6>1, <6>2 DEF Instances
          <6> QED
            BY <1>b, <6>1, <6>2, <6>3, <6>4 DEF InstanceFits
        <5>2. CASE WxFails
          <6>1. wx.failed + 1 < MaxWxFailures /\ wx' = [wx EXCEPT !.failed = @ + 1]
            <7>1. wx.failed \in Nat
              BY <1>b DEF InstanceFits, Instances
            <7> QED
              BY <5>2, <3>2, <7>1, WechatAssumption DEF WxFails
          <6> QED
            BY SMTT(30), <6>1, <1>b DEF InstanceFits, Instances
        <5> QED
          BY <1>6, <3>2, <5>1, <5>2 DEF WxRefused, WxStop
      <4> QED
        BY <1>b, <4>1 DEF InstanceFits
    <3> QED
      BY <3>1, <3>2
  <2>2. wxDisk' \in [token : Nat, cursor : Nat] /\ wxDisk'.cursor = wxDisk.cursor
    BY <1>6, <1>a DEF WxRefused, WxExpired, WxFails, WxStop
  <2>3. wxFaults' \in 0 .. MaxWxFaults
    BY <1>6, <1>a DEF WxRefused, WxExpired, WxFails, WxStop
  <2> QED
    BY <1>6, <1>a, <2>1, <2>2, <2>3, FitsKeepsShapes DEF WxRefused, WxExpired, WxFails, WxStop, Polling
<1>7. CASE SaveCursor
  <2>1. PICK c \in wxSaves : wxDisk' = [wxDisk EXCEPT !.cursor = c] /\ wxSaves' = wxSaves \ {c}
    BY <1>7 DEF SaveCursor
  <2>2. wxDisk' \in [token : Nat, cursor : Nat] /\ wxDisk'.cursor = c
    BY <1>a, <2>1
  <2> QED
    BY <1>7, <1>a, <1>b, <2>1, <2>2, FitsKeepsShapes DEF SaveCursor
<1>8. CASE WxKill
  <2>1. wxFaults' \in 0 .. MaxWxFaults
    BY <1>8, <1>a DEF WxKill
  <2> QED
    BY <1>8, <1>a, <1>b, <2>1, FitsKeepsShapes DEF WxKill
<1>9. CASE WxArrives
  <2>1. PICK k \in {"user", "bot", "bad"} : wxKinds' = Append(wxKinds, k)
    BY <1>9 DEF WxArrives
  <2>2. Wanted \subseteq Wanted' /\ Len(wxKinds') = Len(wxKinds) + 1
    BY <2>1 DEF Wanted, Shapes
  <2> QED
    BY <1>9, <1>a, <2>1, <2>2 DEF WxArrives, Shapes, WechatTypeOK
<1>10. CASE WxRevoke
  BY <1>10, <1>a, SameMessages DEF WxRevoke, Shapes, WechatTypeOK
<1>11. CASE UNCHANGED wxVars
  BY <1>11, SameMessages DEF wxVars, Shapes, WechatTypeOK
<1> QED
  BY <1>1, <1>2, <1>3, <1>4, <1>5, <1>6, <1>7, <1>8, <1>9, <1>10, <1>11
     DEF WechatNext, WxLoop

-----------------------------------------------------------------------------
LEMMA SoundInitially == WechatInit => CursorsSound
  BY DEF WechatInit, CursorsSound, Sound, Wanted, WxOff

\* A step that has nothing in hand before and after, publishes nothing new and
\* loses nothing keeps every sound cursor sound.
LEMMA SoundStep == Shapes /\ CursorsSound /\ [WechatNext]_wxVars => CursorsSound'
<1> SUFFICES ASSUME Shapes, CursorsSound, [WechatNext]_wxVars PROVE CursorsSound'
  OBVIOUS
<1> USE SameMessages, WantedAreMessages DEF CursorsSound, Sound, InHand
<1>0. Wanted \subseteq Nat \ {0} /\ wx.cursor \in Nat /\ wxDisk.cursor \in Nat /\ wxSaves \subseteq Nat /\ wx.till \in Nat
  BY DEF Shapes, Instances
<1>1. CASE WxStart
  BY <1>0, <1>1, OffIsInstance DEF WxStart, WxOff
<1>2. CASE WxLogin
  <2>1. wx'.at # "publish" /\ wx'.cursor \in {0, wx.cursor} /\ wxDisk'.cursor = wxDisk.cursor
    BY <1>2, OffIsInstance DEF WxLogin, Shapes, Instances
  <2> QED
    BY <1>0, <1>2, <2>1 DEF WxLogin
<1>3. CASE WxMessages
  <2>1. PICK k \in wx.cursor + 1 .. Len(wxKinds) :
          /\ wx'.at = "publish" /\ wx'.cursor = k /\ wx'.till = wx.cursor
          /\ wxSaves' = wxSaves \cup {k}
    BY <1>3 DEF WxMessages, Polling, Shapes, Instances
  <2> QED
    BY <1>0, <1>3, <2>1 DEF WxMessages, Polling
<1>4. CASE WxPublish
  <2>1. wx'.at = "poll" /\ wx'.cursor = wx.cursor
    BY <1>4 DEF WxPublish, Shapes, Instances
  <2> QED
    BY <1>0, <1>4, <2>1 DEF WxPublish
<1>5. CASE WxTimeout \/ WxResume
  <2>1. wx.at # "publish" /\ wx'.at = "poll" /\ wx'.cursor = wx.cursor
    BY <1>5 DEF WxTimeout, WxResume, Polling, Shapes, Instances
  <2> QED
    BY <1>0, <1>5, <2>1 DEF WxTimeout, WxResume, Polling
<1>6. CASE WxRefused \/ WxExpired \/ WxFails \/ WxStop
  <2>1. wx.at # "publish" /\ wx'.at # "publish" /\ wx'.cursor \in {0, wx.cursor} /\ wxDisk'.cursor = wxDisk.cursor
    BY <1>6, OffIsInstance DEF WxRefused, WxExpired, WxFails, WxStop, Polling, Shapes, Instances
  <2> QED
    BY <1>0, <1>6, <2>1 DEF WxRefused, WxExpired, WxFails, WxStop, Polling
<1>7. CASE SaveCursor
  <2>1. wxDisk'.cursor \in wxSaves /\ wxSaves' \subseteq wxSaves
    BY <1>7 DEF SaveCursor, Shapes
  <2> QED
    BY <1>0, <1>7, <2>1 DEF SaveCursor
<1>8. CASE WxKill
  <2>1. \A i \in Wanted : InHand(i) => i \in wxKilled'
    BY <1>0, <1>8 DEF WxKill
  <2>2. wx'.at # "publish" /\ wx'.cursor = 0 /\ wxSaves' = {} /\ wxKilled \subseteq wxKilled'
    BY <1>8, OffIsInstance DEF WxKill
  <2>3. Wanted' = Wanted /\ wxDisk' = wxDisk /\ wxOut' = wxOut
    BY <1>8 DEF WxKill
  <2> QED
    BY <1>0, <2>1, <2>2, <2>3
<1>9. CASE WxArrives
  <2>1. PICK k \in {"user", "bot", "bad"} : wxKinds' = Append(wxKinds, k)
    BY <1>9 DEF WxArrives
  <2>2. \A i \in Wanted' : i \in Wanted \/ i = Len(wxKinds) + 1
    BY <2>1 DEF Wanted, Shapes
  <2>3. wx.cursor <= Len(wxKinds) /\ wxDisk.cursor <= Len(wxKinds) /\ \A c \in wxSaves : c <= Len(wxKinds)
    BY DEF Shapes, WechatTypeOK
  <2>4. Len(wxKinds) \in Nat
    BY DEF Shapes
  <2>5. /\ wx' = wx /\ wxDisk' = wxDisk /\ wxSaves' = wxSaves
        /\ wxOut' = wxOut /\ wxKilled' = wxKilled
    BY <1>9 DEF WxArrives
  <2>6. ASSUME NEW c \in Nat, c <= Len(wxKinds), Sound(c) PROVE Sound(c)'
    BY <2>2, <2>4, <2>5, <2>6
  <2> QED
    BY <1>0, <2>3, <2>5, <2>6
<1>10. CASE WxRevoke
  BY <1>10 DEF WxRevoke
<1>11. CASE UNCHANGED wxVars
  BY <1>11 DEF wxVars
<1> QED
  BY <1>1, <1>2, <1>3, <1>4, <1>5, <1>6, <1>7, <1>8, <1>9, <1>10, <1>11 DEF WechatNext, WxLoop

\* The cursor on disk (save_cursor in a task of its own, load_cursor at the next
\* start) never passes a user's message that was neither published, nor in hand,
\* nor in hand of a process that was killed: however many messages, logins,
\* failures, stops and delayed writes there are.
THEOREM CursorIsSound == WechatSpec => []WxCursorSkipsNothing
<1>1. CursorsSound => WxCursorSkipsNothing
  BY DEF CursorsSound, Sound, InHand, WxCursorSkipsNothing
<1>2. WechatSpec => [](Shapes /\ CursorsSound)
  BY ShapesInitially, SoundInitially, ShapesStep, SoundStep, PTL DEF WechatSpec
<1> QED
  BY <1>1, <1>2, PTL

\* The types of the variables of the WeChat adapter are part of its invariant: WechatTypeOK.
LEMMA WechatTypes == WechatSpec => []WechatTypeOK
  <1>1. Shapes => WechatTypeOK
    BY DEF Shapes
  <1> QED
    BY <1>1, ShapesInitially, ShapesStep, PTL DEF WechatSpec

-----------------------------------------------------------------------------
(* The gateway of QQ (QqGateway).                                            *)
QqSpec == QqInit /\ [][QqNextStep]_qqVars

\* The loop has the fields that are compared, and its two numbers are numbers.
Fields ==
  /\ {"at", "session", "seq"} \subseteq DOMAIN qq
  /\ qq.seq \in Nat /\ qqNext \in Nat

\* While events flow, the platform's next one follows the last one handled: after
\* a Ready it is the second of the session, after a Resumed the one after seq.
NextFollows == qq.at = "live" => qqNext = qq.seq + 1

QqInv == Fields /\ NextFollows /\ QqResumeSkipsNothing

LEMMA OffFields ==
  /\ {"at", "session", "seq"} \subseteq DOMAIN QqOff
  /\ QqOff.at = "off" /\ QqOff.session = 0 /\ QqOff.seq = 0
  BY DEF QqOff

\* Off the stream, a step that keeps the session and its number, or forgets the
\* session, disturbs nothing.
LEMMA OffStream ==
  ASSUME QqInv, qqSeen \subseteq qqSeen', qqNext' \in Nat, qq'.at # "live",
         DOMAIN qq' = DOMAIN qq, qq'.seq \in {0, qq.seq},
         qq'.session = 0 \/ (qq'.session = qq.session /\ qq'.seq = qq.seq)
  PROVE  QqInv'
  BY DEF QqInv, Fields, NextFollows, QqResumeSkipsNothing

LEMMA QqInitially == QqInit => QqInv
  BY OffFields DEF QqInit, QqInv, Fields, NextFollows, QqResumeSkipsNothing

LEMMA QqStep == QqInv /\ [QqNextStep]_qqVars => QqInv'
<1> SUFFICES ASSUME QqInv, [QqNextStep]_qqVars PROVE QqInv'
  OBVIOUS
<1>0. Fields /\ NextFollows /\ QqResumeSkipsNothing
  BY DEF QqInv
<1>1. CASE QqConnect \/ QqStop \/ QqReplace
  <2>1. qq' = QqOff \/ qq' = [QqOff EXCEPT !.at = "url"]
    BY <1>1 DEF QqConnect, QqStop, QqReplace
  <2>2. qqSeen' = qqSeen /\ qqNext' = qqNext
    BY <1>1 DEF QqConnect, QqStop, QqReplace, PlatformRests
  <2>3. /\ {"at", "session", "seq"} \subseteq DOMAIN qq'
        /\ qq'.at # "live" /\ qq'.session = 0 /\ qq'.seq = 0
    BY <2>1, OffFields
  <2> QED
    BY <1>0, <2>2, <2>3 DEF QqInv, Fields, NextFollows, QqResumeSkipsNothing
<1>2. CASE QqUrl \/ QqDial \/ QqHello \/ QqOpen
  <2>1. qqSeen' = qqSeen /\ qqNext' \in Nat
    BY <1>0, <1>2 DEF QqUrl, QqDial, QqHello, QqOpen, PlatformRests, Fields
  <2>2. (qq' = qq /\ qq.at = "url") \/ \E at : at # "live" /\ qq' = [qq EXCEPT !.at = at]
    BY <1>2 DEF QqUrl, QqDial, QqHello, QqOpen, Moves
  <2>3. DOMAIN qq' = DOMAIN qq /\ qq'.at # "live" /\ qq'.session = qq.session /\ qq'.seq = qq.seq
    BY <1>0, <2>2 DEF Fields
  <2> QED
    BY <2>1, <2>3, OffStream
<1>3. CASE QqRefused \/ QqBreaks
  <2>1. qqSeen' = qqSeen /\ qqNext' \in Nat
    BY <1>0, <1>3 DEF QqRefused, QqBreaks, PlatformRests, Fields
  <2>2. DOMAIN qq' = DOMAIN qq /\ qq'.at = "url" /\ qq'.session \in {0, qq.session} /\ qq'.seq = qq.seq
    BY <1>0, <1>3 DEF QqRefused, QqBreaks, Fields
  <2> QED
    BY <2>1, <2>2, OffStream
<1>4. CASE QqReady
  <2>1. qqNext' = 2 /\ qq'.seq = 1 /\ DOMAIN qq' = DOMAIN qq
    BY <1>0, <1>4 DEF QqReady, Fields
  <2> QED
    BY <1>0, <2>1 DEF QqInv, Fields, NextFollows, QqResumeSkipsNothing
<1>5. CASE QqResumed
  <2>1. DOMAIN qq' = DOMAIN qq /\ qq'.seq = qq.seq /\ qqSeen' = qqSeen
    BY <1>0, <1>5 DEF QqResumed, Fields
  <2>2. CASE qq.session = qqKept
    <3>1. qqNext' = qq.seq + 1 /\ qq'.session = qq.session
      BY <1>0, <1>5, <2>2 DEF QqResumed, Fields
    <3> QED
      BY <1>0, <2>1, <3>1 DEF QqInv, Fields, NextFollows, QqResumeSkipsNothing
  <2>3. CASE qq.session # qqKept
    <3>1. qqNext' = qqNext /\ qq'.at = "url" /\ qq'.session = 0
      BY <1>0, <1>5, <2>3 DEF QqResumed, Fields
    <3> QED
      BY <1>0, <2>1, <3>1, OffStream DEF Fields
  <2> QED
    BY <2>2, <2>3
<1>6. CASE QqEvent
  <2>1. /\ DOMAIN qq' = DOMAIN qq /\ qq'.seq = qqNext /\ qq'.session = qq.session
        /\ qqNext' = qqNext + 1 /\ qqNext = qq.seq + 1
        /\ qqSeen' = qqSeen \cup {<<qq.session, qqNext>>}
    BY <1>0, <1>6 DEF QqEvent, Fields, NextFollows
  <2>2. \A n \in 2 .. qqNext : n \in 2 .. qq.seq \/ n = qqNext
    BY <1>0, <2>1 DEF Fields
  <2> QED
    BY <1>0, <2>1, <2>2 DEF QqInv, Fields, NextFollows, QqResumeSkipsNothing
<1>7. CASE PlatformEvent \/ PlatformForgets \/ UNCHANGED qqVars
  <2>1. qq' = qq /\ qqNext' = qqNext /\ qqSeen' = qqSeen
    BY <1>7 DEF PlatformEvent, PlatformForgets, qqVars
  <2> QED
    BY <1>0, <2>1 DEF QqInv, Fields, NextFollows, QqResumeSkipsNothing
<1> QED
  BY <1>1, <1>2, <1>3, <1>4, <1>5, <1>6, <1>7 DEF QqNextStep, GatewaySteps

\* The number the loop would resume a session from (op 6 with seq) never passes
\* an event of that session it has not handed to handle_dispatch, for any number
\* of connections, sessions, events and refusals.
THEOREM ResumeIsSound == QqSpec => []QqResumeSkipsNothing
<1>1. QqInv => QqResumeSkipsNothing
  BY DEF QqInv
<1> QED
  BY <1>1, QqInitially, QqStep, PTL DEF QqSpec

\* The session the platform has and the one the loop would resume are sessions that
\* were opened; while events flow, or a new session begins, the platform has one.
QqAt == {"off", "url", "dial", "hello", "open", "identify", "resume", "refuse", "live", "stuck", "ended"}
QqRest ==
  /\ qq.at \in QqAt /\ qqFaults \in 0 .. MaxQqFaults
  /\ qqHead \in Seq(1 .. MaxQqEvents) /\ qqKept \in 0 .. Len(qqHead)
  /\ qq.session \in 0 .. Len(qqHead) /\ qq.seq \in 0 .. MaxQqEvents
  /\ qq.at \in {"live", "identify"} => qqKept # 0
  /\ qq.at = "resume" => qq.session # 0

\* Every step of the loop and of the platform keeps the rest.
LEMMA QqRestStep == QqInv /\ QqRest /\ [QqNextStep]_qqVars => QqRest'
  <1> SUFFICES ASSUME QqInv, QqRest, [QqNextStep]_qqVars PROVE QqRest'
    OBVIOUS
  <1>0. /\ {"at", "session", "seq"} \subseteq DOMAIN qq /\ MaxQqEvents \in Nat /\ MaxQqEvents >= 1 /\ MaxQqFaults \in Nat
        /\ qqHead \in Seq(1 .. MaxQqEvents) /\ Len(qqHead) \in Nat
    BY QqAssumption DEF QqInv, Fields, QqRest
  <1>1. ASSUME UNCHANGED qqHead, UNCHANGED qqKept \/ (qqKept' = 0 /\ UNCHANGED qq /\ qq.at \notin {"live", "identify"}),
               qqFaults' = qqFaults \/ QqFault, qq'.at \in QqAt,
               qq'.session \in {0, qq.session}, qq'.seq \in 0 .. MaxQqEvents,
               qq'.at \in {"live", "identify"} => qq.at \in {"live", "identify"},
               qq'.at = "resume" => qq'.session # 0
        PROVE  QqRest'
    <2>1. qqFaults' \in 0 .. MaxQqFaults
      BY <1>0, <1>1 DEF QqFault, QqRest
    <2>2. qqKept' \in 0 .. Len(qqHead) /\ qq'.session \in 0 .. Len(qqHead)
      BY <1>0, <1>1 DEF QqRest
    <2>3. qq'.at \in {"live", "identify"} => qqKept' # 0
      BY <1>1 DEF QqRest
    <2> QED
      BY <1>0, <1>1, <2>1, <2>2, <2>3 DEF QqRest
  <1>2. QqOff.at = "off" /\ QqOff.session = 0 /\ QqOff.seq = 0 /\ [QqOff EXCEPT !.at = "url"].at = "url"
        /\ [QqOff EXCEPT !.at = "url"].session = 0 /\ [QqOff EXCEPT !.at = "url"].seq = 0
    BY DEF QqOff
  <1>3. CASE QqConnect \/ QqStop \/ QqReplace
    <2>1. qq' = QqOff \/ qq' = [QqOff EXCEPT !.at = "url"]
      BY <1>3 DEF QqConnect, QqStop, QqReplace
    <2>2. UNCHANGED <<qqHead, qqKept>> /\ (qqFaults' = qqFaults \/ QqFault)
      BY <1>3 DEF QqConnect, QqStop, QqReplace, PlatformRests
    <2>3. qq'.at \in {"off", "url"} /\ qq'.session = 0 /\ qq'.seq = 0
      BY <1>2, <2>1
    <2> QED
      BY <1>0, <1>1, <2>2, <2>3 DEF QqAt
  <1>4. CASE QqUrl \/ QqDial \/ QqHello \/ QqBreaks \/ QqRefused
    <2>1. UNCHANGED <<qqHead, qqKept>> /\ (qqFaults' = qqFaults \/ QqFault)
      BY <1>4 DEF QqUrl, QqDial, QqHello, QqBreaks, QqRefused, PlatformRests
    <2>2. qq'.at \in {"dial", "url", "ended", "hello", "open", "stuck"} /\ qq'.session \in {0, qq.session} /\ qq'.seq = qq.seq
      <3>1. CASE QqUrl
        BY <1>0, <3>1 DEF QqUrl, Moves
      <3>2. CASE QqDial
        BY <1>0, <3>2 DEF QqDial, Moves
      <3>3. CASE QqHello
        BY <1>0, <3>3 DEF QqHello, Moves
      <3>4. CASE QqBreaks
        BY <1>0, <3>4 DEF QqBreaks
      <3>5. CASE QqRefused
        BY <1>0, <3>5 DEF QqRefused
      <3> QED
        BY <1>4, <3>1, <3>2, <3>3, <3>4, <3>5
    <2> QED
      BY <1>1, <2>1, <2>2 DEF QqAt, QqRest
  <1>5. CASE QqOpen
    <2>1. UNCHANGED qqFaults
      BY <1>5 DEF QqOpen
    <2>2. CASE Moves("resume") /\ qq.session # 0 /\ UNCHANGED <<qqHead, qqKept>>
      <3>1. qq'.at = "resume" /\ qq'.session = qq.session /\ qq'.seq = qq.seq
        BY <1>0, <2>2 DEF Moves
      <3> QED
        BY <1>1, <2>1, <2>2, <3>1 DEF QqAt, QqRest
    <2>3. CASE Moves("refuse") /\ UNCHANGED <<qqHead, qqKept>>
      <3>1. qq'.at = "refuse" /\ qq'.session = qq.session /\ qq'.seq = qq.seq
        BY <1>0, <2>3 DEF Moves
      <3> QED
        BY <1>1, <2>1, <2>3, <3>1 DEF QqAt, QqRest
    <2>4. CASE qqHead' = Append(qqHead, 1) /\ qqKept' = Len(qqHead') /\ Moves("identify")
      <3>1. qq'.at = "identify" /\ qq'.session = qq.session /\ qq'.seq = qq.seq
        BY <1>0, <2>4 DEF Moves
      <3>2. 1 \in 1 .. MaxQqEvents
        BY <1>0
      <3>3. qqHead' \in Seq(1 .. MaxQqEvents) /\ Len(qqHead') = Len(qqHead) + 1
        BY <1>0, <2>4, <3>2
      <3>4. qqKept' \in 0 .. Len(qqHead') /\ qqKept' # 0 /\ qq'.session \in 0 .. Len(qqHead')
        BY <1>0, <2>4, <3>1, <3>3 DEF QqRest
      <3> QED
        BY <2>1, <3>1, <3>3, <3>4 DEF QqRest, QqAt
    <2> QED
      BY <1>5, <2>2, <2>3, <2>4 DEF QqOpen
  <1>6. CASE QqReady
    <2>1. qq'.at = "live" /\ qq'.session = qqKept /\ qq'.seq = 1 /\ qqKept # 0 /\ UNCHANGED <<qqHead, qqKept, qqFaults>>
      BY <1>0, <1>6 DEF QqReady, QqRest
    <2> QED
      BY <1>0, <2>1 DEF QqRest, QqAt
  <1>7. CASE QqResumed
    <2>1. UNCHANGED <<qqHead, qqKept, qqFaults>> /\ qq.session # 0
      BY <1>7 DEF QqResumed, QqRest
    <2>2. CASE qq.session = qqKept
      <3>1. qq'.at = "live" /\ qq'.session = qq.session /\ qq'.seq = qq.seq
        BY <1>0, <1>7, <2>2 DEF QqResumed
      <3> QED
        BY <2>1, <2>2, <3>1 DEF QqRest, QqAt
    <2>3. CASE qq.session # qqKept
      <3>1. qq'.at = "url" /\ qq'.session = 0 /\ qq'.seq = qq.seq
        BY <1>0, <1>7, <2>3 DEF QqResumed
      <3> QED
        BY <1>1, <2>1, <3>1 DEF QqAt, QqRest
    <2> QED
      BY <2>2, <2>3
  <1>8. CASE QqEvent
    <2>1. qq'.at = "live" /\ qq.at = "live" /\ qq'.session = qq.session /\ qq'.seq = qqNext /\ qqNext <= qqHead[qqKept] /\ qqNext \in Nat
          /\ UNCHANGED <<qqHead, qqKept, qqFaults>>
      BY <1>0, <1>8 DEF QqEvent, QqInv, Fields
    <2>2. qqKept \in 1 .. Len(qqHead)
      BY <1>0, <2>1 DEF QqRest
    <2>3. qqHead[qqKept] \in 1 .. MaxQqEvents
      BY <1>0, <2>2
    <2>4. qqNext \in 0 .. MaxQqEvents
      BY <1>0, <2>1, <2>3
    <2> QED
      BY <2>1, <2>4 DEF QqRest, QqAt
  <1>9. CASE PlatformEvent
    <2>1. qqKept \in 1 .. Len(qqHead) /\ qqHead[qqKept] < MaxQqEvents /\ qqHead' = [qqHead EXCEPT ![qqKept] = @ + 1]
          /\ UNCHANGED <<qq, qqKept, qqFaults>>
      BY <1>0, <1>9 DEF PlatformEvent, QqRest
    <2>2. qqHead[qqKept] + 1 \in 1 .. MaxQqEvents
      <3>1. qqHead[qqKept] \in 1 .. MaxQqEvents
        BY <1>0, <2>1
      <3> QED
        BY <1>0, <2>1, <3>1
    <2>3. qqHead' \in Seq(1 .. MaxQqEvents) /\ Len(qqHead') = Len(qqHead)
      BY <1>0, <2>1, <2>2
    <2> QED
      BY <2>1, <2>3 DEF QqRest
  <1>10. CASE PlatformForgets
    BY <1>1, <1>10 DEF PlatformForgets, QqRest
  <1>11. CASE UNCHANGED qqVars
    BY <1>11 DEF qqVars, QqRest
  <1> QED
    BY <1>3, <1>4, <1>5, <1>6, <1>7, <1>8, <1>9, <1>10, <1>11 DEF QqNextStep, GatewaySteps

\* The types of the variables of the QQ gateway: QqTypeOK.
LEMMA QqTypes == QqSpec => []QqTypeOK
  <1>1. QqInit => QqRest
    BY QqAssumption DEF QqInit, QqOff, QqRest, QqAt
  <1>2. QqInv /\ QqRest => QqTypeOK
    BY DEF QqRest, QqAt, QqTypeOK
  <1> QED
    BY <1>1, <1>2, QqInitially, QqStep, QqRestStep, PTL DEF QqSpec

-----------------------------------------------------------------------------
(* Access tokens (TokenStore).                                               *)
TokenSpec == TokenInit /\ [][TokenNext]_tkVars

\* The fields of a caller and what its place says of them: whoever waits for a
\* token was not refused yet, whoever forces a refresh was, a fetch holds the lock.
CallerOK(c) ==
  /\ {"at", "token", "refused"} \subseteq DOMAIN tkCaller[c]
  /\ tkCaller[c].token \in Nat /\ tkCaller[c].refused \in 0 .. tkIssued
  /\ tkCaller[c].at \in {"idle", "get", "force", "fetch", "send"}
  /\ tkCaller[c].at = "get" => tkCaller[c].refused = 0
  /\ tkCaller[c].at = "force" => tkCaller[c].refused # 0
  /\ tkCaller[c].at = "fetch" => tkLock = c
  /\ tkCaller[c].at = "fetch" /\ tkCaller[c].refused = 0 => ~tkStore.good
  /\ tkCaller[c].at = "send" => tkCaller[c].token > tkCaller[c].refused /\ tkCaller[c].token <= tkIssued

CallersOK ==
  /\ DOMAIN tkCaller = Callers /\ \A c \in Callers : CallerOK(c)
  /\ tkLock = Nobody => \A c \in Callers : tkCaller[c].at # "fetch"

\* What is cached is the newest token.
StoreOK ==
  /\ tkIssued \in Nat /\ tkDue \in Nat
  /\ {"token", "good"} \subseteq DOMAIN tkStore /\ tkStore.good \in BOOLEAN
  /\ tkStore.token = tkIssued /\ (tkStore.good => tkIssued > 0)

\* The refused requests whose refresh is still to come.
Owing == {c \in Callers : tkCaller[c].at \in {"force", "fetch"} /\ tkCaller[c].refused # 0}
Missing == IF tkStore.good THEN 0 ELSE 1
\* Every reason to fetch pays for one token: an issued one, the one that is
\* missing, or the one a refused request is going to force.
Budget == tkIssued + Cardinality(Owing) + Missing <= tkDue

TokenInv == StoreOK /\ CallersOK /\ Budget

-----------------------------------------------------------------------------
LEMMA OwingIsFinite == IsFiniteSet(Owing) /\ Cardinality(Owing) \in Nat
<1>1. Owing \subseteq Callers
  BY DEF Owing
<1> QED
  BY <1>1, TokenAssumption, FS_Subset, FS_CardinalityType

LEMMA IdleFields ==
  /\ {"at", "token", "refused", "reply"} \subseteq DOMAIN TkIdle
  /\ TkIdle.at = "idle" /\ TkIdle.token = 0 /\ TkIdle.refused = 0
  BY DEF TkIdle

LEMMA TokenInitially == TokenInit => TokenInv
<1> SUFFICES ASSUME TokenInit PROVE TokenInv
  OBVIOUS
<1>1. StoreOK
  BY DEF TokenInit, StoreOK
<1>2. CallersOK
  BY IdleFields DEF TokenInit, CallersOK, CallerOK
<1>3. Owing = {}
  BY IdleFields DEF TokenInit, Owing
<1>4. Cardinality(Owing) = 0
  BY <1>3, FS_EmptySet
<1> QED
  BY <1>1, <1>2, <1>4 DEF TokenInit, TokenInv, Budget, Missing

\* One caller moves and nothing else changes what the others rely on.
LEMMA OneCallerMoves ==
  ASSUME TokenInv, NEW c \in Callers, NEW r, CallerGoes(c, r)
  PROVE  /\ DOMAIN tkCaller' = Callers /\ tkCaller'[c] = r
         /\ \A d \in Callers \ {c} : tkCaller'[d] = tkCaller[d]
  BY DEF TokenInv, CallersOK, CallerGoes

LEMMA TokenStep == TokenInv /\ [TokenNext]_tkVars => TokenInv'
<1> SUFFICES ASSUME TokenInv, [TokenNext]_tkVars PROVE TokenInv'
  OBVIOUS
<1>0. StoreOK /\ CallersOK /\ Budget /\ Cardinality(Owing) \in Nat /\ IsFiniteSet(Owing)
  BY OwingIsFinite DEF TokenInv
<1>1. ASSUME NEW c \in Callers, TkRequest(c) PROVE TokenInv'
  <2>1. PICK r : /\ CallerGoes(c, r)
                 /\ \/ Cached /\ r = [TkIdle EXCEPT !.at = "send", !.token = tkStore.token]
                    \/ r = [TkIdle EXCEPT !.at = "get"]
    BY <1>1 DEF TkRequest
  <2>2. /\ {"at", "token", "refused"} \subseteq DOMAIN r /\ r.refused = 0
        /\ \/ r.at = "send" /\ r.token = tkIssued /\ tkIssued > 0
           \/ r.at = "get" /\ r.token = 0
    BY <1>0, <2>1, IdleFields DEF StoreOK, Cached
  <2>3. /\ tkStore' = tkStore /\ tkLock' = tkLock /\ tkIssued' = tkIssued /\ tkDue' = tkDue
        /\ tkCaller[c].at = "idle"
    BY <1>1 DEF TkRequest
  <2>4. CallersOK'
    BY <1>0, <2>1, <2>2, <2>3, OneCallerMoves DEF CallersOK, CallerOK, StoreOK
  <2>5. Owing' = Owing
    BY <2>1, <2>2, <2>3, OneCallerMoves DEF Owing
  <2> QED
    BY <1>0, <2>3, <2>4, <2>5 DEF TokenInv, StoreOK, Budget, Missing
<1>2. ASSUME NEW c \in Callers, TkEnter(c) PROVE TokenInv'
  <2>1. PICK r : /\ CallerGoes(c, r)
                 /\ \/ /\ Cached /\ tkCaller[c].at = "get" /\ tkLock' = tkLock
                       /\ r = [tkCaller[c] EXCEPT !.at = "send", !.token = tkStore.token]
                    \/ /\ ~Cached \/ tkCaller[c].at # "get"
                       /\ r = [tkCaller[c] EXCEPT !.at = "fetch"] /\ tkLock' = c
    BY <1>2 DEF TkEnter
  <2>2. /\ tkStore' = tkStore /\ tkIssued' = tkIssued /\ tkDue' = tkDue
        /\ tkCaller[c].at \in {"get", "force"} /\ tkLock = Nobody
    BY <1>2 DEF TkEnter
  <2>3. /\ {"at", "token", "refused"} \subseteq DOMAIN r /\ r.refused = tkCaller[c].refused
        /\ r.token \in Nat
        /\ \/ r.at = "send" /\ r.refused = 0 /\ r.token = tkIssued /\ tkIssued > 0 /\ tkLock' = tkLock
              /\ tkCaller[c].at = "get"
           \/ r.at = "fetch" /\ tkLock' = c /\ (r.refused = 0 => ~tkStore.good)
    BY <1>0, <2>1, <2>2 DEF StoreOK, CallersOK, CallerOK, Cached
  <2>4. CallersOK'
    BY <1>0, <2>1, <2>2, <2>3, OneCallerMoves, TokenAssumption DEF CallersOK, CallerOK, StoreOK, Nobody
  <2>5. Owing' = Owing
    BY <1>0, <2>1, <2>2, <2>3, OneCallerMoves DEF Owing, CallersOK, CallerOK
  <2> QED
    BY <1>0, <2>2, <2>4, <2>5 DEF TokenInv, StoreOK, Budget, Missing
<1>3. ASSUME NEW c \in Callers, TkFetch(c) PROVE TokenInv'
  <2>1. PICK r : CallerGoes(c, r) /\ r = [tkCaller[c] EXCEPT !.at = "send", !.token = tkIssued']
    BY <1>3 DEF TkFetch
  <2>2. /\ tkCaller[c].at = "fetch" /\ tkLock' = Nobody /\ tkIssued' = tkIssued + 1 /\ tkDue' = tkDue
        /\ tkStore' = [token |-> tkIssued', good |-> TRUE]
    BY <1>3 DEF TkFetch
  <2>3. StoreOK' /\ tkStore'.good
    BY <1>0, <2>2 DEF StoreOK
  <2>4. /\ {"at", "token", "refused"} \subseteq DOMAIN r /\ r.refused = tkCaller[c].refused
        /\ r.at = "send" /\ r.token = tkIssued + 1 /\ r.refused \in 0 .. tkIssued
    BY <1>0, <2>1, <2>2 DEF CallersOK, CallerOK
  <2>5. \A d \in Callers \ {c} : tkCaller[d].at # "fetch"
    BY <1>0, <2>2 DEF CallersOK, CallerOK
  <2>m. /\ DOMAIN tkCaller' = Callers /\ tkCaller'[c] = r
        /\ \A d \in Callers \ {c} : tkCaller'[d] = tkCaller[d]
    BY <2>1, OneCallerMoves
  <2>6. CallersOK'
    <3>1. CallerOK(c)'
      BY <1>0, <2>2, <2>4, <2>m DEF CallerOK, StoreOK
    <3>2. ASSUME NEW d \in Callers \ {c} PROVE CallerOK(d)'
      BY <1>0, <2>2, <2>5, <2>m, <3>2 DEF CallersOK, CallerOK, StoreOK
    <3> QED
      BY <2>4, <2>5, <2>m, <3>1, <3>2 DEF CallersOK
  <2>7. Owing' = Owing \ {c}
    BY <2>4, <2>5, <2>m DEF Owing
  <2>8. tkIssued' + Cardinality(Owing') <= tkDue
    <3>1. CASE c \in Owing
      <4>1. Cardinality(Owing') = Cardinality(Owing) - 1
        BY <1>0, <2>7, <3>1, FS_RemoveElement
      <4> QED
        BY <1>0, <2>2, <4>1 DEF Budget, Missing, StoreOK
    <3>2. CASE c \notin Owing
      <4>1. Owing' = Owing /\ ~tkStore.good
        BY <1>0, <2>2, <2>7, <3>2 DEF Owing, CallersOK, CallerOK
      <4> QED
        BY <1>0, <2>2, <4>1 DEF Budget, Missing, StoreOK
    <3> QED
      BY <3>1, <3>2
  <2>9. Missing' = 0
    BY <2>3 DEF Missing
  <2>10. Cardinality(Owing') \in Nat
    BY <1>0, <2>7, FS_Subset, FS_CardinalityType
  <2> QED
    BY <1>0, <2>2, <2>3, <2>6, <2>8, <2>9, <2>10 DEF TokenInv, Budget, StoreOK
<1>4. ASSUME NEW c \in Callers, TkFetchFails(c) PROVE TokenInv'
  <2>1. PICK r : CallerGoes(c, r) /\ r = [TkIdle EXCEPT !.reply = "err"]
    BY <1>4 DEF TkFetchFails
  <2>2. /\ tkCaller[c].at = "fetch" /\ tkLock' = Nobody /\ tkIssued' = tkIssued /\ tkDue' = tkDue
        /\ tkStore' = tkStore
    BY <1>4 DEF TkFetchFails
  <2>3. {"at", "token", "refused"} \subseteq DOMAIN r /\ r.refused = 0 /\ r.at = "idle" /\ r.token = 0
    BY <2>1, IdleFields
  <2>4. \A d \in Callers \ {c} : tkCaller[d].at # "fetch"
    BY <1>0, <2>2 DEF CallersOK, CallerOK
  <2>5. CallersOK'
    BY <1>0, <2>1, <2>2, <2>3, <2>4, OneCallerMoves DEF CallersOK, CallerOK, StoreOK
  <2>6. Owing' = Owing \ {c}
    BY <1>0, <2>1, <2>2, <2>3, <2>4, OneCallerMoves DEF Owing, CallersOK
  <2>7. Cardinality(Owing') \in Nat /\ Cardinality(Owing') <= Cardinality(Owing)
    BY <1>0, <2>6, FS_Subset, FS_CardinalityType
  <2> QED
    BY <1>0, <2>2, <2>5, <2>7 DEF TokenInv, StoreOK, Budget, Missing
<1>5. ASSUME NEW c \in Callers, TkSend(c) PROVE TokenInv'
  <2>1. /\ tkCaller[c].at = "send" /\ tkStore' = tkStore /\ tkLock' = tkLock /\ tkIssued' = tkIssued
        /\ tkTaken' = tkTaken
    BY <1>5 DEF TkSend
  <2>2. CASE \E reply : CallerGoes(c, [TkIdle EXCEPT !.reply = reply]) /\ tkDue' = tkDue
    <3>1. PICK r : CallerGoes(c, r) /\ \E reply : r = [TkIdle EXCEPT !.reply = reply]
      BY <2>2
    <3>2. {"at", "token", "refused"} \subseteq DOMAIN r /\ r.refused = 0 /\ r.at = "idle" /\ r.token = 0
      BY <3>1, IdleFields
    <3>3. CallersOK'
      BY <1>0, <2>1, <3>1, <3>2, OneCallerMoves DEF CallersOK, CallerOK, StoreOK
    <3>4. Owing' = Owing
      BY <1>0, <2>1, <3>1, <3>2, OneCallerMoves DEF Owing, CallersOK
    <3> QED
      BY <1>0, <2>1, <2>2, <3>3, <3>4 DEF TokenInv, StoreOK, Budget, Missing
  <2>3. CASE /\ tkCaller[c].refused = 0 /\ tkDue' = tkDue + 1
             /\ CallerGoes(c, [tkCaller[c] EXCEPT !.at = "force", !.refused = tkCaller[c].token])
    <3>1. PICK r : CallerGoes(c, r) /\ r = [tkCaller[c] EXCEPT !.at = "force", !.refused = tkCaller[c].token]
      BY <2>3
    <3>2. /\ {"at", "token", "refused"} \subseteq DOMAIN r /\ r.token \in Nat
          /\ r.at = "force" /\ r.refused \in 1 .. tkIssued
      BY <1>0, <2>1, <2>3, <3>1 DEF CallersOK, CallerOK, StoreOK
    <3>m. /\ DOMAIN tkCaller' = Callers /\ tkCaller'[c] = r
          /\ \A d \in Callers \ {c} : tkCaller'[d] = tkCaller[d]
      BY <3>1, OneCallerMoves
    <3>3. CallersOK'
      <4>1. CallerOK(c)'
        BY <1>0, <2>1, <3>2, <3>m DEF CallerOK, StoreOK
      <4>2. ASSUME NEW d \in Callers \ {c} PROVE CallerOK(d)'
        BY <1>0, <2>1, <3>m, <4>2 DEF CallersOK, CallerOK
      <4> QED
        BY <1>0, <2>1, <3>2, <3>m, <4>1, <4>2 DEF CallersOK
    <3>4. Owing' = Owing \cup {c} /\ c \notin Owing
      BY <2>1, <3>2, <3>m DEF Owing
    <3>5. Cardinality(Owing') = Cardinality(Owing) + 1
      BY <1>0, <3>4, FS_AddElement
    <3> QED
      BY <1>0, <2>1, <2>3, <3>3, <3>5 DEF TokenInv, StoreOK, Budget, Missing
  <2> QED
    BY <1>5, <2>2, <2>3 DEF TkSend
<1>6. CASE TkRunsOut
  <2>1. /\ tkLock' = tkLock /\ tkCaller' = tkCaller /\ tkIssued' = tkIssued /\ tkDue' = tkDue + 1
        /\ tkStore' = [tkStore EXCEPT !.good = FALSE] /\ tkStore.good
    BY <1>6 DEF TkRunsOut, Cached
  <2>2. StoreOK' /\ ~tkStore'.good
    BY <1>0, <2>1 DEF StoreOK
  <2>3. CallersOK' /\ Owing' = Owing
    BY <1>0, <2>1, <2>2 DEF CallersOK, CallerOK, Owing
  <2> QED
    BY <1>0, <2>1, <2>2, <2>3 DEF TokenInv, StoreOK, Budget, Missing
<1>7. CASE TkRevoke \/ UNCHANGED tkVars
  <2>1. /\ tkStore' = tkStore /\ tkLock' = tkLock /\ tkCaller' = tkCaller
        /\ tkIssued' = tkIssued /\ tkDue' = tkDue
    BY <1>7 DEF TkRevoke, tkVars
  <2> QED
    BY <1>0, <2>1 DEF TokenInv, StoreOK, CallersOK, CallerOK, Budget, Missing, Owing
<1> QED
  BY <1>1, <1>2, <1>3, <1>4, <1>5, <1>6, <1>7 DEF TokenNext

\* However many requests wait for, use or are refused a token at the same time,
\* refresh_inner never hands a refused token out again, and no more tokens are
\* fetched than there were reasons to fetch one.
THEOREM RenewalIsShared == TokenSpec => []TokensAreRenewedOnce
<1>1. TokenInv => TokensAreRenewedOnce
  BY OwingIsFinite DEF TokenInv, StoreOK, CallersOK, CallerOK, Budget, Missing, TokensAreRenewedOnce
<1> QED
  BY <1>1, TokenInitially, TokenStep, PTL DEF TokenSpec

\* The lock is held by a caller or by nobody.
TokenLockOK == tkLock \in Callers \cup {Nobody}

\* The types of the variables of the token store: TokenTypeOK.
LEMMA TokenTypes == TokenSpec => []TokenTypeOK
  <1>1. TokenInit => TokenLockOK
    BY DEF TokenInit, TokenLockOK
  <1>2. TokenLockOK /\ [TokenNext]_tkVars => TokenLockOK'
    BY DEF TokenLockOK, TokenNext, TkRequest, TkEnter, TkFetch, TkFetchFails, TkSend, TkRunsOut, TkRevoke, tkVars
  <1>3. TokenInv /\ TokenLockOK => TokenTypeOK
    BY DEF TokenInv, StoreOK, CallersOK, CallerOK, TokenLockOK, TokenTypeOK
  <1> QED
    BY <1>1, <1>2, <1>3, TokenInitially, TokenStep, PTL DEF TokenSpec

-----------------------------------------------------------------------------
(* The long poll of Telegram (TelegramPolling). What was handled is a beginning*)
(* of the stream, the offsets of every loop stay behind it, and the cached list*)
(* of administrators differs from the platform's by the changes not handled yet.*)
TelegramSpec == TelegramInit /\ [][TelegramNext]_telegramVars

TgLoop == [at : {"off", "poll", "handle", "pause"}, offset : Nat, batch : Seq(Nat), cancelled : BOOLEAN, own : BOOLEAN]
\* What is below an offset was handled; a batch begins where the handled updates
\* end or before, and has no gap.
LoopFits(me) ==
  /\ 1 .. me.offset - 1 \subseteq handed
  /\ \A i \in 1 .. Len(me.batch) : 1 <= me.batch[i] /\ me.batch[i] <= Len(tgStream)
  /\ \A i \in 1 .. Len(me.batch) - 1 : me.batch[i + 1] = me.batch[i] + 1
  /\ Len(me.batch) > 0 => 1 .. me.batch[1] - 1 \subseteq handed
OffsetsFit ==
  /\ tgStream \in Seq(TgUpdates) /\ confirmed \in Nat /\ lastOffset \in Nat /\ loop \in [Loops -> TgLoop]
  /\ \E n \in Nat : n <= Len(tgStream) /\ handed = 1 .. n
  /\ 1 .. confirmed - 1 \subseteq handed /\ 1 .. lastOffset - 1 \subseteq handed
  /\ \A l \in Loops : LoopFits(loop[l])

\* A place where no loop runs.
LEMMA OffIsLoop == Off \in TgLoop /\ LoopFits(Off)
  <1>1. Off \in TgLoop
    BY DEF Off, TgLoop
  <1>2. Off.offset = 0 /\ Off.batch = <<>>
    BY DEF Off
  <1> QED BY <1>1, <1>2 DEF LoopFits

\* One loop changes, and what was handled grows at its end.
LEMMA LoopChanges ==
  ASSUME OffsetsFit, NEW l \in Loops, NEW me \in TgLoop, LoopFits(me)', loop' = [loop EXCEPT ![l] = me],
         handed \subseteq handed', tgStream' = tgStream
  PROVE  loop' \in [Loops -> TgLoop] /\ \A m \in Loops : LoopFits(loop[m])'
  <1>1. loop' \in [Loops -> TgLoop]
    BY DEF OffsetsFit
  <1>2. ASSUME NEW m \in Loops PROVE LoopFits(loop[m])'
    <2>1. CASE m = l
      <3>1. loop'[m] = me
        BY <2>1 DEF OffsetsFit
      <3> QED BY <3>1
    <2>2. CASE m # l
      <3>1. loop'[m] = loop[m]
        BY <2>2 DEF OffsetsFit
      <3> QED BY <3>1 DEF LoopFits, OffsetsFit
    <2> QED BY <2>1, <2>2
  <1> QED BY <1>1, <1>2

\* An interval from one has one end.
LEMMA SameEnd ==
  ASSUME NEW x \in Nat, NEW y \in Nat, 1 .. x = 1 .. y
  PROVE  x = y
  <1>1. x > 0 => x \in 1 .. x
    OBVIOUS
  <1>2. y > 0 => y \in 1 .. y
    OBVIOUS
  <1>3. x > 0 => x <= y
    BY <1>1
  <1>4. y > 0 => y <= x
    BY <1>2
  <1> QED BY <1>3, <1>4

\* A sequence that counts up from a number.
LEMMA Counting ==
  ASSUME NEW k \in Nat, NEW first \in Nat, first > 0
  PROVE  LET b == [i \in 1 .. k |-> first + i - 1]
         IN  b \in Seq(Nat) /\ Len(b) = k /\ \A i \in 1 .. k : b[i] = first + i - 1
  <1> DEFINE b == [i \in 1 .. k |-> first + i - 1]
  <1>1. b \in [1 .. k -> Nat]
    OBVIOUS
  <1>2. b \in Seq(Nat)
    BY <1>1, SeqDef
  <1>3. Len(b) = k
    <2>1. Len(b) \in Nat /\ DOMAIN b = 1 .. Len(b) /\ DOMAIN b = 1 .. k
      BY <1>2, LenProperties
    <2> QED BY <2>1, SameEnd
  <1> QED BY <1>2, <1>3

\* A cancelled loop keeps its offset and its batch.
LEMMA CancelledFits ==
  ASSUME OffsetsFit, NEW own \in BOOLEAN, NEW l \in Loops
  PROVE  Cancelled(own)[l] \in TgLoop /\ LoopFits(Cancelled(own)[l])
  <1>1. loop[l] \in TgLoop /\ LoopFits(loop[l])
    BY DEF OffsetsFit
  <1>2. CASE loop[l].at = "off"
    BY <1>2, OffIsLoop DEF Cancelled
  <1>3. CASE loop[l].at # "off"
    <2>1. PICK b \in BOOLEAN : Cancelled(own)[l] = [loop[l] EXCEPT !.cancelled = TRUE, !.own = b]
      <3>1. Cancelled(own)[l] = [loop[l] EXCEPT !.cancelled = TRUE, !.own = @ /\ own]
        BY <1>3 DEF Cancelled
      <3>2. (loop[l].own /\ own) \in BOOLEAN
        BY Zenon
      <3>3. [loop[l] EXCEPT !.cancelled = TRUE, !.own = @ /\ own] = [loop[l] EXCEPT !.cancelled = TRUE, !.own = loop[l].own /\ own]
        OBVIOUS
      <3> QED BY <3>1, <3>2, <3>3, Zenon
    <2> DEFINE me == [loop[l] EXCEPT !.cancelled = TRUE, !.own = b]
    <2>2. PICK x \in TgLoop : x = loop[l]
      BY <1>1
    <2>3. [x EXCEPT !.cancelled = TRUE, !.own = b] \in TgLoop
      BY DEF TgLoop
    <2>4. [x EXCEPT !.cancelled = TRUE, !.own = b].offset = x.offset /\ [x EXCEPT !.cancelled = TRUE, !.own = b].batch = x.batch
      BY DEF TgLoop
    <2>5. me \in TgLoop /\ me.offset = loop[l].offset /\ me.batch = loop[l].batch
      BY <2>2, <2>3, <2>4
    <2> HIDE DEF me
    <2>6. LoopFits(me)
      BY <1>1, <2>5 DEF LoopFits
    <2> QED BY <2>1, <2>5, <2>6 DEF me
  <1> QED BY <1>2, <1>3

\* A new loop starts at the offset that was stored.
LEMMA SpawnFits ==
  ASSUME OffsetsFit, SpawnLoop(Cancelled(TRUE), lastOffset), UNCHANGED <<tgStream, confirmed, lastOffset, handed>>
  PROVE  OffsetsFit'
  <1>1. PICK l \in Loops :
          loop' = [m \in Loops |-> IF m = l THEN [at |-> "poll", offset |-> lastOffset, batch |-> <<>>, cancelled |-> FALSE, own |-> TRUE]
                                   ELSE Cancelled(TRUE)[m]]
    BY DEF SpawnLoop
  <1> DEFINE new == [at |-> "poll", offset |-> lastOffset, batch |-> <<>>, cancelled |-> FALSE, own |-> TRUE]
  <1>2. new \in TgLoop /\ new.offset = lastOffset /\ new.batch = <<>>
    <2>1. lastOffset \in Nat /\ <<>> \in Seq(Nat)
      BY DEF OffsetsFit
    <2> QED BY <2>1 DEF TgLoop
  <1> HIDE DEF new
  <1>3. LoopFits(new)
    <2>1. 1 .. new.offset - 1 \subseteq handed
      BY <1>2 DEF OffsetsFit
    <2>2. Len(new.batch) = 0
      BY <1>2
    <2> QED BY <2>1, <2>2 DEF LoopFits
  <1>4. \A m \in Loops : Cancelled(TRUE)[m] \in TgLoop /\ LoopFits(Cancelled(TRUE)[m])
    BY CancelledFits
  <1>5. \A m \in Loops : loop'[m] \in TgLoop /\ LoopFits(loop'[m])
    BY <1>1, <1>2, <1>3, <1>4 DEF new
  <1>6. loop' \in [Loops -> TgLoop]
    BY <1>1, <1>2, <1>4 DEF new
  <1>7. \A m \in Loops : LoopFits(loop[m])'
    BY <1>5 DEF LoopFits
  <1> QED BY <1>6, <1>7 DEF OffsetsFit

\* A loop moves with its offset and its batch.
LEMMA LoopMoves ==
  ASSUME OffsetsFit, NEW l \in Loops, NEW at \in {"off", "poll", "handle", "pause"}, loop' = [loop EXCEPT ![l].at = at],
         tgStream' = tgStream, handed' = handed
  PROVE  loop' \in [Loops -> TgLoop] /\ \A m \in Loops : LoopFits(loop[m])'
  <1>1. PICK x \in TgLoop : x = loop[l] /\ LoopFits(x)
    BY DEF OffsetsFit
  <1> DEFINE me == [x EXCEPT !.at = at]
  <1>2. me \in TgLoop /\ me.offset = x.offset /\ me.batch = x.batch
    BY DEF TgLoop
  <1>3. loop' = [loop EXCEPT ![l] = me]
    BY <1>1
  <1> HIDE DEF me
  <1>4. LoopFits(me)'
    BY <1>1, <1>2 DEF LoopFits
  <1> QED BY <1>2, <1>3, <1>4, LoopChanges

\* A poll tells the platform what to forget and takes the batch that follows.
LEMMA PollFits ==
  ASSUME OffsetsFit, NEW l \in Loops, PollReturns(l)
  PROVE  OffsetsFit'
  <1>1. PICK x \in TgLoop : x = loop[l] /\ LoopFits(x) /\ x.offset \in Nat
    BY DEF OffsetsFit, TgLoop
  <1>2. PICK n \in Nat : n <= Len(tgStream) /\ handed = 1 .. n /\ Len(tgStream) \in Nat
    BY DEF OffsetsFit
  <1>3. confirmed' = IF x.offset > confirmed THEN x.offset ELSE confirmed
    BY <1>1 DEF PollReturns
  <1>4. confirmed' \in Nat /\ 1 .. confirmed' - 1 \subseteq handed
    BY <1>1, <1>3 DEF OffsetsFit, LoopFits
  <1>5. PICK first \in Nat : first = IF confirmed' = 0 THEN 1 ELSE confirmed'
    BY <1>4
  <1>6. first > 0 /\ first <= n + 1 /\ 1 .. first - 1 \subseteq handed
    <2>1. first > 0 /\ 1 .. first - 1 \subseteq 1 .. n
      <3>1. PICK c \in Nat : c = confirmed' /\ 1 .. c - 1 \subseteq 1 .. n
        BY <1>2, <1>4
      <3>2. CASE c = 0
        BY <1>5, <3>1, <3>2
      <3>3. CASE c # 0
        <4>1. first = c /\ c > 0
          BY <1>5, <3>1, <3>3
        <4> QED BY <3>1, <4>1
      <3> QED BY <3>2, <3>3
    <2>2. first - 1 > 0 => first - 1 \in 1 .. first - 1
      OBVIOUS
    <2>3. first - 1 > 0 => first - 1 \in 1 .. n
      BY <2>1, <2>2
    <2>4. first - 1 > 0 => first <= n + 1
      BY <2>3
    <2>5. first <= n + 1
      BY <2>1, <2>4
    <2> QED BY <1>2, <2>1, <2>5
  <1>7. PICK k \in Nat : k = Len(tgStream) - first + 1
    BY <1>2, <1>6
  <1>8. PICK batch \in Seq(Nat) : batch = [i \in 1 .. k |-> first + i - 1] /\ Len(batch) = k /\ \A i \in 1 .. k : batch[i] = first + i - 1
    BY <1>6, Counting
  <1>9. loop' = [loop EXCEPT ![l].at = "handle", ![l].batch = batch] /\ UNCHANGED <<tgStream, lastOffset, handed>>
    BY <1>5, <1>7, <1>8 DEF PollReturns
  <1>10. PICK me \in TgLoop : me = [x EXCEPT !.at = "handle", !.batch = batch]
    <2>1. [x EXCEPT !.at = "handle", !.batch = batch] \in TgLoop
      BY DEF TgLoop
    <2> QED BY <2>1
  <1>11. me.offset = x.offset /\ me.batch = batch
    BY <1>10 DEF TgLoop
  <1>12. loop' = [loop EXCEPT ![l] = me]
    BY <1>1, <1>9, <1>10
  <1>13. LoopFits(me)'
    <2>1. \A i \in 1 .. Len(batch) : 1 <= batch[i] /\ batch[i] <= Len(tgStream)
      BY <1>2, <1>6, <1>7, <1>8
    <2>2. \A i \in 1 .. Len(batch) - 1 : batch[i + 1] = batch[i] + 1
      BY <1>6, <1>7, <1>8
    <2>3. Len(batch) > 0 => batch[1] = first
      BY <1>6, <1>7, <1>8
    <2> QED BY <1>1, <1>6, <1>9, <1>11, <2>1, <2>2, <2>3 DEF LoopFits
  <1>14. loop' \in [Loops -> TgLoop] /\ \A m \in Loops : LoopFits(loop[m])'
    BY <1>9, <1>12, <1>13, LoopChanges
  <1> QED BY <1>4, <1>9, <1>14 DEF OffsetsFit

\* Handling an update: what was handled stays a beginning of the stream.
LEMMA HandleFits ==
  ASSUME OffsetsFit, NEW l \in Loops, HandleUpdate(l)
  PROVE  /\ OffsetsFit'
         /\ Head(loop[l].batch) \in DOMAIN tgStream /\ 1 .. Head(loop[l].batch) - 1 \subseteq handed
  <1>1. PICK x \in TgLoop : x = loop[l] /\ LoopFits(x) /\ x.offset \in Nat /\ x.batch \in Seq(Nat) /\ x.batch # <<>>
    BY DEF OffsetsFit, TgLoop, HandleUpdate
  <1>2. PICK p \in Nat : p = Head(loop[l].batch) /\ p = x.batch[1]
    <2>1. x.batch[1] \in Nat /\ Head(x.batch) = x.batch[1]
      BY <1>1
    <2> QED BY <1>1, <2>1
  <1>0. PICK rest \in Seq(Nat) : rest = Tail(x.batch)
    BY <1>1, HeadTailProperties
  <1>20. /\ Len(x.batch) \in Nat /\ Len(x.batch) > 0
        /\ Len(rest) = Len(x.batch) - 1
        /\ \A i \in 1 .. Len(x.batch) - 1 : rest[i] = x.batch[i + 1]
    BY <1>0, <1>1
  <1>3. PICK n \in Nat : n <= Len(tgStream) /\ handed = 1 .. n /\ Len(tgStream) \in Nat
    BY DEF OffsetsFit
  <1>4. 1 <= p /\ p <= Len(tgStream) /\ 1 .. p - 1 \subseteq handed
    <2>2. 1 \in 1 .. Len(x.batch)
      BY <1>20
    <2>3. 1 <= x.batch[1] /\ x.batch[1] <= Len(tgStream)
      BY <1>1, <2>2 DEF LoopFits
    <2> QED BY <1>1, <1>2, <1>20, <2>3 DEF LoopFits
  <1>5. p <= n + 1
    <2>1. CASE p - 1 > 0
      <3>1. p - 1 \in 1 .. p - 1
        BY <1>4, <2>1
      <3> QED BY <1>3, <1>4, <3>1
    <2> QED BY <1>3, <1>4, <2>1
  <1>6. handed' = handed \cup {p} /\ UNCHANGED <<tgStream, confirmed, lastOffset>>
    BY <1>2 DEF HandleUpdate, platform
  <1>7. PICK offset \in Nat : offset = IF p >= x.offset THEN p + 1 ELSE x.offset
    BY <1>1
  <1>8. 1 .. offset - 1 \subseteq handed'
    <2>1. CASE p >= x.offset
      BY <1>4, <1>6, <1>7, <2>1
    <2>2. CASE ~(p >= x.offset)
      BY <1>1, <1>6, <1>7, <2>2 DEF LoopFits
    <2> QED BY <2>1, <2>2
  <1>9. PICK me \in TgLoop : me = [x EXCEPT !.batch = rest, !.offset = offset]
    <2>1. [x EXCEPT !.batch = rest, !.offset = offset] \in TgLoop
      BY DEF TgLoop
    <2> QED BY <2>1
  <1>10. me.offset = offset /\ me.batch = rest
    BY <1>9 DEF TgLoop
  <1>21. loop' = [loop EXCEPT ![l] = me]
    <2>1. loop' = [loop EXCEPT ![l].batch = Tail(@), ![l].offset = IF p >= @ THEN p + 1 ELSE @]
      BY <1>2 DEF HandleUpdate
    <2> QED BY <1>0, <1>1, <1>7, <1>9, <2>1
  <1>11. LoopFits(me)'
    <2>1. \A i \in 1 .. Len(rest) : i + 1 \in 1 .. Len(x.batch) /\ rest[i] = x.batch[i + 1]
      BY <1>20
    <2>2. \A i \in 1 .. Len(rest) - 1 : i + 1 \in 1 .. Len(x.batch) - 1 /\ rest[i] = x.batch[i + 1] /\ rest[i + 1] = x.batch[(i + 1) + 1]
      BY <1>20
    <2>3. Len(rest) > 0 => rest[1] = p + 1
      <3>1. Len(rest) > 0 => 1 \in 1 .. Len(x.batch) - 1 /\ rest[1] = x.batch[1 + 1]
        BY <1>20
      <3> QED BY <1>1, <1>2, <3>1 DEF LoopFits
    <2>4. \A i \in 1 .. Len(rest) : 1 <= rest[i] /\ rest[i] <= Len(tgStream)
      BY <1>1, <2>1 DEF LoopFits
    <2>5. \A i \in 1 .. Len(rest) - 1 : rest[i + 1] = rest[i] + 1
      BY <1>1, <2>2 DEF LoopFits
    <2>6. 1 .. (p + 1) - 1 \subseteq handed'
      BY <1>4, <1>6
    <2>7. Len(rest) > 0 => 1 .. rest[1] - 1 \subseteq handed'
      BY <2>3, <2>6
    <2> QED BY <1>6, <1>8, <1>10, <2>4, <2>5, <2>7 DEF LoopFits
  <1>12. loop' \in [Loops -> TgLoop] /\ \A m \in Loops : LoopFits(loop[m])'
    BY <1>6, <1>11, <1>21, LoopChanges
  <1>13. \E m \in Nat : m <= Len(tgStream') /\ handed' = 1 .. m
    <2>1. CASE p <= n
      <3>1. handed' = 1 .. n
        BY <1>3, <1>4, <1>6, <2>1
      <3> QED BY <1>3, <1>6, <3>1
    <2>2. CASE p = n + 1
      <3>1. handed' = 1 .. p
        BY <1>3, <1>4, <1>6, <2>2
      <3> QED BY <1>4, <1>6, <3>1
    <2> QED BY <1>3, <1>4, <1>5, <2>1, <2>2
  <1>14. OffsetsFit'
    BY <1>6, <1>12, <1>13 DEF OffsetsFit
  <1>15. p \in DOMAIN tgStream
    BY <1>3, <1>4 DEF OffsetsFit
  <1> QED BY <1>2, <1>4, <1>14, <1>15

\* Every step keeps the offsets behind what was handled.
LEMMA OffsetsStep == OffsetsFit /\ [TelegramNext]_telegramVars => OffsetsFit'
  <1> SUFFICES ASSUME OffsetsFit, [TelegramNext]_telegramVars PROVE OffsetsFit'
    OBVIOUS
  <1>0. ASSUME UNCHANGED <<tgStream, confirmed, loop, lastOffset, handed>> PROVE OffsetsFit'
    BY <1>0 DEF OffsetsFit, LoopFits
  <1>1. CASE PlatformUpdate
    <2>1. PICK u \in TgUpdates : tgStream' = Append(tgStream, u) /\ UNCHANGED <<confirmed, loop, lastOffset, handed>>
      BY <1>1 DEF PlatformUpdate, polling
    <2>2. tgStream' \in Seq(TgUpdates) /\ Len(tgStream') = Len(tgStream) + 1 /\ Len(tgStream) \in Nat
      BY <2>1 DEF OffsetsFit
    <2>3. \E n \in Nat : n <= Len(tgStream') /\ handed' = 1 .. n
      <3>1. PICK n \in Nat : n <= Len(tgStream) /\ handed = 1 .. n
        BY DEF OffsetsFit
      <3> QED BY <2>1, <2>2, <3>1
    <2>4. ASSUME NEW l \in Loops PROVE LoopFits(loop[l])'
      <3>1. PICK x \in TgLoop : x = loop[l] /\ LoopFits(x)
        BY DEF OffsetsFit
      <3>2. Len(x.batch) \in Nat /\ \A i \in 1 .. Len(x.batch) : x.batch[i] \in Nat
        BY DEF TgLoop
      <3>3. LoopFits(x)'
        BY <2>1, <2>2, <3>1, <3>2 DEF LoopFits
      <3> QED BY <2>1, <3>1, <3>3
    <2> QED BY <2>1, <2>2, <2>3, <2>4 DEF OffsetsFit
  <1>2. CASE Connect \/ RetryTransport
    <2>1. UNCHANGED <<tgStream, confirmed, lastOffset, handed>> /\ (SpawnLoop(Cancelled(TRUE), lastOffset) \/ UNCHANGED loop)
      BY <1>2 DEF Connect, RetryTransport, platform
    <2> QED BY <1>0, <2>1, SpawnFits
  <1>3. CASE Replace
    <2>1. UNCHANGED <<tgStream, confirmed, lastOffset, handed>> /\ loop' = Cancelled(FALSE)
      BY <1>3 DEF Replace, platform
    <2>2. \A m \in Loops : loop'[m] \in TgLoop /\ LoopFits(loop'[m])
      BY <2>1, CancelledFits
    <2>3. loop' \in [Loops -> TgLoop]
      BY <2>1, <2>2 DEF Cancelled
    <2>4. \A m \in Loops : LoopFits(loop[m])'
      BY <2>1, <2>2 DEF LoopFits
    <2> QED BY <2>1, <2>3, <2>4 DEF OffsetsFit
  <1>4. CASE ExitAdapter
    <2>1. UNCHANGED <<tgStream, confirmed, handed>> /\ lastOffset' = 0 /\ loop' = [l \in Loops |-> Off]
      BY <1>4 DEF ExitAdapter, platform
    <2>2. loop' \in [Loops -> TgLoop] /\ \A m \in Loops : LoopFits(loop'[m])
      BY <2>1, OffIsLoop
    <2>3. \A m \in Loops : LoopFits(loop[m])'
      BY <2>1, <2>2 DEF LoopFits
    <2> QED BY <2>1, <2>2, <2>3 DEF OffsetsFit
  <1>5. ASSUME NEW l \in Loops, Leave(l) \/ PollFails(l) \/ PauseEnds(l) \/ EndBatch(l) PROVE OffsetsFit'
    <2>1. UNCHANGED <<tgStream, confirmed, handed>>
      BY <1>5 DEF Leave, PollFails, PauseEnds, EndBatch, platform
    <2>3. lastOffset' \in Nat /\ 1 .. lastOffset' - 1 \subseteq handed
      <3>1. lastOffset' = lastOffset \/ lastOffset' = loop[l].offset
        BY <1>5 DEF Leave, PollFails, PauseEnds, EndBatch
      <3>2. loop[l].offset \in Nat /\ 1 .. loop[l].offset - 1 \subseteq handed
        BY DEF OffsetsFit, LoopFits, TgLoop
      <3> QED BY <3>1, <3>2 DEF OffsetsFit
    <2>4. loop' \in [Loops -> TgLoop] /\ \A m \in Loops : LoopFits(loop[m])'
      <3>1. \/ loop' = [loop EXCEPT ![l] = Off]
            \/ \E at \in {"off", "poll", "handle", "pause"} : loop' = [loop EXCEPT ![l].at = at]
        BY <1>5 DEF Leave, PollFails, PauseEnds, EndBatch
      <3>2. CASE loop' = [loop EXCEPT ![l] = Off]
        <4>1. PICK off \in TgLoop : off = Off
          BY OffIsLoop
        <4>2. LoopFits(off)'
          BY <2>1, <4>1, OffIsLoop DEF LoopFits
        <4> QED BY <2>1, <3>2, <4>1, <4>2, LoopChanges
      <3> QED BY <2>1, <3>1, <3>2, LoopMoves
    <2> QED BY <2>1, <2>3, <2>4 DEF OffsetsFit
  <1>6. ASSUME NEW l \in Loops, PollReturns(l) PROVE OffsetsFit'
    BY <1>6, PollFits
  <1>7. ASSUME NEW l \in Loops, HandleUpdate(l) PROVE OffsetsFit'
    BY <1>7, HandleFits
  <1>8. ASSUME NEW p \in 1 .. MaxTgUpdates, TaskStep(p) PROVE OffsetsFit'
    BY <1>0, <1>8 DEF TaskStep, TaskRuns, ListReturns, OldTaskRuns, platform, polling
  <1>9. CASE UNCHANGED telegramVars
    BY <1>0, <1>9 DEF telegramVars
  <1> QED BY <1>1, <1>2, <1>3, <1>4, <1>5, <1>6, <1>7, <1>8, <1>9 DEF TelegramNext, LoopStep

TasksFit ==
  /\ tgTasks \in [DOMAIN tgTasks -> {"queued", "list", "old"}] /\ DOMAIN tgTasks \subseteq 1 .. MaxTgUpdates
  /\ groupAdmins \subseteq TgUsers /\ Len(tgStream) <= MaxTgUpdates /\ listSeen \in [1 .. MaxTgUpdates -> SUBSET TgUsers]
HandledAreKept ==
  \A p \in handed : tgStream[p].kind = "chat_member" \/ p \in tgPublished \cup DOMAIN tgTasks \cup tgLost

\* What a step can do to the tasks: the stream and what is handled stay.
LEMMA TasksStep ==
  ASSUME OffsetsFit, TasksFit, HandledAreKept, [TelegramNext]_telegramVars
  PROVE  TasksFit' /\ HandledAreKept'
  <1>0. ASSUME UNCHANGED <<tgStream, groupAdmins, tgTasks, listSeen, handed, tgPublished, tgLost>> PROVE TasksFit' /\ HandledAreKept'
    BY <1>0 DEF TasksFit, HandledAreKept
  <1>1. CASE PlatformUpdate
    <2>1. PICK u \in TgUpdates : tgStream' = Append(tgStream, u) /\ groupAdmins' \in {groupAdmins, groupAdmins \cup {u.user}, groupAdmins \ {u.user}}
      BY <1>1 DEF PlatformUpdate
    <2>4. groupAdmins' \subseteq TgUsers
      <3>1. u.user \in TgUsers
        BY DEF TgUpdates
      <3> QED BY <2>1, <3>1 DEF TasksFit
    <2>2. UNCHANGED <<tgTasks, listSeen, handed, tgPublished, tgLost>> /\ Len(tgStream) < MaxTgUpdates /\ MaxTgUpdates \in Nat
      BY <1>1, TelegramAssumption DEF PlatformUpdate, polling
    <2>3. Len(tgStream') <= MaxTgUpdates /\ \A p \in handed : tgStream'[p] = tgStream[p]
      BY <2>1, <2>2 DEF OffsetsFit
    <2> QED BY <2>2, <2>3, <2>4 DEF TasksFit, HandledAreKept
  <1>2. CASE Connect \/ RetryTransport
    BY <1>0, <1>2 DEF Connect, RetryTransport, platform, roles
  <1>3. CASE Replace
    <2>1. UNCHANGED <<tgStream, groupAdmins, handed, tgPublished, tgLost>> /\ tgTasks' = [p \in DOMAIN tgTasks |-> "old"]
          /\ listSeen' = [p \in 1 .. MaxTgUpdates |-> {}]
      BY <1>3 DEF Replace, platform
    <2> QED BY <2>1 DEF TasksFit, HandledAreKept
  <1>4. CASE ExitAdapter
    <2>1. UNCHANGED <<tgStream, groupAdmins, handed, tgPublished>> /\ tgTasks' = NoTasks /\ listSeen' = [p \in 1 .. MaxTgUpdates |-> {}]
          /\ tgLost' = tgLost \cup (DOMAIN tgTasks \ tgPublished)
      BY <1>4 DEF ExitAdapter, platform
    <2>2. NoTasks \in [DOMAIN NoTasks -> {"queued", "list", "old"}] /\ DOMAIN NoTasks = {}
      BY DEF NoTasks
    <2> QED BY <2>1, <2>2 DEF TasksFit, HandledAreKept
  <1>5. ASSUME NEW l \in Loops, Leave(l) \/ PollFails(l) \/ PauseEnds(l) \/ EndBatch(l) \/ PollReturns(l)
        PROVE  TasksFit' /\ HandledAreKept'
    BY <1>0, <1>5 DEF Leave, PollFails, PauseEnds, EndBatch, PollReturns, platform, roles
  <1>6. ASSUME NEW l \in Loops, HandleUpdate(l) PROVE TasksFit' /\ HandledAreKept'
    <2> DEFINE p == Head(loop[l].batch)
    <2>1. p \in DOMAIN tgStream /\ p \in 1 .. MaxTgUpdates /\ UNCHANGED <<tgStream, groupAdmins, listSeen, tgLost>> /\ handed' = handed \cup {p}
      <3>1. p \in DOMAIN tgStream
        BY <1>6, HandleFits
      <3>2. Len(tgStream) \in Nat /\ DOMAIN tgStream = 1 .. Len(tgStream) /\ Len(tgStream) <= MaxTgUpdates /\ MaxTgUpdates \in Nat
        BY TelegramAssumption DEF OffsetsFit, TasksFit
      <3>3. UNCHANGED <<tgStream, groupAdmins, listSeen, tgLost>> /\ handed' = handed \cup {p}
        BY <1>6 DEF HandleUpdate, platform
      <3> HIDE DEF p
      <3> QED BY <3>1, <3>2, <3>3
    <2>2. \/ tgPublished' = tgPublished \cup {p} /\ tgTasks' = tgTasks
          \/ tgStream[p].kind = "chat_member" /\ UNCHANGED <<tgPublished, tgTasks>>
          \/ /\ UNCHANGED tgPublished
             /\ tgTasks' = IF p \in DOMAIN tgTasks THEN tgTasks
                           ELSE [q \in DOMAIN tgTasks \cup {p} |->
                                   IF q # p THEN tgTasks[q] ELSE IF loop[l].own THEN "queued" ELSE "old"]
      BY <1>6 DEF HandleUpdate
    <2> HIDE DEF p
    <2>3. CASE UNCHANGED tgTasks
      BY <2>1, <2>2, <2>3 DEF TasksFit, HandledAreKept
    <2>4. CASE /\ tgTasks' = [q \in DOMAIN tgTasks \cup {p} |-> IF q # p THEN tgTasks[q] ELSE IF loop[l].own THEN "queued" ELSE "old"]
               /\ UNCHANGED tgPublished
      <3>1. DOMAIN tgTasks' = DOMAIN tgTasks \cup {p} /\ tgTasks' \in [DOMAIN tgTasks' -> {"queued", "list", "old"}]
        BY <2>4 DEF TasksFit
      <3>2. TasksFit'
        BY <2>1, <3>1 DEF TasksFit
      <3>3. HandledAreKept'
        BY <2>1, <2>4, <3>1 DEF HandledAreKept
      <3> QED BY <3>2, <3>3
    <2> QED BY <2>2, <2>3, <2>4
  <1>7. ASSUME NEW p \in 1 .. MaxTgUpdates, TaskStep(p) PROVE TasksFit' /\ HandledAreKept'
    <2>1. UNCHANGED <<tgStream, groupAdmins, handed, tgLost>>
      BY <1>7 DEF TaskStep, TaskRuns, ListReturns, OldTaskRuns, platform, polling
    <2>2. \/ Publish(p) /\ (UNCHANGED listSeen \/ listSeen' = [listSeen EXCEPT ![p] = {}])
          \/ p \in DOMAIN tgTasks /\ tgTasks' = [tgTasks EXCEPT ![p] = "list"] /\ UNCHANGED tgPublished /\ listSeen' = [listSeen EXCEPT ![p] = groupAdmins]
      BY <1>7 DEF TaskStep, TaskRuns, ListReturns, OldTaskRuns
    <2>3. CASE Publish(p) /\ (UNCHANGED listSeen \/ listSeen' = [listSeen EXCEPT ![p] = {}])
      <3>1. DOMAIN tgTasks' = DOMAIN tgTasks \ {p} /\ tgTasks' \in [DOMAIN tgTasks' -> {"queued", "list", "old"}]
            /\ tgPublished' = tgPublished \cup {p} /\ listSeen' \in [1 .. MaxTgUpdates -> SUBSET TgUsers]
        BY <2>3 DEF Publish, Done, TasksFit
      <3> QED BY <2>1, <3>1 DEF TasksFit, HandledAreKept
    <2>4. CASE p \in DOMAIN tgTasks /\ tgTasks' = [tgTasks EXCEPT ![p] = "list"] /\ UNCHANGED tgPublished /\ listSeen' = [listSeen EXCEPT ![p] = groupAdmins]
      <3>1. DOMAIN tgTasks' = DOMAIN tgTasks /\ tgTasks' \in [DOMAIN tgTasks' -> {"queued", "list", "old"}]
        BY <2>4 DEF TasksFit
      <3>2. groupAdmins \subseteq TgUsers
        BY DEF TasksFit
      <3>3. listSeen' \in [1 .. MaxTgUpdates -> SUBSET TgUsers]
        BY <2>4, <3>2 DEF TasksFit
      <3> QED BY <2>1, <2>4, <3>1, <3>3 DEF TasksFit, HandledAreKept
    <2> QED BY <2>2, <2>3, <2>4
  <1>8. CASE UNCHANGED telegramVars
    BY <1>0, <1>8 DEF telegramVars
  <1> QED BY <1>1, <1>2, <1>3, <1>4, <1>5, <1>6, <1>7, <1>8 DEF TelegramNext, LoopStep

\* The changes of a member's role, and those no loop has handled.
Changes(u) == {p \in DOMAIN tgStream : tgStream[p].kind = "chat_member" /\ tgStream[p].user = u}
Pending(u) == Changes(u) \ handed
RolesInOrder ==
  \A u \in TgUsers :
    /\ \A p \in Changes(u) : (\A q \in Changes(u) : q <= p) => (tgStream[p].admin <=> u \in groupAdmins)
    /\ \A p, q \in Changes(u) :
         p < q /\ (\A r \in Changes(u) : r <= p \/ q <= r) => (tgStream[p].admin <=> ~tgStream[q].admin)
CacheFollows ==
  ~overlapped /\ adminCache # NoList =>
    /\ adminCache \subseteq TgUsers
    /\ \A u \in TgUsers :
         /\ Pending(u) = {} => (u \in adminCache <=> u \in groupAdmins)
         /\ \A p \in Pending(u) : (\A q \in Pending(u) : p <= q) => (u \in adminCache <=> ~tgStream[p].admin)
ListsFollow ==
  ~overlapped => \A p \in DOMAIN tgTasks :
    tgTasks[p] = "list" => listSeen[p] = groupAdmins /\ \A u \in TgUsers : Pending(u) = {}
RolesFit == RolesInOrder /\ CacheFollows /\ ListsFollow

\* The platform appends an update.
LEMMA PlatformRoles ==
  ASSUME OffsetsFit, TasksFit, RolesFit, PlatformUpdate
  PROVE  RolesFit'
  <1>1. PICK x \in TgUpdates :
          /\ x.kind = "chat_member" => x.admin # (x.user \in groupAdmins)
          /\ tgStream' = Append(tgStream, x)
          /\ groupAdmins' = IF x.kind # "chat_member" THEN groupAdmins
                            ELSE IF x.admin THEN groupAdmins \cup {x.user} ELSE groupAdmins \ {x.user}
          /\ overlapped' = (overlapped \/ (x.kind = "chat_member" /\ "list" \in Range(tgTasks)))
    BY DEF PlatformUpdate
  <1>2. UNCHANGED <<handed, tgTasks, listSeen, adminCache>>
    BY DEF PlatformUpdate, polling
  <1>3. PICK n \in Nat : n = Len(tgStream) /\ DOMAIN tgStream = 1 .. n /\ handed \subseteq 1 .. n
    BY DEF OffsetsFit
  <1>4. DOMAIN tgStream' = 1 .. n + 1 /\ tgStream'[n + 1] = x /\ \A p \in 1 .. n : tgStream'[p] = tgStream[p]
    BY <1>1, <1>3 DEF OffsetsFit
  <1>5. x.admin \in BOOLEAN /\ x.user \in TgUsers
    BY DEF TgUpdates
  <1>6. ~overlapped' => ~overlapped /\ (x.kind = "chat_member" => "list" \notin Range(tgTasks))
    BY <1>1, Zenon
  <1>7. \A u \in TgUsers : Changes(u) \subseteq 1 .. n /\ Pending(u) \subseteq 1 .. n
    BY <1>3 DEF Changes, Pending
  <1>8. CASE x.kind # "chat_member"
    <2>1. \A u : Changes(u)' = Changes(u)
      BY <1>3, <1>4, <1>8 DEF Changes
    <2>2. \A u : Pending(u)' = Pending(u)
      BY <1>2, <2>1 DEF Pending
    <2>3. groupAdmins' = groupAdmins
      BY <1>1, <1>8
    <2>4. RolesInOrder'
      BY <1>4, <1>7, <2>1, <2>3 DEF RolesInOrder, RolesFit
    <2>5. CacheFollows'
      BY <1>2, <1>4, <1>6, <1>7, <2>2, <2>3 DEF CacheFollows, RolesFit
    <2>6. ListsFollow'
      BY <1>2, <1>6, <2>2, <2>3 DEF ListsFollow, RolesFit
    <2> QED BY <2>4, <2>5, <2>6 DEF RolesFit
  <1>9. CASE x.kind = "chat_member"
    <2> DEFINE v == x.user
    <2>1. Changes(v)' = Changes(v) \cup {n + 1} /\ \A u : u # v => Changes(u)' = Changes(u)
      BY <1>3, <1>4, <1>9 DEF Changes
    <2>2. Pending(v)' = Pending(v) \cup {n + 1} /\ \A u : u # v => Pending(u)' = Pending(u)
      BY <1>2, <1>3, <2>1 DEF Pending
    <2>3. /\ v \in groupAdmins' <=> x.admin
          /\ \A u : u # v => (u \in groupAdmins' <=> u \in groupAdmins)
          /\ x.admin <=> ~(v \in groupAdmins)
      BY <1>1, <1>5, <1>9
    <2>4. v \in TgUsers
      BY <1>5
    <2> HIDE DEF v
    <2>5. ASSUME NEW u \in TgUsers
          PROVE  /\ \A p \in Changes(u)' : (\A q \in Changes(u)' : q <= p) => (tgStream'[p].admin <=> u \in groupAdmins')
                 /\ \A p, q \in Changes(u)' :
                      p < q /\ (\A r \in Changes(u)' : r <= p \/ q <= r) => (tgStream'[p].admin <=> ~tgStream'[q].admin)
      <3>1. CASE u # v
        BY <1>4, <1>7, <2>1, <2>3, <3>1 DEF RolesFit, RolesInOrder
      <3>2. CASE u = v
        <4>1. \A p \in Changes(v)' : (\A q \in Changes(v)' : q <= p) => p = n + 1
          BY <1>7, <2>1, <2>4
        <4>2. \A p, q \in Changes(v) : p < q /\ (\A r \in Changes(v) : r <= p \/ q <= r) => (tgStream[p].admin <=> ~tgStream[q].admin)
          BY <2>4 DEF RolesFit, RolesInOrder
        <4>3. \A p \in Changes(v) : (\A r \in Changes(v) : r <= p) => (tgStream[p].admin <=> ~x.admin)
          BY <2>3, <2>4 DEF RolesFit, RolesInOrder
        <4>4. ASSUME NEW p \in Changes(v)', NEW q \in Changes(v)', p < q, \A r \in Changes(v)' : r <= p \/ q <= r
              PROVE  tgStream'[p].admin <=> ~tgStream'[q].admin
          <5>1. p \in Changes(v) /\ p \in 1 .. n
            BY <1>7, <2>1, <2>4, <4>4
          <5>2. CASE q = n + 1
            <6>1. \A r \in Changes(v) : r <= p
              BY <1>7, <2>1, <2>4, <4>4, <5>2
            <6> QED BY <1>4, <4>3, <5>1, <5>2, <6>1
          <5>3. CASE q \in Changes(v)
            <6>1. tgStream[p].admin <=> ~tgStream[q].admin
              BY <2>1, <4>2, <4>4, <5>1, <5>3
            <6>2. q \in 1 .. n
              BY <1>7, <2>4, <5>3
            <6> QED BY <1>4, <5>1, <6>1, <6>2
          <5> QED BY <2>1, <5>2, <5>3
        <4>5. \A p \in Changes(v)' : (\A q \in Changes(v)' : q <= p) => (tgStream'[p].admin <=> v \in groupAdmins')
          BY <1>4, <2>3, <4>1
        <4> QED BY <3>2, <4>4, <4>5
      <3> QED BY <3>1, <3>2
    <2>6. RolesInOrder'
      BY <2>5 DEF RolesInOrder
    <2>7. ASSUME ~overlapped', adminCache' # NoList
          PROVE  /\ adminCache' \subseteq TgUsers
                 /\ \A u \in TgUsers :
                      /\ Pending(u)' = {} => (u \in adminCache' <=> u \in groupAdmins')
                      /\ \A p \in Pending(u)' : (\A q \in Pending(u)' : p <= q) => (u \in adminCache' <=> ~tgStream'[p].admin)
      <3>1. ~overlapped /\ adminCache # NoList /\ adminCache' = adminCache
        BY <1>2, <1>6, <2>7
      <3>2. adminCache \subseteq TgUsers /\ \A u \in TgUsers :
              /\ Pending(u) = {} => (u \in adminCache <=> u \in groupAdmins)
              /\ \A p \in Pending(u) : (\A q \in Pending(u) : p <= q) => (u \in adminCache <=> ~tgStream[p].admin)
        BY <3>1 DEF RolesFit, CacheFollows
      <3>3. ASSUME NEW u \in TgUsers, u # v
            PROVE  /\ Pending(u)' = {} => (u \in adminCache' <=> u \in groupAdmins')
                   /\ \A p \in Pending(u)' : (\A q \in Pending(u)' : p <= q) => (u \in adminCache' <=> ~tgStream'[p].admin)
        BY <1>4, <1>7, <2>2, <2>3, <3>1, <3>2, <3>3
      <3>4. ASSUME NEW p \in Pending(v)', \A q \in Pending(v)' : p <= q
            PROVE  v \in adminCache' <=> ~tgStream'[p].admin
        <4>1. CASE p = n + 1
          <5>1. Pending(v) = {}
            BY <1>7, <2>2, <2>4, <3>4, <4>1
          <5>2. v \in adminCache <=> v \in groupAdmins
            BY <2>4, <3>2, <5>1
          <5> QED BY <1>4, <2>3, <3>1, <4>1, <5>2
        <4>2. CASE p \in Pending(v)
          <5>1. v \in adminCache <=> ~tgStream[p].admin
            BY <2>2, <2>4, <3>2, <3>4, <4>2
          <5>2. tgStream'[p] = tgStream[p]
            BY <1>4, <1>7, <2>4, <4>2
          <5> QED BY <3>1, <5>1, <5>2
        <4> QED BY <2>2, <4>1, <4>2
      <3>5. Pending(v)' # {}
        BY <2>2
      <3> QED BY <3>1, <3>2, <3>3, <3>4, <3>5
    <2>8. CacheFollows'
      BY <2>7 DEF CacheFollows
    <2>9. ListsFollow'
      <3>1. ~overlapped' => \A p \in DOMAIN tgTasks : tgTasks[p] # "list"
        BY <1>6, <1>9 DEF Range
      <3> QED BY <1>2, <3>1 DEF ListsFollow
    <2> QED BY <2>6, <2>8, <2>9 DEF RolesFit
  <1> QED BY <1>8, <1>9

\* A loop handles an update of the stream.
LEMMA HandleRoles ==
  ASSUME OffsetsFit, TasksFit, RolesFit, NEW l \in Loops, HandleUpdate(l)
  PROVE  RolesFit'
  <1>1. PICK n \in Nat : n = Len(tgStream) /\ DOMAIN tgStream = 1 .. n
    BY DEF OffsetsFit
  <1>2. PICK h \in Nat : handed = 1 .. h
    BY DEF OffsetsFit
  <1>3. PICK p \in 1 .. n : p = Head(loop[l].batch) /\ 1 .. p - 1 \subseteq handed
    BY <1>1, HandleFits
  <1>4. PICK x \in TgUpdates : x = tgStream[p]
    BY <1>1 DEF OffsetsFit
  <1>5. UNCHANGED <<tgStream, groupAdmins, listSeen>> /\ handed' = handed \cup {p}
    BY <1>3 DEF HandleUpdate, platform
  <1>6. h < p \/ p \in handed
    BY <1>2, <1>3
  <1>7. \A u : Changes(u)' = Changes(u) /\ Changes(u) \subseteq 1 .. n /\ Pending(u)' = Pending(u) \ {p}
    BY <1>1, <1>5 DEF Changes, Pending
  <1>8. RolesInOrder'
    <2>1. UNCHANGED <<tgStream, groupAdmins>>
      BY <1>5
    <2> QED BY <1>7, <2>1 DEF RolesInOrder, RolesFit
  <1>9. (\A q \in DOMAIN tgTasks' : tgTasks'[q] = "list" => q \in DOMAIN tgTasks /\ tgTasks[q] = "list")
    <2>1. \/ tgTasks' = tgTasks
          \/ tgTasks' = [q \in DOMAIN tgTasks \cup {p} |->
                           IF q # p THEN tgTasks[q] ELSE IF loop[l].own THEN "queued" ELSE "old"]
      <3>1. CASE tgStream[p].kind = "callback"
        BY <1>3, <3>1 DEF HandleUpdate
      <3>2. CASE tgStream[p].kind = "chat_member"
        BY <1>3, <3>2 DEF HandleUpdate
      <3>3. CASE tgStream[p].kind # "callback" /\ tgStream[p].kind # "chat_member"
        BY <1>3, <3>3 DEF HandleUpdate
      <3> QED BY <3>1, <3>2, <3>3
    <2> QED BY <2>1
  <1>10. (~overlapped' => ~overlapped) => ListsFollow'
    BY <1>5, <1>7, <1>9 DEF ListsFollow, RolesFit
  <1>11. CASE x.kind # "chat_member"
    <2>1. UNCHANGED <<adminCache, overlapped>>
      BY <1>3, <1>4, <1>11 DEF HandleUpdate
    <2>2. \A u : Pending(u)' = Pending(u)
      BY <1>4, <1>7, <1>11 DEF Changes, Pending
    <2>3. CacheFollows'
      BY <1>5, <2>1, <2>2 DEF CacheFollows, RolesFit
    <2> QED BY <1>8, <1>10, <2>1, <2>3 DEF RolesFit
  <1>12. CASE x.kind = "chat_member"
    <2>1. /\ adminCache' = IF loop[l].own THEN ChangeRole(x) ELSE adminCache
          /\ overlapped' = (overlapped \/ p \in handed \/ ~loop[l].own \/ (adminCache = NoList /\ x.admin))
      BY <1>3, <1>4, <1>12 DEF HandleUpdate
    <2>2. ~overlapped' => ~overlapped /\ p \notin handed /\ loop[l].own /\ (adminCache = NoList => ~x.admin)
      BY <2>1, Zenon
    <2>3. PICK v \in TgUsers : v = x.user /\ x.admin \in BOOLEAN
      BY DEF TgUpdates
    <2>4. ASSUME ~overlapped', adminCache' # NoList
          PROVE  /\ adminCache' \subseteq TgUsers
                 /\ \A u \in TgUsers :
                      /\ Pending(u)' = {} => (u \in adminCache' <=> u \in groupAdmins')
                      /\ \A q \in Pending(u)' : (\A r \in Pending(u)' : q <= r) => (u \in adminCache' <=> ~tgStream'[q].admin)
      <3>1. ~overlapped /\ p \notin handed /\ loop[l].own
        BY <2>2, <2>4
      <3>2. adminCache # NoList /\ adminCache' = IF x.admin THEN adminCache \cup {v} ELSE adminCache \ {v}
        BY <2>1, <2>2, <2>3, <2>4, <3>1 DEF ChangeRole
      <3>3. adminCache \subseteq TgUsers /\ \A u \in TgUsers :
              /\ Pending(u) = {} => (u \in adminCache <=> u \in groupAdmins)
              /\ \A q \in Pending(u) : (\A r \in Pending(u) : q <= r) => (u \in adminCache <=> ~tgStream[q].admin)
        BY <3>1, <3>2 DEF RolesFit, CacheFollows
      <3>4. p \in Pending(v) /\ p \in Changes(v) /\ \A u : u # v => p \notin Pending(u)
        BY <1>1, <1>3, <1>4, <1>12, <2>3, <3>1 DEF Pending, Changes
      <3>5. v \in adminCache' <=> tgStream[p].admin
        BY <1>4, <3>2
      <3>6. \A u : u # v => (u \in adminCache' <=> u \in adminCache)
        BY <3>2
      <3>7. adminCache' \subseteq TgUsers
        BY <3>2, <3>3
      <3>8. ASSUME NEW u \in TgUsers, u # v
            PROVE  /\ Pending(u)' = {} => (u \in adminCache' <=> u \in groupAdmins')
                   /\ \A q \in Pending(u)' : (\A r \in Pending(u)' : q <= r) => (u \in adminCache' <=> ~tgStream'[q].admin)
        <4>1. Pending(u)' = Pending(u)
          BY <1>7, <3>4, <3>8
        <4> QED BY <1>5, <3>3, <3>6, <3>8, <4>1
      <3>9. \A q \in Changes(v) : q > p => q \in Pending(v)'
        BY <1>2, <1>3, <1>7, <3>1, <3>4 DEF Pending
      <3>10. ASSUME Pending(v)' = {}
             PROVE  v \in adminCache' <=> v \in groupAdmins'
        <4>1. \A q \in Changes(v) : q <= p
          BY <1>3, <1>7, <3>9, <3>10
        <4> QED BY <1>5, <3>4, <3>5, <4>1 DEF RolesFit, RolesInOrder
      <3>11. ASSUME NEW q \in Pending(v)', \A r \in Pending(v)' : q <= r
             PROVE  v \in adminCache' <=> ~tgStream'[q].admin
        <4>1. q \in Changes(v) /\ q \notin handed /\ q # p
          BY <1>7 DEF Pending
        <4>2. p < q
          BY <1>2, <1>3, <1>6, <1>7, <3>1, <4>1
        <4>3. \A r \in Changes(v) : r <= p \/ q <= r
          BY <1>3, <1>7, <3>9, <3>11
        <4>4. tgStream[p].admin <=> ~tgStream[q].admin
          BY <3>4, <4>1, <4>2, <4>3 DEF RolesFit, RolesInOrder
        <4> QED BY <1>5, <3>5, <4>4
      <3> QED BY <3>7, <3>8, <3>10, <3>11
    <2>5. CacheFollows'
      BY <2>4 DEF CacheFollows
    <2> QED BY <1>8, <1>10, <2>2, <2>5 DEF RolesFit
  <1> QED BY <1>11, <1>12

\* Every step keeps the cached list in step with the changes of role.
LEMMA RolesStep ==
  ASSUME OffsetsFit, TasksFit, RolesFit, [TelegramNext]_telegramVars
  PROVE  RolesFit'
  <1>0. ASSUME UNCHANGED <<tgStream, groupAdmins, handed>>,
               ~overlapped' => ~overlapped,
               adminCache' # NoList => adminCache' = adminCache,
               \A p \in DOMAIN tgTasks' : tgTasks'[p] = "list" =>
                 p \in DOMAIN tgTasks /\ tgTasks[p] = "list" /\ listSeen'[p] = listSeen[p]
        PROVE  RolesFit'
    <2>1. \A u : Changes(u)' = Changes(u) /\ Pending(u)' = Pending(u)
      BY <1>0 DEF Changes, Pending
    <2>2. RolesInOrder'
      BY <1>0, <2>1 DEF RolesInOrder, RolesFit
    <2>3. CacheFollows'
      BY <1>0, <2>1 DEF CacheFollows, RolesFit
    <2>4. ListsFollow'
      BY <1>0, <2>1 DEF ListsFollow, RolesFit
    <2> QED BY <2>2, <2>3, <2>4 DEF RolesFit
  <1>1. CASE PlatformUpdate
    BY <1>1, PlatformRoles
  <1>2. ASSUME UNCHANGED <<tgStream, groupAdmins, handed, tgTasks, listSeen, adminCache, overlapped>> PROVE RolesFit'
    BY <1>0, <1>2
  <1>3. CASE Connect \/ RetryTransport
    BY <1>2, <1>3 DEF Connect, RetryTransport, platform, roles
  <1>4. CASE Replace \/ ExitAdapter
    <2>1. UNCHANGED <<tgStream, groupAdmins, handed>> /\ adminCache' = NoList
      BY <1>4 DEF Replace, ExitAdapter, platform
    <2>2. tgTasks' = [p \in DOMAIN tgTasks |-> "old"] \/ tgTasks' = NoTasks
      BY <1>4 DEF Replace, ExitAdapter
    <2>3. \A p \in DOMAIN tgTasks' : tgTasks'[p] # "list"
      BY <2>2 DEF NoTasks
    <2>4. \A u : Changes(u)' = Changes(u) /\ Pending(u)' = Pending(u)
      BY <2>1 DEF Changes, Pending
    <2>5. RolesInOrder'
      BY <2>1, <2>4 DEF RolesInOrder, RolesFit
    <2> QED BY <2>1, <2>3, <2>5 DEF RolesFit, CacheFollows, ListsFollow
  <1>5. ASSUME NEW l \in Loops, Leave(l) \/ PollFails(l) \/ PauseEnds(l) \/ EndBatch(l) \/ PollReturns(l) PROVE RolesFit'
    BY <1>2, <1>5 DEF Leave, PollFails, PauseEnds, EndBatch, PollReturns, platform, roles
  <1>6. ASSUME NEW l \in Loops, HandleUpdate(l) PROVE RolesFit'
    BY <1>6, HandleRoles
  <1>7. ASSUME NEW p \in 1 .. MaxTgUpdates, TaskStep(p) PROVE RolesFit'
    <2>1. UNCHANGED <<tgStream, groupAdmins, handed>>
      BY <1>7 DEF TaskStep, TaskRuns, ListReturns, OldTaskRuns, platform, polling
    <2>2. CASE Publish(p) /\ UNCHANGED <<listSeen, adminCache, overlapped>>
      <3>1. \A q \in DOMAIN tgTasks' : q \in DOMAIN tgTasks /\ tgTasks'[q] = tgTasks[q]
        BY <2>2 DEF Publish, Done
      <3> QED BY <1>0, <2>1, <2>2, <3>1
    <2>3. CASE TaskRuns(p) /\ tgTasks' = [tgTasks EXCEPT ![p] = "list"]
               /\ listSeen' = [listSeen EXCEPT ![p] = groupAdmins]
               /\ overlapped' = (overlapped \/ \E q \in DOMAIN tgStream \ handed : tgStream[q].kind = "chat_member")
      <3>1. adminCache' = adminCache
        BY <2>3 DEF TaskRuns
      <3>2. ~overlapped' => ~overlapped /\ ~ \E q \in DOMAIN tgStream \ handed : tgStream[q].kind = "chat_member"
        BY <2>3, Zenon
      <3>3. ~overlapped' => \A u : Pending(u) = {}
        BY <3>2 DEF Pending, Changes
      <3>4. \A u : Changes(u)' = Changes(u) /\ Pending(u)' = Pending(u)
        BY <2>1 DEF Changes, Pending
      <3>5. RolesInOrder'
        BY <2>1, <3>4 DEF RolesInOrder, RolesFit
      <3>6. CacheFollows'
        BY <2>1, <3>1, <3>2, <3>4 DEF CacheFollows, RolesFit
      <3>7. \A q \in DOMAIN tgTasks' : tgTasks'[q] = "list" =>
              q \in DOMAIN tgTasks /\ (listSeen'[q] = groupAdmins \/ (tgTasks[q] = "list" /\ listSeen'[q] = listSeen[q]))
        BY <2>3 DEF TasksFit
      <3>8. ListsFollow'
        BY <2>1, <3>2, <3>3, <3>4, <3>7 DEF ListsFollow, RolesFit
      <3> QED BY <3>5, <3>6, <3>8 DEF RolesFit
    <2>4. CASE ListReturns(p)
      <3>1. /\ p \in DOMAIN tgTasks /\ tgTasks[p] = "list" /\ overlapped' = overlapped
            /\ adminCache' = listSeen[p] \/ adminCache' = adminCache
        BY <2>4 DEF ListReturns
      <3>2. \A q \in DOMAIN tgTasks' : q \in DOMAIN tgTasks /\ tgTasks'[q] = tgTasks[q] /\ listSeen'[q] = listSeen[q]
        BY <2>4 DEF ListReturns, Publish, Done, TasksFit
      <3>3. CASE adminCache' = adminCache
        BY <1>0, <2>1, <3>1, <3>2, <3>3
      <3>4. CASE adminCache' = listSeen[p]
        <4>1. \A u : Changes(u)' = Changes(u) /\ Pending(u)' = Pending(u)
          BY <2>1 DEF Changes, Pending
        <4>2. RolesInOrder'
          BY <2>1, <4>1 DEF RolesInOrder, RolesFit
        <4>3. ListsFollow'
          BY <2>1, <3>1, <3>2, <4>1 DEF ListsFollow, RolesFit
        <4>4. ~overlapped => adminCache' = groupAdmins /\ \A u \in TgUsers : Pending(u) = {}
          BY <3>1, <3>4 DEF ListsFollow, RolesFit
        <4>5. CacheFollows'
          BY <2>1, <3>1, <4>1, <4>4 DEF CacheFollows, TasksFit
        <4> QED BY <4>2, <4>3, <4>5 DEF RolesFit
      <3> QED BY <3>1, <3>3, <3>4
    <2>5. CASE OldTaskRuns(p)
      BY <2>2, <2>5 DEF OldTaskRuns
    <2>6. CASE TaskRuns(p)
      BY <2>2, <2>3, <2>6 DEF TaskRuns
    <2> QED BY <1>7, <2>4, <2>5, <2>6 DEF TaskStep
  <1>8. CASE UNCHANGED telegramVars
    BY <1>2, <1>8 DEF telegramVars
  <1> QED BY <1>1, <1>3, <1>4, <1>5, <1>6, <1>7, <1>8 DEF TelegramNext, LoopStep

TelegramInv == OffsetsFit /\ TasksFit /\ HandledAreKept /\ RolesFit

\* A stream with no update and an empty cache.
LEMMA TelegramStarts == TelegramInit => TelegramInv
  <1> SUFFICES ASSUME TelegramInit PROVE TelegramInv
    OBVIOUS
  <1>1. tgStream = <<>> /\ Len(tgStream) = 0 /\ DOMAIN tgStream = {} /\ tgStream \in Seq(TgUpdates)
    BY DEF TelegramInit
  <1>2. handed = 1 .. 0
    BY DEF TelegramInit
  <1>3. confirmed = 0 /\ lastOffset = 0 /\ loop = [l \in Loops |-> Off] /\ tgTasks = NoTasks /\ adminCache = NoList
    BY DEF TelegramInit
  <1>4. \A l \in Loops : loop[l] \in TgLoop /\ LoopFits(loop[l])
    BY <1>3, OffIsLoop
  <1>5. loop \in [Loops -> TgLoop]
    BY <1>3, OffIsLoop
  <1>6. OffsetsFit
    BY <1>1, <1>2, <1>3, <1>4, <1>5 DEF OffsetsFit
  <1>7. NoTasks \in [DOMAIN NoTasks -> {"queued", "list", "old"}] /\ DOMAIN NoTasks = {}
    BY DEF NoTasks
  <1>8. TasksFit
    BY <1>1, <1>3, <1>7, TelegramAssumption DEF TasksFit, TelegramInit
  <1>9. HandledAreKept
    BY <1>2 DEF HandledAreKept
  <1>10. RolesFit
    BY <1>1, <1>3, <1>7 DEF RolesFit, RolesInOrder, CacheFollows, ListsFollow, Changes
  <1> QED BY <1>6, <1>8, <1>9, <1>10 DEF TelegramInv

\* Every step of the loops, of the tasks and of the platform keeps the invariant of the long poll.
LEMMA TelegramInvStep == TelegramInv /\ [TelegramNext]_telegramVars => TelegramInv'
  BY OffsetsStep, TasksStep, RolesStep DEF TelegramInv

\* What the invariant is for.
LEMMA TelegramServes == TelegramInv => UpdatesTakeEffect
  <1> SUFFICES ASSUME TelegramInv PROVE UpdatesTakeEffect
    OBVIOUS
  <1>1. ForgottenWereHandled
    BY DEF TelegramInv, OffsetsFit, HandledAreKept, ForgottenWereHandled
  <1>2. CachedAdminsAgree
    <2> SUFFICES ASSUME ~overlapped, adminCache # NoList, DOMAIN tgStream = handed PROVE adminCache = groupAdmins
      BY DEF CachedAdminsAgree
    <2>1. \A u \in TgUsers : Pending(u) = {}
      BY DEF Pending, Changes
    <2> QED BY <2>1 DEF TelegramInv, RolesFit, CacheFollows, TasksFit
  <1> QED BY <1>1, <1>2 DEF UpdatesTakeEffect

\* The platform forgets no update that was not handled, whichever loops run, overlap or
\* are replaced, and a cached list of administrators is the platform's once every change
\* of role was handled (adapter-telegram): UpdatesTakeEffect for every number of
\* updates, starts and exits.
THEOREM UpdatesReachTheCache == TelegramSpec => []UpdatesTakeEffect
  BY TelegramStarts, TelegramInvStep, TelegramServes, PTL DEF TelegramSpec

\* What is cached and published, and the bounds.
CacheFits == adminCache = NoList \/ adminCache \subseteq TgUsers
PublishedFit == tgPublished \subseteq 1 .. MaxTgUpdates /\ tgLost \subseteq 1 .. MaxTgUpdates
TgCounted == tgFaults \in 0 .. MaxTgFaults /\ tgStarts \in 0 .. MaxTgStarts /\ tgExits \in 0 .. MaxTgExits
TgFlags == overlapped \in BOOLEAN /\ tgUp \in BOOLEAN /\ authFailed \in BOOLEAN

\* The update at the head of a batch is one the platform has.
LEMMA HeadOfBatch ==
  ASSUME OffsetsFit, TasksFit, NEW l \in Loops, loop[l].batch # <<>>
  PROVE  /\ Head(loop[l].batch) \in 1 .. MaxTgUpdates
         /\ tgStream[Head(loop[l].batch)] \in TgUpdates /\ tgStream[Head(loop[l].batch)].user \in TgUsers
  <1>1. loop[l] \in TgLoop /\ LoopFits(loop[l])
    BY DEF OffsetsFit
  <1>2. loop[l].batch \in Seq(Nat)
    BY <1>1 DEF TgLoop
  <1> DEFINE b == loop[l].batch
  <1>3. Len(b) \in Nat \ {0} /\ Head(b) = b[1] /\ b[1] \in Nat
    BY <1>2
  <1>4. 1 <= b[1] /\ b[1] <= Len(tgStream)
    BY <1>1, <1>3 DEF LoopFits
  <1>5. Len(tgStream) \in Nat /\ Len(tgStream) <= MaxTgUpdates /\ MaxTgUpdates \in Nat
    BY TelegramAssumption DEF OffsetsFit, TasksFit
  <1>6. tgStream[b[1]] \in TgUpdates
    BY <1>3, <1>4, <1>5 DEF OffsetsFit
  <1>7. tgStream[b[1]].user \in TgUsers
    BY <1>6 DEF TgUpdates
  <1> QED BY <1>3, <1>4, <1>5, <1>6, <1>7

\* The cached list names members of the group.
LEMMA CacheStep ==
  ASSUME OffsetsFit, TasksFit, CacheFits, [TelegramNext]_telegramVars
  PROVE  CacheFits'
  <1> USE DEF CacheFits
  <1>1. CASE PlatformUpdate \/ Connect \/ RetryTransport \/ Replace \/ ExitAdapter \/ UNCHANGED telegramVars
    BY <1>1 DEF PlatformUpdate, Connect, RetryTransport, Replace, ExitAdapter, roles, telegramVars
  <1>2. ASSUME NEW l \in Loops, LoopStep(l) \/ PollFails(l) PROVE CacheFits'
    <2>1. CASE HandleUpdate(l)
      <3>1. \/ UNCHANGED adminCache
            \/ adminCache' = ChangeRole(tgStream[Head(loop[l].batch)])
        BY <2>1 DEF HandleUpdate
      <3>2. tgStream[Head(loop[l].batch)].user \in TgUsers
        BY <2>1, HeadOfBatch DEF HandleUpdate
      <3> QED BY <3>1, <3>2 DEF ChangeRole
    <2>2. CASE PollReturns(l) \/ PauseEnds(l) \/ EndBatch(l) \/ Leave(l) \/ PollFails(l)
      BY <2>2 DEF PollReturns, PauseEnds, EndBatch, Leave, PollFails, roles
    <2> QED BY <1>2, <2>1, <2>2 DEF LoopStep
  <1>3. ASSUME NEW p \in 1 .. MaxTgUpdates, TaskStep(p) PROVE CacheFits'
    <2>1. adminCache' = adminCache \/ adminCache' = listSeen[p]
      BY <1>3 DEF TaskStep, TaskRuns, ListReturns, OldTaskRuns
    <2>2. listSeen[p] \subseteq TgUsers
      BY DEF TasksFit
    <2> QED BY <2>1, <2>2
  <1> QED BY <1>1, <1>2, <1>3 DEF TelegramNext

\* Only updates of the platform are published, or lost.
LEMMA PublishedStep ==
  ASSUME OffsetsFit, TasksFit, PublishedFit, [TelegramNext]_telegramVars
  PROVE  PublishedFit'
  <1> USE DEF PublishedFit
  <1>1. CASE PlatformUpdate \/ Connect \/ RetryTransport \/ Replace \/ UNCHANGED telegramVars
    BY <1>1 DEF PlatformUpdate, Connect, RetryTransport, Replace, roles, polling, telegramVars
  <1>2. CASE ExitAdapter
    BY <1>2 DEF ExitAdapter, TasksFit
  <1>3. ASSUME NEW l \in Loops, LoopStep(l) \/ PollFails(l) PROVE PublishedFit'
    <2>1. CASE HandleUpdate(l)
      <3>1. tgPublished' \in {tgPublished, tgPublished \cup {Head(loop[l].batch)}} /\ UNCHANGED tgLost
        BY <2>1 DEF HandleUpdate
      <3>2. Head(loop[l].batch) \in 1 .. MaxTgUpdates
        BY <2>1, HeadOfBatch DEF HandleUpdate
      <3> QED BY <3>1, <3>2
    <2>2. CASE PollReturns(l) \/ PauseEnds(l) \/ EndBatch(l) \/ Leave(l) \/ PollFails(l)
      BY <2>2 DEF PollReturns, PauseEnds, EndBatch, Leave, PollFails, roles
    <2> QED BY <1>3, <2>1, <2>2 DEF LoopStep
  <1>4. ASSUME NEW p \in 1 .. MaxTgUpdates, TaskStep(p) PROVE PublishedFit'
    BY <1>4 DEF TaskStep, TaskRuns, ListReturns, OldTaskRuns, Publish, polling
  <1> QED BY <1>1, <1>2, <1>3, <1>4 DEF TelegramNext

\* Failures, starts and exits stay within their bounds.
LEMMA TgCountedStep == TgCounted /\ [TelegramNext]_telegramVars => TgCounted'
  <1> SUFFICES ASSUME TgCounted, [TelegramNext]_telegramVars PROVE TgCounted'
    OBVIOUS
  <1>1. /\ tgFaults' = tgFaults \/ (tgFaults < MaxTgFaults /\ tgFaults' = tgFaults + 1)
        /\ tgStarts' = tgStarts \/ (tgStarts < MaxTgStarts /\ tgStarts' = tgStarts + 1)
        /\ tgExits' = tgExits \/ (tgExits < MaxTgExits /\ tgExits' = tgExits + 1)
    <2>1. CASE PlatformUpdate \/ Connect \/ RetryTransport \/ Replace \/ ExitAdapter \/ UNCHANGED telegramVars
      BY <2>1 DEF PlatformUpdate, Connect, RetryTransport, Replace, ExitAdapter, Fault, tgBounds, telegramVars
    <2>2. ASSUME NEW l \in Loops, LoopStep(l) \/ PollFails(l)
          PROVE  /\ tgFaults' = tgFaults \/ (tgFaults < MaxTgFaults /\ tgFaults' = tgFaults + 1)
                 /\ tgStarts' = tgStarts /\ tgExits' = tgExits
      BY <2>2 DEF LoopStep, PollReturns, PauseEnds, HandleUpdate, EndBatch, Leave, PollFails, Fault, tgBounds
    <2>3. ASSUME NEW p \in 1 .. MaxTgUpdates, TaskStep(p)
          PROVE  /\ tgFaults' = tgFaults \/ (tgFaults < MaxTgFaults /\ tgFaults' = tgFaults + 1)
                 /\ tgStarts' = tgStarts /\ tgExits' = tgExits
      BY <2>3 DEF TaskStep, TaskRuns, ListReturns, OldTaskRuns, Fault, tgBounds
    <2> QED BY <2>1, <2>2, <2>3 DEF TelegramNext
  <1> QED BY <1>1, TelegramAssumption DEF TgCounted

\* The three flags are flags.
LEMMA TgFlagsStep == TgFlags /\ [TelegramNext]_telegramVars => TgFlags'
  <1> SUFFICES ASSUME TgFlags, [TelegramNext]_telegramVars PROVE TgFlags'
    OBVIOUS
  <1> USE DEF TgFlags
  <1>1. CASE PlatformUpdate
    BY <1>1, Zenon DEF PlatformUpdate, polling
  <1>2. CASE Connect
    BY <1>2, Zenon DEF Connect, SpawnLoop, roles
  <1>3. CASE RetryTransport
    BY <1>3, Zenon DEF RetryTransport, SpawnLoop, roles
  <1>4. CASE Replace \/ ExitAdapter
    BY <1>4, Zenon DEF Replace, ExitAdapter
  <1>5. ASSUME NEW l \in Loops, LoopStep(l) \/ PollFails(l) PROVE TgFlags'
    <2>1. CASE HandleUpdate(l)
      <3>1. UNCHANGED <<tgUp, authFailed>> /\ (UNCHANGED overlapped \/ overlapped' \in BOOLEAN)
        <4> DEFINE u == tgStream[Head(loop[l].batch)]
        <4>1. CASE u.kind = "callback"
          BY <2>1, <4>1 DEF HandleUpdate
        <4>2. CASE u.kind = "chat_member"
          BY <2>1, <4>2 DEF HandleUpdate
        <4>3. CASE u.kind # "callback" /\ u.kind # "chat_member"
          BY <2>1, <4>3 DEF HandleUpdate
        <4> QED BY <4>1, <4>2, <4>3
      <3> QED BY <3>1, Zenon
    <2>2. CASE PollFails(l)
      BY <2>2, Zenon DEF PollFails, roles
    <2>3. CASE PollReturns(l) \/ PauseEnds(l) \/ EndBatch(l) \/ Leave(l)
      BY <2>3, Zenon DEF PollReturns, PauseEnds, EndBatch, Leave, roles
    <2> QED BY <1>5, <2>1, <2>2, <2>3 DEF LoopStep
  <1>6. ASSUME NEW p \in 1 .. MaxTgUpdates, TaskStep(p) PROVE TgFlags'
    BY <1>6, Zenon DEF TaskStep, TaskRuns, ListReturns, OldTaskRuns, polling
  <1>7. CASE UNCHANGED telegramVars
    BY <1>7, Zenon DEF telegramVars
  <1> QED BY <1>1, <1>2, <1>3, <1>4, <1>5, <1>6, <1>7 DEF TelegramNext

\* The types of the variables of the long poll: TelegramTypeOK.
LEMMA TelegramTypes == TelegramSpec => []TelegramTypeOK
  <1>1. TelegramInit => CacheFits /\ PublishedFit /\ TgCounted
    BY TelegramAssumption DEF TelegramInit, CacheFits, PublishedFit, TgCounted
  <1>2. TelegramInit => TgFlags
    BY Zenon DEF TelegramInit, TgFlags
  <1>3. TelegramInv /\ CacheFits /\ [TelegramNext]_telegramVars => CacheFits'
    BY CacheStep DEF TelegramInv
  <1>4. TelegramInv /\ PublishedFit /\ [TelegramNext]_telegramVars => PublishedFit'
    BY PublishedStep DEF TelegramInv
  <1>5. TelegramInv /\ CacheFits /\ PublishedFit /\ TgCounted /\ TgFlags => TelegramTypeOK
    <2> SUFFICES ASSUME TelegramInv, CacheFits, PublishedFit, TgCounted, TgFlags PROVE TelegramTypeOK
      OBVIOUS
    <2>0. OffsetsFit /\ TasksFit /\ MaxTgUpdates \in Nat
      BY TelegramAssumption DEF TelegramInv
    <2>1. PICK n \in Nat : n <= Len(tgStream) /\ handed = 1 .. n
      BY <2>0 DEF OffsetsFit
    <2>2. Len(tgStream) \in Nat /\ Len(tgStream) <= MaxTgUpdates /\ n <= MaxTgUpdates
      BY <2>0, <2>1 DEF OffsetsFit, TasksFit
    <2>3. handed \subseteq 1 .. MaxTgUpdates
      BY <2>0, <2>1, <2>2
    <2>4. ASSUME NEW o \in Nat, 1 .. o - 1 \subseteq handed PROVE o \in 0 .. MaxTgUpdates + 1
      <3>1. CASE o <= 1
        BY <3>1, <2>0
      <3>2. CASE o > 1
        <4>1. o - 1 \in 1 .. n
          BY <2>1, <2>4, <3>2
        <4> QED BY <2>0, <2>2, <4>1
      <3> QED BY <3>1, <3>2
    <2>5. confirmed \in 0 .. MaxTgUpdates + 1 /\ lastOffset \in 0 .. MaxTgUpdates + 1
      BY <2>0, <2>4 DEF OffsetsFit
    <2>6. loop \in [Loops -> LoopStates]
      <3>1. ASSUME NEW l \in Loops PROVE loop[l] \in LoopStates
        <4>1. loop[l] \in TgLoop /\ LoopFits(loop[l])
          BY <2>0 DEF OffsetsFit
        <4>2. loop[l].offset \in Nat /\ 1 .. loop[l].offset - 1 \subseteq handed /\ loop[l].batch \in Seq(Nat)
          BY <4>1 DEF TgLoop, LoopFits
        <4>3. loop[l].offset \in 0 .. MaxTgUpdates + 1
          BY <2>4, <4>2
        <4>4. \A i \in 1 .. Len(loop[l].batch) : loop[l].batch[i] \in 1 .. MaxTgUpdates
          BY <2>0, <2>2, <4>1, <4>2 DEF LoopFits
        <4> DEFINE b == loop[l].batch
        <4>6. Len(b) \in Nat /\ b = [i \in 1 .. Len(b) |-> b[i]]
          BY <4>2
        <4>7. PICK m \in Nat : m = Len(b)
          BY <4>6
        <4>8. b \in [1 .. m -> 1 .. MaxTgUpdates]
          BY <4>4, <4>6, <4>7
        <4> HIDE DEF b
        <4>5. b \in Seq(1 .. MaxTgUpdates)
          BY <4>8, SeqDef, Zenon
        <4> QED BY <4>1, <4>3, <4>5 DEF b, TgLoop, LoopStates
      <3> QED BY <2>0, <3>1 DEF OffsetsFit
    <2>7. DOMAIN tgTasks \subseteq 1 .. MaxTgUpdates /\ Range(tgTasks) \subseteq {"queued", "list", "old"}
      BY <2>0 DEF TasksFit, Range
    <2>8. tgStream \in Seq(TgUpdates) /\ groupAdmins \subseteq TgUsers /\ listSeen \in [1 .. MaxTgUpdates -> SUBSET TgUsers]
      BY <2>0 DEF OffsetsFit, TasksFit
    <2> QED BY <2>2, <2>3, <2>5, <2>6, <2>7, <2>8, Zenon DEF CacheFits, PublishedFit, TgCounted, TgFlags, TelegramTypeOK
  <1> QED BY <1>1, <1>2, <1>3, <1>4, <1>5, TgCountedStep, TgFlagsStep, TelegramStarts, TelegramInvStep, PTL DEF TelegramSpec

-----------------------------------------------------------------------------
(* The gateway of Discord (DiscordGateway).                                  *)
DiscordSpec == DiscordInit /\ [][DiscordNext]_discordVars

\* The tasks that are not cancelled are those of one generation: one per shard
\* while the adapter is connected, and none otherwise.
Generation(g) == \A h \in {1, 2}, s \in 1 .. MaxShards : Live(<<h, s>>) <=> dgUp /\ h = g /\ s <= shardCount
DiscordInv ==
  /\ shardCount \in 1 .. MaxShards /\ dgUp \in BOOLEAN
  /\ shardTask \in [Tasks -> {"off", "connecting", "up", "broken", "ended"}] /\ cancelled \subseteq Tasks
  /\ \E g \in {1, 2} : Generation(g)

\* A task is named by its generation and its shard.
LEMMA TaskPairs == \A h \in {1, 2}, s \in 1 .. MaxShards : <<h, s>> \in Tasks
  BY DEF Tasks

\* A new generation of shards: one task for each shard that is served, and the ones before it are cancelled.
LEMMA SpawnKeepsInv ==
  ASSUME DiscordInv, shardCount' \in 1 .. MaxShards, SpawnShards(shardCount'), dgUp' = TRUE
  PROVE  DiscordInv'
  <1>1. PICK g \in {1, 2} :
          /\ shardTask' = [t \in Tasks |-> IF t[1] = g /\ t[2] <= shardCount' THEN "connecting" ELSE shardTask[t]]
          /\ cancelled' = {t \in Tasks : t[1] # g /\ shardTask[t] # "off"}
          /\ \A t \in Tasks : t[1] = g => shardTask[t] = "off"
    BY DEF SpawnShards
  <1>2. shardTask' \in [Tasks -> {"off", "connecting", "up", "broken", "ended"}] /\ cancelled' \subseteq Tasks
    BY <1>1 DEF DiscordInv
  <1>3. ASSUME NEW h \in {1, 2}, NEW s \in 1 .. MaxShards
        PROVE  (shardTask'[<<h, s>>] # "off" /\ <<h, s>> \notin cancelled') <=> (h = g /\ s <= shardCount')
    <2>1. <<h, s>> \in Tasks /\ <<h, s>>[1] = h /\ <<h, s>>[2] = s
      BY TaskPairs
    <2>2. shardTask'[<<h, s>>] = IF h = g /\ s <= shardCount' THEN "connecting" ELSE shardTask[<<h, s>>]
      BY <1>1, <2>1
    <2>3. <<h, s>> \in cancelled' <=> h # g /\ shardTask[<<h, s>>] # "off"
      BY <1>1, <2>1
    <2>4. h = g => shardTask[<<h, s>>] = "off"
      BY <1>1, <2>1
    <2> QED BY <2>2, <2>3, <2>4
  <1>4. Generation(g)'
    BY <1>3 DEF Generation, Live
  <1> QED BY <1>2, <1>4 DEF DiscordInv

\* A step that moves one task that runs, or ends one that was cancelled.
LEMMA TaskStepKeepsInv ==
  ASSUME DiscordInv, NEW t \in Tasks, NEW to \in {"off", "connecting", "up", "broken", "ended"}, Goes(t, to),
         \/ shardTask[t] # "off" /\ to # "off" /\ cancelled' = cancelled
         \/ t \in cancelled /\ to = "off" /\ cancelled' = cancelled \ {t},
         UNCHANGED <<shardCount, dgUp>>
  PROVE  DiscordInv'
  <1>1. PICK g \in {1, 2} : Generation(g)
    BY DEF DiscordInv
  <1>2. shardTask' \in [Tasks -> {"off", "connecting", "up", "broken", "ended"}] /\ cancelled' \subseteq Tasks
    BY DEF DiscordInv, Goes
  <1>3. ASSUME NEW u \in Tasks PROVE (shardTask'[u] # "off" /\ u \notin cancelled') <=> (shardTask[u] # "off" /\ u \notin cancelled)
    BY DEF DiscordInv, Goes
  <1>4. Generation(g)'
    BY <1>1, <1>3, TaskPairs DEF Generation, Live
  <1> QED BY <1>2, <1>4 DEF DiscordInv

\* Connecting, disconnecting and every step of a shard task keep one generation live.
LEMMA DiscordInvStep == DiscordInv /\ [DiscordNext]_discordVars => DiscordInv'
  <1> SUFFICES ASSUME DiscordInv, [DiscordNext]_discordVars PROVE DiscordInv'
    OBVIOUS
  <1>0. UNCHANGED <<shardCount, shardTask, cancelled, dgUp>> => DiscordInv'
    BY DEF DiscordInv, Generation, Live
  <1>1. CASE ConnectGateway
    BY <1>0, <1>1, SpawnKeepsInv DEF ConnectGateway
  <1>2. CASE RetryGateway
    <2>1. SpawnShards(shardCount') /\ shardCount' = shardCount /\ dgUp' = TRUE
      BY <1>2 DEF RetryGateway, DiscordInv
    <2> QED BY <2>1, SpawnKeepsInv DEF DiscordInv
  <1>3. CASE DisconnectGateway
    <2>1. dgUp' = FALSE /\ cancelled' = {t \in Tasks : shardTask[t] # "off"} /\ UNCHANGED <<shardCount, shardTask>>
      BY <1>3 DEF DisconnectGateway
    <2>2. Generation(1)'
      BY <2>1, TaskPairs DEF Generation, Live
    <2> QED BY <2>1, <2>2 DEF DiscordInv
  <1>4. CASE Minute
    BY <1>0, <1>4 DEF Minute
  <1>5. CASE \E t \in Tasks : TaskEnds(t)
    BY <1>5, TaskStepKeepsInv DEF TaskEnds
  <1>6. CASE \E t \in Tasks : GatewayEvent(t)
    BY <1>6, TaskStepKeepsInv DEF GatewayEvent
  <1>7. CASE \E t \in Tasks : MessageCreate(t) \/ GuildEvent(t)
    BY <1>0, <1>7 DEF MessageCreate, GuildEvent
  <1>8. CASE \E t \in Tasks : ReceiveError(t) \/ StreamEnds(t)
    BY <1>8, TaskStepKeepsInv DEF ReceiveError, StreamEnds
  <1>9. CASE \E t \in Tasks : ShardReconnects(t)
    BY <1>9, TaskStepKeepsInv DEF ShardReconnects
  <1>10. CASE UNCHANGED discordVars
    BY <1>0, <1>10 DEF discordVars
  <1> QED BY <1>1, <1>2, <1>3, <1>4, <1>5, <1>6, <1>7, <1>8, <1>9, <1>10 DEF DiscordNext

\* An adapter that has not connected.
LEMMA DiscordStarts == DiscordInit => DiscordInv
  <1> SUFFICES ASSUME DiscordInit PROVE DiscordInv
    OBVIOUS
  <1>1. dgUp = FALSE /\ \A h \in {1, 2}, s \in 1 .. MaxShards : shardTask[<<h, s>>] = "off"
    BY TaskPairs DEF DiscordInit
  <1>2. Generation(1)
    BY <1>1 DEF Generation, Live
  <1>3. shardCount \in 1 .. MaxShards /\ cancelled \subseteq Tasks
    BY DiscordAssumption DEF DiscordInit
  <1>5. dgUp \in BOOLEAN
    BY <1>1, Zenon
  <1>4. shardTask \in [Tasks -> {"off", "connecting", "up", "broken", "ended"}]
    BY DEF DiscordInit
  <1> QED BY <1>2, <1>3, <1>4, <1>5 DEF DiscordInv

\* While the adapter is connected every shard has one live task, and it has none
\* otherwise (adapter-discord: connect, disconnect, reshard), for every number of
\* shards and however slowly cancelled tasks end.
THEOREM ShardsAreServed == DiscordSpec => []EveryShardHasATask
  <1>2. DiscordInv => EveryShardHasATask
    <2> SUFFICES ASSUME DiscordInv, NEW s \in 1 .. MaxShards
                 PROVE  Cardinality({g \in {1, 2} : Live(<<g, s>>)}) = IF dgUp /\ s <= shardCount THEN 1 ELSE 0
      BY DEF EveryShardHasATask
    <2>1. PICK g \in {1, 2} : Generation(g)
      BY DEF DiscordInv
    <2>2. CASE dgUp /\ s <= shardCount
      <3>1. {h \in {1, 2} : Live(<<h, s>>)} = {g}
        BY <2>1, <2>2 DEF Generation
      <3> QED BY <2>2, <3>1, FS_Singleton
    <2>3. CASE ~(dgUp /\ s <= shardCount)
      <3>1. {h \in {1, 2} : Live(<<h, s>>)} = {}
        BY <2>1, <2>3 DEF Generation
      <3> QED BY <2>3, <3>1, FS_EmptySet
    <2> QED BY <2>2, <2>3
  <1> QED BY <1>2, DiscordStarts, DiscordInvStep, PTL DEF DiscordSpec

\* The ages and the counters stay within their bounds.
DiscordRest ==
  /\ beatAge \in 0 .. AgeLimit + 1 /\ streamAge \in 0 .. AgeLimit + 1 /\ failures \in 0 .. dgErrors
  /\ dgMessages \in 0 .. MaxDgMessages /\ dgErrors \in 0 .. MaxDgErrors /\ dgStarts \in 0 .. MaxDgStarts

\* The types of the variables of the Discord gateway: DiscordTypeOK.
LEMMA DiscordTypes == DiscordSpec => []DiscordTypeOK
  <1>1. DiscordInit => DiscordRest
    BY DiscordAssumption DEF DiscordInit, DiscordRest
  <1>2. DiscordRest /\ [DiscordNext]_discordVars => DiscordRest'
    <2> SUFFICES ASSUME DiscordRest, [DiscordNext]_discordVars PROVE DiscordRest'
      OBVIOUS
    <2> USE DiscordAssumption DEF DiscordRest
    <2>1. CASE ConnectGateway \/ RetryGateway
      BY <2>1 DEF ConnectGateway, RetryGateway
    <2>2. CASE DisconnectGateway \/ UNCHANGED discordVars
      BY <2>2 DEF DisconnectGateway, discordVars
    <2>3. CASE Minute
      BY <2>3 DEF Minute
    <2>4. CASE \E t \in Tasks : TaskEnds(t) \/ ShardReconnects(t)
      BY <2>4 DEF TaskEnds, ShardReconnects
    <2>5. CASE \E t \in Tasks : GatewayEvent(t) \/ GuildEvent(t)
      BY <2>5 DEF GatewayEvent, GuildEvent, Beat
    <2>6. CASE \E t \in Tasks : MessageCreate(t)
      BY <2>6 DEF MessageCreate, BeatSuccess
    <2>7. CASE \E t \in Tasks : ReceiveError(t) \/ StreamEnds(t)
      BY <2>7 DEF ReceiveError, StreamEnds
    <2> QED BY <2>1, <2>2, <2>3, <2>4, <2>5, <2>6, <2>7 DEF DiscordNext
  <1>3. DiscordInv /\ DiscordRest => DiscordTypeOK
    <2> SUFFICES ASSUME DiscordInv, DiscordRest PROVE DiscordTypeOK
      OBVIOUS
    <2>1. dgErrors \in Nat /\ dgErrors <= MaxDgErrors /\ failures \in 0 .. dgErrors
      BY DiscordAssumption DEF DiscordRest
    <2>2. failures \in 0 .. MaxDgErrors
      BY <2>1, DiscordAssumption
    <2> QED BY <2>2, Zenon DEF DiscordInv, DiscordRest, DiscordTypeOK
  <1> QED BY <1>1, <1>2, <1>3, DiscordStarts, DiscordInvStep, PTL DEF DiscordSpec

-----------------------------------------------------------------------------
(* The event subscription of Feishu (FeishuEvents).                          *)
FeishuSpec == FeishuInit /\ [][FeishuNext]_feishuVars

Keys == Links \X FsEvents
Stages == [check : Nat, role : Nat, publish : Nat]
FeishuTypes ==
  /\ link \in [Links -> [at : {"off", "connecting", "up", "down"}, cancelled : BOOLEAN]]
  /\ seen \in [Links -> SUBSET FsEvents] /\ handler \in [Keys -> Stages]
  /\ pushes \in [FsEvents -> Nat] /\ fsPublished \in [Keys -> Nat] /\ acked \subseteq FsEvents

\* How often a subscription took an event for a new one and did not drop it.
Taken(k) == handler[k].role + handler[k].publish + fsPublished[k]
Excused(e) == e \in Malformed \cup abandoned \cup earlier

\* Handlers run on a live connection only.
HandlersAreLive == \A k \in Keys : link[k[1]].at # "up" => handler[k] = NoHandlers
\* What a subscription took it remembers, until the platform has given up
\* pushing it.
TakenOnce ==
  \A k \in Keys :
    /\ Taken(k) <= 1
    /\ Taken(k) > 0 => k[2] \in seen[k[1]] \/ (pushes[k[2]] = MaxPushes /\ handler[k].check = 0)
SeenIsAccounted == \A k \in Keys : k[2] \in seen[k[1]] => Excused(k[2]) \/ Taken(k) > 0
AckedIsAccounted == \A e \in acked : Excused(e) \/ \E k \in Keys : k[2] = e /\ Taken(k) > 0
FeishuInv == FeishuTypes /\ HandlersAreLive /\ TakenOnce /\ SeenIsAccounted /\ AckedIsAccounted

\* A subscription of an event is the pair of its connection and the event.
LEMMA KeyPairs ==
  /\ \A l \in Links, e \in FsEvents : <<l, e>> \in Keys /\ <<l, e>>[1] = l /\ <<l, e>>[2] = e
  /\ \A k \in Keys : k[1] \in Links /\ k[2] \in FsEvents /\ k = <<k[1], k[2]>>
  BY DEF Keys

\* A connection without handlers.
LEMMA NoStages == NoHandlers \in Stages /\ NoHandlers.check = 0 /\ NoHandlers.role = 0 /\ NoHandlers.publish = 0
  BY DEF NoHandlers, Stages

\* Handlers are counted by the stage they have come to.
LEMMA StageFields ==
  ASSUME NEW s \in Stages
  PROVE  s.check \in Nat /\ s.role \in Nat /\ s.publish \in Nat
  BY DEF Stages

\* One handler more, or fewer, at the first stage.
LEMMA StagePushed ==
  ASSUME NEW s \in Stages, NEW c \in Nat
  PROVE  \E t \in Stages : t = [s EXCEPT !.check = c] /\ t.check = c /\ t.role = s.role /\ t.publish = s.publish
  <1>1. [s EXCEPT !.check = c] \in Stages /\ [s EXCEPT !.check = c].check = c /\ [s EXCEPT !.check = c].role = s.role /\ [s EXCEPT !.check = c].publish = s.publish
    BY DEF Stages
  <1> QED BY <1>1

\* One handler more, or fewer, at the last stage.
LEMMA StagePublished ==
  ASSUME NEW s \in Stages, NEW p \in Nat
  PROVE  \E t \in Stages : t = [s EXCEPT !.publish = p] /\ t.check = s.check /\ t.role = s.role /\ t.publish = p
  <1>1. [s EXCEPT !.publish = p] \in Stages /\ [s EXCEPT !.publish = p].check = s.check /\ [s EXCEPT !.publish = p].role = s.role /\ [s EXCEPT !.publish = p].publish = p
    BY DEF Stages
  <1> QED BY <1>1

\* The handlers of one event on one connection change.
LEMMA HandlerUpdated ==
  ASSUME NEW f \in [Keys -> Stages], NEW h \in Keys, NEW s \in Stages
  PROVE  [f EXCEPT ![h] = s] \in [Keys -> Stages] /\ [f EXCEPT ![h] = s][h] = s /\ \A k \in Keys \ {h} : [f EXCEPT ![h] = s][k] = f[k]
  OBVIOUS

\* The platform pushes an event, for the first time or again.
LEMMA PushKeepsInv ==
  ASSUME FeishuInv, NEW l \in Links, NEW e \in FsEvents, Push(l, e)
  PROVE  FeishuInv'
  <1> USE DEF FeishuInv
  <1> DEFINE h == <<l, e>>
  <1>1. h \in Keys /\ h[1] = l /\ h[2] = e
    BY KeyPairs
  <1>2. /\ link[l].at = "up" /\ pushes[e] < MaxPushes /\ UNCHANGED <<link, seen, acked, fsPublished, abandoned, earlier>>
        /\ pushes' = [pushes EXCEPT ![e] = @ + 1] /\ handler' = [handler EXCEPT ![h].check = @ + 1]
    BY DEF Push
  <1>3. /\ handler' \in [Keys -> Stages] /\ \A k \in Keys \ {h} : handler'[k] = handler[k]
        /\ handler'[h].role = handler[h].role /\ handler'[h].publish = handler[h].publish
    <2>1. handler \in [Keys -> Stages] /\ handler[h] \in Stages
      BY <1>1 DEF FeishuTypes
    <2>2. handler' = [handler EXCEPT ![h] = [handler[h] EXCEPT !.check = @ + 1]]
      BY <1>2
    <2> HIDE DEF FeishuInv, h
    <2>3. PICK t \in Stages : /\ t = [handler[h] EXCEPT !.check = @ + 1] /\ t.check = handler[h].check + 1
                              /\ t.role = handler[h].role /\ t.publish = handler[h].publish
      <3>1. handler[h].check + 1 \in Nat
        BY <2>1, StageFields
      <3> QED BY <2>1, <3>1, StagePushed
    <2> QED BY <1>1, <2>1, <2>2, <2>3, HandlerUpdated
  <1>4. \A k \in Keys : Taken(k)' = Taken(k)
    BY <1>2, <1>3 DEF Taken
  <1>5. FeishuTypes'
    BY <1>2, <1>3 DEF FeishuTypes
  <1>6. HandlersAreLive'
    BY <1>1, <1>2, <1>3 DEF HandlersAreLive
  <1>7. TakenOnce'
    <2> SUFFICES ASSUME NEW k \in Keys, Taken(k) > 0
                 PROVE  k[2] \in seen[k[1]] \/ (pushes'[k[2]] = MaxPushes /\ handler'[k].check = 0)
      BY <1>2, <1>4 DEF TakenOnce
    <2>1. CASE k[2] = e
      <3>1. MaxPushes \in Nat /\ pushes[e] \in Nat
        BY FeishuAssumption DEF FeishuTypes
      <3> QED BY <1>2, <2>1, <3>1 DEF TakenOnce
    <2>2. CASE k[2] # e
      BY <1>1, <1>2, <1>3, <2>2, KeyPairs DEF TakenOnce, FeishuTypes
    <2> QED BY <2>1, <2>2
  <1>8. SeenIsAccounted' /\ AckedIsAccounted'
    BY <1>2, <1>4 DEF SeenIsAccounted, AckedIsAccounted, Excused
  <1> QED BY <1>5, <1>6, <1>7, <1>8

\* A handler looks the event up among those seen and records it.
LEMMA CheckKeepsInv ==
  ASSUME FeishuInv, NEW l \in Links, NEW e \in FsEvents, CheckAndRecord(l, e)
  PROVE  FeishuInv'
  <1> USE DEF FeishuInv
  <1> DEFINE h == <<l, e>>
  <1>1. h \in Keys /\ h[1] = l /\ h[2] = e
    BY KeyPairs
  <1>2. link[l].at = "up" /\ handler[h].check > 0 /\ UNCHANGED <<link, pushes, fsPublished, abandoned, earlier>>
    BY DEF CheckAndRecord
  <1>3. \A k \in Keys : k # h => ~(k[1] = l /\ k[2] = e)
    BY KeyPairs
  <1>4. CASE e \in seen[l] /\ handler' = [handler EXCEPT ![h].check = @ - 1] /\ Ack(e) /\ UNCHANGED seen
    <2>1. /\ handler' \in [Keys -> Stages] /\ \A k \in Keys \ {h} : handler'[k] = handler[k]
          /\ handler'[h].role = handler[h].role /\ handler'[h].publish = handler[h].publish
      BY <1>1, <1>2, <1>4 DEF FeishuTypes, Stages
    <2>2. \A k \in Keys : Taken(k)' = Taken(k)
      BY <1>2, <2>1 DEF Taken
    <2>3. FeishuTypes'
      BY <1>2, <1>4, <2>1 DEF FeishuTypes, Ack
    <2>4. HandlersAreLive'
      BY <1>1, <1>2, <2>1 DEF HandlersAreLive
    <2>5. TakenOnce'
      BY <1>1, <1>2, <1>4, <2>1, <2>2 DEF TakenOnce
    <2>6. SeenIsAccounted'
      BY <1>2, <1>4, <2>2 DEF SeenIsAccounted, Excused
    <2>7. Excused(e)' \/ Taken(h)' > 0
      BY <1>1, <1>4, <2>6 DEF SeenIsAccounted
    <2>8. AckedIsAccounted'
      BY <1>1, <1>2, <1>4, <2>2, <2>7 DEF AckedIsAccounted, Ack, Excused
    <2> QED BY <2>3, <2>4, <2>5, <2>6, <2>8
  <1>5. CASE e \notin seen[l] /\ handler' = [handler EXCEPT ![h].check = @ - 1, ![h].role = @ + 1]
             /\ seen' = [seen EXCEPT ![l] = @ \cup {e}] /\ UNCHANGED acked
    <2>1. /\ handler' \in [Keys -> Stages] /\ \A k \in Keys \ {h} : handler'[k] = handler[k]
          /\ handler'[h].role = handler[h].role + 1 /\ handler'[h].publish = handler[h].publish
      <3>1. handler \in [Keys -> Stages] /\ handler[h] \in Stages
        BY <1>1 DEF FeishuTypes
      <3>2. handler' = [handler EXCEPT ![h] = [handler[h] EXCEPT !.check = @ - 1, !.role = @ + 1]]
        BY <1>5
      <3> HIDE DEF FeishuInv, h
      <3>3. handler[h].check - 1 \in Nat /\ handler[h].role + 1 \in Nat
        BY <1>2, <3>1, StageFields
      <3>4. PICK t \in Stages : /\ t = [handler[h] EXCEPT !.check = @ - 1, !.role = @ + 1] /\ t.check = handler[h].check - 1
                                /\ t.role = handler[h].role + 1 /\ t.publish = handler[h].publish
        <4>1. PICK s \in Stages, c \in Nat, r \in Nat : s = handler[h] /\ c = s.check - 1 /\ r = s.role + 1
          BY <3>1, <3>3
        <4>2. [s EXCEPT !.check = c, !.role = r] \in Stages
          BY <4>1 DEF Stages
        <4>3. [s EXCEPT !.check = c, !.role = r].check = c /\ [s EXCEPT !.check = c, !.role = r].role = r /\ [s EXCEPT !.check = c, !.role = r].publish = s.publish
          BY <4>1 DEF Stages
        <4> QED BY <4>1, <4>2, <4>3
      <3> QED BY <1>1, <3>1, <3>2, <3>4, HandlerUpdated
    <2>2. Taken(h) = 0
      <3>1. handler[h].check \in Nat /\ handler[h].role \in Nat /\ handler[h].publish \in Nat /\ fsPublished[h] \in Nat
        BY <1>1, StageFields DEF FeishuTypes
      <3>2. ~(Taken(h) > 0)
        BY <1>1, <1>2, <1>5, <3>1 DEF TakenOnce
      <3> QED BY <3>1, <3>2 DEF Taken
    <2>3. Taken(h)' = 1 /\ \A k \in Keys \ {h} : Taken(k)' = Taken(k)
      <3>1. handler[h].role \in Nat /\ handler[h].publish \in Nat /\ fsPublished[h] \in Nat
        BY <1>1, StageFields DEF FeishuTypes
      <3> QED BY <1>1, <1>2, <2>1, <2>2, <3>1 DEF Taken
    <2>4. /\ seen' \in [Links -> SUBSET FsEvents] /\ e \in seen'[l]
          /\ \A k \in Keys \ {h} : k[2] \in seen'[k[1]] <=> k[2] \in seen[k[1]]
      BY <1>3, <1>5, KeyPairs DEF FeishuTypes
    <2>5. FeishuTypes'
      BY <1>2, <1>5, <2>1, <2>4 DEF FeishuTypes
    <2>6. HandlersAreLive'
      BY <1>1, <1>2, <2>1 DEF HandlersAreLive
    <2>7. TakenOnce'
      BY <1>1, <1>2, <2>1, <2>3, <2>4 DEF TakenOnce
    <2>8. SeenIsAccounted' /\ AckedIsAccounted'
      BY <1>1, <1>2, <1>5, <2>3, <2>4 DEF SeenIsAccounted, AckedIsAccounted, Excused
    <2> QED BY <2>5, <2>6, <2>7, <2>8
  <1> QED BY <1>4, <1>5 DEF CheckAndRecord

\* A known or a malformed event apart, the stages and the messages published
\* stand for the event all the time.
LEMMA StageKeepsInv ==
  ASSUME FeishuInv, NEW l \in Links, NEW e \in FsEvents, ResolveRole(l, e) \/ HandleMessage(l, e)
  PROVE  FeishuInv'
  <1> USE DEF FeishuInv
  <1> DEFINE h == <<l, e>>
  <1>1. h \in Keys /\ h[1] = l /\ h[2] = e
    BY KeyPairs
  <1>2. link[l].at = "up" /\ Taken(h) > 0 /\ UNCHANGED <<link, seen, pushes, abandoned, earlier>> /\ acked' \subseteq acked \cup {e}
    BY <1>1 DEF ResolveRole, HandleMessage, Ack, Taken, FeishuTypes, Stages
  <1>3. /\ handler' \in [Keys -> Stages] /\ \A k \in Keys \ {h} : handler'[k] = handler[k] /\ fsPublished'[k] = fsPublished[k]
        /\ handler'[h].check = handler[h].check /\ fsPublished' \in [Keys -> Nat]
        /\ Taken(h)' = Taken(h) \/ (e \in Malformed /\ Taken(h)' = Taken(h) - 1)
    <2>0. handler \in [Keys -> Stages] /\ handler[h] \in Stages /\ fsPublished[h] \in Nat /\ fsPublished \in [Keys -> Nat]
      BY <1>1 DEF FeishuTypes
    <2>1. CASE ResolveRole(l, e)
      <3>1. handler' = [handler EXCEPT ![h] = [handler[h] EXCEPT !.role = @ - 1, !.publish = @ + 1]] /\ handler[h].role > 0
            /\ fsPublished' = fsPublished
        BY <2>1 DEF ResolveRole
      <3> HIDE DEF FeishuInv, h
      <3>2. handler[h].role - 1 \in Nat /\ handler[h].publish + 1 \in Nat /\ handler[h].role \in Nat /\ handler[h].publish \in Nat
        BY <2>0, <3>1, StageFields
      <3>3. PICK t \in Stages : /\ t = [handler[h] EXCEPT !.role = @ - 1, !.publish = @ + 1] /\ t.check = handler[h].check
                                /\ t.role = handler[h].role - 1 /\ t.publish = handler[h].publish + 1
        <4>1. PICK s \in Stages, r \in Nat, p \in Nat : s = handler[h] /\ r = s.role - 1 /\ p = s.publish + 1
          BY <2>0, <3>2
        <4>2. [s EXCEPT !.role = r, !.publish = p] \in Stages
          BY <4>1 DEF Stages
        <4>3. [s EXCEPT !.role = r, !.publish = p].check = s.check /\ [s EXCEPT !.role = r, !.publish = p].role = r /\ [s EXCEPT !.role = r, !.publish = p].publish = p
          BY <4>1 DEF Stages
        <4> QED BY <4>1, <4>2, <4>3
      <3>4. handler' \in [Keys -> Stages] /\ handler'[h] = t /\ \A k \in Keys \ {h} : handler'[k] = handler[k]
        BY <1>1, <2>0, <3>1, <3>3, HandlerUpdated
      <3>5. Taken(h)' = Taken(h)
        BY <2>0, <3>1, <3>2, <3>3, <3>4 DEF Taken
      <3> QED BY <2>0, <3>1, <3>3, <3>4, <3>5
    <2>2. CASE HandleMessage(l, e) /\ e \in Malformed
      <3>1. handler' = [handler EXCEPT ![h] = [handler[h] EXCEPT !.publish = @ - 1]] /\ handler[h].publish > 0
            /\ fsPublished' = fsPublished
        BY <2>2 DEF HandleMessage
      <3> HIDE DEF FeishuInv, h
      <3>2. handler[h].publish - 1 \in Nat /\ handler[h].role \in Nat /\ handler[h].publish \in Nat
        BY <2>0, <3>1, StageFields
      <3>3. PICK t \in Stages : /\ t = [handler[h] EXCEPT !.publish = @ - 1] /\ t.check = handler[h].check
                                /\ t.role = handler[h].role /\ t.publish = handler[h].publish - 1
        BY ZenonT(60), <2>0, <3>2, StagePublished
      <3>4. handler' \in [Keys -> Stages] /\ handler'[h] = t /\ \A k \in Keys \ {h} : handler'[k] = handler[k]
        BY <1>1, <2>0, <3>1, <3>3, HandlerUpdated
      <3>5. Taken(h)' = Taken(h) - 1
        BY <2>0, <3>1, <3>2, <3>3, <3>4 DEF Taken
      <3> QED BY <2>0, <2>2, <3>1, <3>3, <3>4, <3>5
    <2>3. CASE HandleMessage(l, e) /\ e \notin Malformed
      <3>1. handler' = [handler EXCEPT ![h].publish = @ - 1] /\ fsPublished' = [fsPublished EXCEPT ![h] = @ + 1] /\ handler[h].publish > 0
        BY <2>3 DEF HandleMessage
      <3>2. handler[h] \in Stages /\ fsPublished[h] \in Nat
        BY <1>1 DEF FeishuTypes
      <3>3. handler'[h] = [handler[h] EXCEPT !.publish = @ - 1] /\ fsPublished'[h] = fsPublished[h] + 1
        BY <1>1, <3>1 DEF FeishuTypes
      <3>4. handler'[h] \in Stages /\ handler'[h].check = handler[h].check /\ handler'[h].role = handler[h].role
            /\ handler'[h].publish = handler[h].publish - 1
        BY <3>1, <3>2, <3>3 DEF Stages
      <3>5. Taken(h)' = Taken(h)
        BY <3>2, <3>3, <3>4 DEF Taken, Stages
      <3> QED BY <1>1, <3>1, <3>3, <3>4, <3>5 DEF FeishuTypes
    <2> QED BY <2>1, <2>2, <2>3
  <1>4. \A k \in Keys \ {h} : Taken(k)' = Taken(k)
    BY <1>3 DEF Taken
  <1>5. Taken(h) \in Nat /\ Taken(h)' \in Nat
    BY <1>1, <1>3 DEF Taken, FeishuTypes, Stages
  <1>6. FeishuTypes'
    BY <1>2, <1>3 DEF FeishuTypes
  <1>7. HandlersAreLive'
    BY <1>1, <1>2, <1>3 DEF HandlersAreLive
  <1>8. TakenOnce'
    BY <1>1, <1>2, <1>3, <1>4, <1>5 DEF TakenOnce
  <1>9. Excused(e)' \/ Taken(h)' > 0
    BY <1>2, <1>3, <1>5 DEF Excused
  <1>10. SeenIsAccounted'
    BY <1>1, <1>2, <1>4, <1>9 DEF SeenIsAccounted, Excused
  <1>11. AckedIsAccounted'
    <2> SUFFICES ASSUME NEW d \in acked' PROVE (Excused(d) \/ \E k \in Keys : k[2] = d /\ Taken(k) > 0)'
      BY DEF AckedIsAccounted
    <2>1. CASE d = e
      BY <1>1, <1>9, <2>1
    <2>2. CASE d # e
      <3>1. d \in acked
        BY <1>2, <2>2
      <3>2. Excused(d) \/ \E k \in Keys : k[2] = d /\ Taken(k) > 0
        BY <3>1 DEF AckedIsAccounted
      <3> QED BY <1>1, <1>2, <1>4, <2>2, <3>2 DEF Excused
    <2> QED BY <2>1, <2>2
  <1> QED BY <1>6, <1>7, <1>8, <1>10, <1>11

\* The end of a connection: what its handlers were at is abandoned.
LEMMA DropKeepsInv ==
  ASSUME FeishuInv, NEW l \in Links, DropHandlers(l), link' \in [Links -> [at : {"off", "connecting", "up", "down"}, cancelled : BOOLEAN]],
         \A m \in Links : m # l => link'[m] = link[m],
         UNCHANGED <<seen, pushes, acked, fsPublished, earlier>>
  PROVE  FeishuInv'
  <1> USE DEF FeishuInv
  <1>1. \A k \in Keys : handler'[k] = IF k[1] = l THEN NoHandlers ELSE handler[k]
    BY DEF DropHandlers, Keys
  <1>2. handler' \in [Keys -> Stages]
    BY NoStages DEF DropHandlers, Keys, FeishuTypes
  <1>3. \A k \in Keys : Taken(k)' = IF k[1] = l THEN fsPublished[k] ELSE Taken(k)
    BY <1>1, NoStages DEF Taken, FeishuTypes
  <1>4. \A k \in Keys : k[1] = l => k[2] \in abandoned' \/ Taken(k) = fsPublished[k]
    <2> SUFFICES ASSUME NEW k \in Keys, k[1] = l, Taken(k) # fsPublished[k] PROVE k[2] \in abandoned'
      OBVIOUS
    <2>1. handler[k].role + handler[k].publish > 0
      <3>1. handler[k].role \in Nat /\ handler[k].publish \in Nat /\ fsPublished[k] \in Nat
        BY StageFields DEF FeishuTypes
      <3> QED BY <3>1 DEF Taken
    <2>2. k = <<l, k[2]>> /\ k[2] \in FsEvents
      BY KeyPairs
    <2>3. k[2] \in Dropped(l)
      BY <2>1, <2>2 DEF Dropped
    <2> QED BY <2>3 DEF DropHandlers
  <1>5. abandoned \subseteq abandoned'
    BY DEF DropHandlers
  <1>6. FeishuTypes'
    BY <1>2 DEF FeishuTypes
  <1>7. HandlersAreLive'
    BY <1>1, KeyPairs DEF HandlersAreLive
  <1>8. TakenOnce'
    BY <1>1, <1>3, NoStages DEF TakenOnce, Taken, FeishuTypes, Stages
  <1>9. SeenIsAccounted' /\ AckedIsAccounted'
    <2>1. \A k \in Keys : Taken(k) > 0 => Excused(k[2])' \/ Taken(k)' > 0
      BY <1>3, <1>4 DEF Excused
    <2>2. \A e : Excused(e) => Excused(e)'
      BY <1>5 DEF Excused
    <2> QED BY <2>1, <2>2 DEF SeenIsAccounted, AckedIsAccounted
  <1> QED BY <1>6, <1>7, <1>8, <1>9

\* A new connection takes the place of one that has ended.
LEMMA RespawnKeepsInv ==
  ASSUME FeishuInv, Respawn
  PROVE  FeishuInv'
  <1> USE DEF FeishuInv
  <1>1. PICK l \in Links :
          /\ link[l].at = "off"
          /\ link' = [m \in Links |-> IF m = l THEN NewLink
                                      ELSE [link[m] EXCEPT !.cancelled = @ \/ link[m].at # "off"]]
          /\ seen' = [seen EXCEPT ![l] = {}]
          /\ fsPublished' = [k \in Links \X FsEvents |-> IF k[1] = l THEN 0 ELSE fsPublished[k]]
          /\ earlier' = earlier \cup {e \in FsEvents : fsPublished[<<l, e>>] > 0}
    BY DEF Respawn
  <1>2. UNCHANGED <<handler, pushes, acked, abandoned>>
    BY DEF Respawn
  <1>3. /\ link' \in [Links -> [at : {"off", "connecting", "up", "down"}, cancelled : BOOLEAN]]
        /\ link'[l].at # "up" /\ \A m \in Links : m # l => link'[m].at = link[m].at
    BY <1>1 DEF FeishuTypes, NewLink
  <1>4. \A k \in Keys : k[1] = l => handler[k] = NoHandlers
    BY <1>1 DEF HandlersAreLive
  <1>5. /\ fsPublished' \in [Keys -> Nat] /\ seen' \in [Links -> SUBSET FsEvents] /\ seen'[l] = {}
        /\ \A k \in Keys : fsPublished'[k] = IF k[1] = l THEN 0 ELSE fsPublished[k]
        /\ \A k \in Keys : k[1] # l => seen'[k[1]] = seen[k[1]]
    BY <1>1, KeyPairs DEF FeishuTypes, Keys
  <1>6. \A k \in Keys : Taken(k)' = IF k[1] = l THEN 0 ELSE Taken(k)
    BY <1>2, <1>4, <1>5, NoStages DEF Taken
  <1>7. \A k \in Keys : k[1] = l /\ Taken(k) > 0 => k[2] \in earlier'
    <2> SUFFICES ASSUME NEW k \in Keys, k[1] = l, Taken(k) > 0 PROVE k[2] \in earlier'
      OBVIOUS
    <2>1. fsPublished[k] > 0
      BY <1>4, NoStages DEF Taken, FeishuTypes
    <2> QED BY <1>1, <2>1, KeyPairs
  <1>8. FeishuTypes'
    BY <1>2, <1>3, <1>5 DEF FeishuTypes
  <1>9. HandlersAreLive'
    BY <1>2, <1>3, <1>4, KeyPairs DEF HandlersAreLive
  <1>10. TakenOnce'
    BY <1>2, <1>5, <1>6 DEF TakenOnce
  <1>11. SeenIsAccounted' /\ AckedIsAccounted'
    <2>1. \A k \in Keys : Taken(k) > 0 => Excused(k[2])' \/ (Taken(k)' > 0 /\ k[1] # l)
      BY <1>6, <1>7 DEF Excused
    <2>2. \A e : Excused(e) => Excused(e)'
      BY <1>1, <1>2 DEF Excused
    <2> QED BY <1>2, <1>5, <2>1, <2>2, KeyPairs DEF SeenIsAccounted, AckedIsAccounted
  <1> QED BY <1>8, <1>9, <1>10, <1>11

\* Every step of the platform, of a connection and of a handler keeps the invariant of the event subscription.
LEMMA FeishuInvStep == FeishuInv /\ [FeishuNext]_feishuVars => FeishuInv'
  <1> SUFFICES ASSUME FeishuInv, [FeishuNext]_feishuVars PROVE FeishuInv'
    OBVIOUS
  <1>0. UNCHANGED <<link, seen, handler, pushes, acked, fsPublished, abandoned, earlier>> => FeishuInv'
    BY DEF FeishuInv, FeishuTypes, HandlersAreLive, TakenOnce, SeenIsAccounted, AckedIsAccounted, Excused, Taken
  <1>1. CASE Respawn
    BY <1>1, RespawnKeepsInv
  <1>2. CASE Liveness \/ \E l \in Links : ChatUpdated(l)
    BY <1>0, <1>2 DEF Liveness, ChatUpdated
  <1>3. CASE \E l \in Links : Stop(l)
    <2> PICK l \in Links : Stop(l)
      BY <1>3
    <2>1. /\ link' \in [Links -> [at : {"off", "connecting", "up", "down"}, cancelled : BOOLEAN]]
          /\ \A m \in Links : m # l => link'[m] = link[m]
      BY DEF Stop, FeishuInv, FeishuTypes
    <2> QED BY <2>1, DropKeepsInv DEF Stop
  <1>4. CASE \E l \in Links : OnReady(l)
    <2> USE DEF FeishuInv
    <2> PICK l \in Links : OnReady(l)
      BY <1>4
    <2>1. /\ link' \in [Links -> [at : {"off", "connecting", "up", "down"}, cancelled : BOOLEAN]]
          /\ link'[l].at = "up" /\ \A m \in Links : m # l => link'[m] = link[m]
      BY DEF OnReady, FeishuTypes
    <2>2. UNCHANGED <<seen, handler, pushes, acked, fsPublished, abandoned, earlier>>
      BY DEF OnReady
    <2>3. FeishuTypes' /\ HandlersAreLive'
      BY <2>1, <2>2, KeyPairs DEF FeishuTypes, HandlersAreLive
    <2> QED BY <2>2, <2>3 DEF TakenOnce, SeenIsAccounted, AckedIsAccounted, Excused, Taken
  <1>5. CASE \E l \in Links : OnDisconnected(l)
    <2> PICK l \in Links : OnDisconnected(l)
      BY <1>5
    <2>1. /\ link' \in [Links -> [at : {"off", "connecting", "up", "down"}, cancelled : BOOLEAN]]
          /\ \A m \in Links : m # l => link'[m] = link[m]
      BY DEF OnDisconnected, FeishuInv, FeishuTypes
    <2> QED BY <2>1, DropKeepsInv DEF OnDisconnected
  <1>6. CASE \E l \in Links, e \in FsEvents : Push(l, e)
    BY <1>6, PushKeepsInv
  <1>7. CASE \E l \in Links, e \in FsEvents : FsHandlerStep(l, e)
    BY <1>7, CheckKeepsInv, StageKeepsInv DEF FsHandlerStep
  <1>8. CASE \E l \in Links, e \in FsEvents : ForgetEvent(l, e)
    <2> USE DEF FeishuInv
    <2> PICK l \in Links, e \in FsEvents : ForgetEvent(l, e)
      BY <1>8
    <2>1. /\ e \in seen[l] /\ pushes[e] = MaxPushes /\ handler[<<l, e>>] = NoHandlers /\ seen' = [seen EXCEPT ![l] = @ \ {e}]
          /\ UNCHANGED <<link, handler, pushes, acked, fsPublished, abandoned, earlier>>
      BY DEF ForgetEvent
    <2>2. /\ seen' \in [Links -> SUBSET FsEvents] /\ \A k \in Keys : k[2] \in seen'[k[1]] => k[2] \in seen[k[1]]
          /\ \A k \in Keys : k # <<l, e>> /\ k[2] \in seen[k[1]] => k[2] \in seen'[k[1]]
      BY <2>1, KeyPairs DEF FeishuTypes
    <2>3. TakenOnce'
      BY <2>1, <2>2, NoStages, KeyPairs DEF TakenOnce, Taken
    <2> QED BY <2>1, <2>2, <2>3 DEF FeishuTypes, HandlersAreLive, SeenIsAccounted, AckedIsAccounted, Excused, Taken
  <1>9. CASE UNCHANGED feishuVars
    BY <1>0, <1>9 DEF feishuVars
  <1> QED BY <1>1, <1>2, <1>3, <1>4, <1>5, <1>6, <1>7, <1>8, <1>9 DEF FeishuNext

\* An adapter that has no connection yet.
LEMMA FeishuStarts == FeishuInit => FeishuInv
  BY NoStages DEF FeishuInit, FeishuInv, FeishuTypes, HandlersAreLive, TakenOnce, SeenIsAccounted, AckedIsAccounted, Taken, Keys

\* An event the platform pushes again, to whichever connection, reaches the bus at
\* most once for each subscription, and one that was acknowledged has reached it, is on
\* its way or was dropped for a reason that shows (adapter-feishu: the seen list), for
\* every set of events and every number of pushes.
THEOREM EventsArriveOnce == FeishuSpec => []EventsReachTheBusOnce
  <1>2. FeishuInv => EventsReachTheBusOnce
    <2> SUFFICES ASSUME FeishuInv PROVE EventsReachTheBusOnce
      OBVIOUS
    <2>1. OncePerSubscription
      BY KeyPairs DEF FeishuInv, TakenOnce, OncePerSubscription, Taken
    <2>2. AckedWasPublished
      <3> SUFFICES ASSUME NEW e \in acked, ~Excused(e)
                   PROVE  \E l \in Links : handler[<<l, e>>].role + handler[<<l, e>>].publish + fsPublished[<<l, e>>] > 0
        BY DEF AckedWasPublished, Excused
      <3>1. PICK k \in Keys : k[2] = e /\ Taken(k) > 0
        BY DEF FeishuInv, AckedIsAccounted
      <3> QED BY <3>1, KeyPairs DEF Taken
    <2> QED BY <2>1, <2>2 DEF EventsReachTheBusOnce
  <1> QED BY <1>2, FeishuStarts, FeishuInvStep, PTL DEF FeishuSpec

\* The handlers of an event, and the times it was published, are no more than its pushes.
PushesCover ==
  /\ pushes \in [FsEvents -> 0 .. MaxPushes] /\ handler \in [Keys -> Stages] /\ fsPublished \in [Keys -> Nat]
  /\ \A k \in Keys : handler[k].check + handler[k].role + handler[k].publish + fsPublished[k] <= pushes[k[2]]

\* The handlers of one event, after a step of one of them.
HandlersAre(k, c, o, p) ==
  \E t \in Stages : handler' = [handler EXCEPT ![k] = t] /\ t.check = c /\ t.role = o /\ t.publish = p
\* A handler that begins, or goes from one stage to the next, is counted at its new
\* stage and nowhere else.
LEMMA HandlersGoOn ==
  ASSUME PushesCover, NEW k \in Keys
  PROVE  LET h == handler[k] IN
         /\ handler' = [handler EXCEPT ![k].check = @ + 1] => HandlersAre(k, h.check + 1, h.role, h.publish)
         /\ h.check > 0 /\ handler' = [handler EXCEPT ![k].check = @ - 1] => HandlersAre(k, h.check - 1, h.role, h.publish)
         /\ h.check > 0 /\ handler' = [handler EXCEPT ![k].check = @ - 1, ![k].role = @ + 1]
              => HandlersAre(k, h.check - 1, h.role + 1, h.publish)
         /\ h.role > 0 /\ handler' = [handler EXCEPT ![k].role = @ - 1, ![k].publish = @ + 1]
              => HandlersAre(k, h.check, h.role - 1, h.publish + 1)
         /\ h.publish > 0 /\ handler' = [handler EXCEPT ![k].publish = @ - 1] => HandlersAre(k, h.check, h.role, h.publish - 1)
  <1> DEFINE s == handler[k]
  <1>1. s \in Stages /\ s.check \in Nat /\ s.role \in Nat /\ s.publish \in Nat
    BY StageFields DEF PushesCover
  <1>2. ASSUME handler' = [handler EXCEPT ![k].check = @ + 1] PROVE HandlersAre(k, s.check + 1, s.role, s.publish)
    <2>1. handler' = [handler EXCEPT ![k] = [s EXCEPT !.check = s.check + 1]]
      BY <1>2
    <2>2. s.check + 1 \in Nat
      BY <1>1
    <2> HIDE DEF s
    <2> QED BY <1>1, <2>1, <2>2, StagePushed DEF HandlersAre
  <1>3. ASSUME s.check > 0, handler' = [handler EXCEPT ![k].check = @ - 1] PROVE HandlersAre(k, s.check - 1, s.role, s.publish)
    <2>1. handler' = [handler EXCEPT ![k] = [s EXCEPT !.check = s.check - 1]]
      BY <1>3
    <2>2. s.check - 1 \in Nat
      BY <1>1, <1>3
    <2> HIDE DEF s
    <2> QED BY <1>1, <2>1, <2>2, StagePushed DEF HandlersAre
  <1>4. ASSUME s.check > 0, handler' = [handler EXCEPT ![k].check = @ - 1, ![k].role = @ + 1]
        PROVE  HandlersAre(k, s.check - 1, s.role + 1, s.publish)
    <2>1. handler' = [handler EXCEPT ![k] = [s EXCEPT !.check = s.check - 1, !.role = s.role + 1]]
      BY <1>4 DEF PushesCover, Stages
    <2>2. s.check - 1 \in Nat /\ s.role + 1 \in Nat
      BY <1>1, <1>4
    <2> HIDE DEF s
    <2>3. PICK c \in Nat, o \in Nat : c = s.check - 1 /\ o = s.role + 1
      BY <2>2
    <2>4. handler' = [handler EXCEPT ![k] = [s EXCEPT !.check = c, !.role = o]]
      BY <2>1, <2>3
    <2> DEFINE t == [s EXCEPT !.check = c, !.role = o]
    <2>5. t \in Stages /\ t.check = c /\ t.role = o /\ t.publish = s.publish
      BY <1>1 DEF Stages
    <2>6. handler' = [handler EXCEPT ![k] = t]
      BY <2>4
    <2> HIDE DEF t
    <2> QED BY <2>3, <2>5, <2>6 DEF HandlersAre
  <1>5. ASSUME s.role > 0, handler' = [handler EXCEPT ![k].role = @ - 1, ![k].publish = @ + 1]
        PROVE  HandlersAre(k, s.check, s.role - 1, s.publish + 1)
    <2>1. handler' = [handler EXCEPT ![k] = [s EXCEPT !.role = s.role - 1, !.publish = s.publish + 1]]
      BY <1>5 DEF PushesCover, Stages
    <2>2. s.role - 1 \in Nat /\ s.publish + 1 \in Nat
      BY <1>1, <1>5
    <2> HIDE DEF s
    <2>3. PICK o \in Nat, p \in Nat : o = s.role - 1 /\ p = s.publish + 1
      BY <2>2
    <2>4. handler' = [handler EXCEPT ![k] = [s EXCEPT !.role = o, !.publish = p]]
      BY <2>1, <2>3
    <2> DEFINE t == [s EXCEPT !.role = o, !.publish = p]
    <2>5. t \in Stages /\ t.check = s.check /\ t.role = o /\ t.publish = p
      BY <1>1 DEF Stages
    <2>6. handler' = [handler EXCEPT ![k] = t]
      BY <2>4
    <2> HIDE DEF t
    <2> QED BY <2>3, <2>5, <2>6 DEF HandlersAre
  <1>6. ASSUME s.publish > 0, handler' = [handler EXCEPT ![k].publish = @ - 1] PROVE HandlersAre(k, s.check, s.role, s.publish - 1)
    <2>1. handler' = [handler EXCEPT ![k] = [s EXCEPT !.publish = s.publish - 1]]
      BY <1>6
    <2>2. s.publish - 1 \in Nat
      BY <1>1, <1>6
    <2> HIDE DEF s
    <2> QED BY <1>1, <2>1, <2>2, StagePublished DEF HandlersAre
  <1> QED BY <1>2, <1>3, <1>4, <1>5, <1>6

\* The handlers of one event change: what is taken from one stage goes to the next.
LEMMA HandlerSum ==
  ASSUME PushesCover, NEW k \in Keys, NEW c \in Nat, NEW o \in Nat, NEW p \in Nat, HandlersAre(k, c, o, p),
         NEW n \in Nat, NEW more \in {0, 1}, fsPublished' = [fsPublished EXCEPT ![k] = n],
         pushes' = [pushes EXCEPT ![k[2]] = @ + more], pushes[k[2]] + more <= MaxPushes,
         c + o + p + n <= handler[k].check + handler[k].role + handler[k].publish + fsPublished[k] + more
  PROVE  PushesCover'
  <1>0. PICK h \in Stages : handler' = [handler EXCEPT ![k] = h] /\ h.check = c /\ h.role = o /\ h.publish = p
    BY DEF HandlersAre
  <1>1. k[2] \in FsEvents /\ \A j \in Keys : j[2] \in FsEvents
    BY DEF Keys
  <1>2. pushes' \in [FsEvents -> 0 .. MaxPushes] /\ \A e \in FsEvents : pushes[e] \in Nat /\ pushes'[e] \in Nat /\ pushes[e] <= pushes'[e]
    BY <1>1, FeishuAssumption DEF PushesCover
  <1>3. pushes'[k[2]] = pushes[k[2]] + more
    BY <1>1 DEF PushesCover
  <1>4. handler' \in [Keys -> Stages] /\ fsPublished' \in [Keys -> Nat] /\ handler'[k] = h /\ fsPublished'[k] = n
    BY <1>0 DEF PushesCover
  <1>5. \A j \in Keys : handler[j].check \in Nat /\ handler[j].role \in Nat /\ handler[j].publish \in Nat /\ fsPublished[j] \in Nat
    BY DEF PushesCover, Stages
  <1>6. h.check \in Nat /\ h.role \in Nat /\ h.publish \in Nat
    BY <1>0
  <1>7. ASSUME NEW j \in Keys PROVE handler'[j].check + handler'[j].role + handler'[j].publish + fsPublished'[j] <= pushes'[j[2]]
    <2>1. CASE j = k
      <3>1. handler[k].check + handler[k].role + handler[k].publish + fsPublished[k] <= pushes[k[2]]
        BY DEF PushesCover
      <3> QED BY <1>0, <1>1, <1>2, <1>3, <1>4, <1>5, <1>6, <2>1, <3>1
    <2>2. CASE j # k
      <3>1. handler'[j] = handler[j] /\ fsPublished'[j] = fsPublished[j]
        BY <1>0, <2>2 DEF PushesCover
      <3>2. handler[j].check + handler[j].role + handler[j].publish + fsPublished[j] <= pushes[j[2]]
        BY DEF PushesCover
      <3> QED BY <1>1, <1>2, <1>5, <3>1, <3>2
    <2> QED BY <2>1, <2>2
  <1> QED BY <1>2, <1>4, <1>7 DEF PushesCover

\* The handlers of a connection end.
LEMMA HandlersEnd ==
  ASSUME PushesCover, NEW l \in Links, UNCHANGED pushes, fsPublished' \in [Keys -> Nat],
         \A k \in Keys : fsPublished'[k] <= fsPublished[k],
         handler' = [k \in Links \X FsEvents |-> IF k[1] = l THEN NoHandlers ELSE handler[k]]
  PROVE  PushesCover'
  <1>1. handler' \in [Keys -> Stages]
    BY NoStages DEF PushesCover, Keys
  <1>2. \A j \in Keys : handler[j].check \in Nat /\ handler[j].role \in Nat /\ handler[j].publish \in Nat
                        /\ fsPublished[j] \in Nat /\ fsPublished'[j] \in Nat /\ pushes[j[2]] \in Nat
    BY FeishuAssumption DEF PushesCover, Stages, Keys
  <1>3. ASSUME NEW j \in Keys PROVE handler'[j].check + handler'[j].role + handler'[j].publish + fsPublished'[j] <= pushes'[j[2]]
    <2>1. handler'[j] = handler[j] \/ handler'[j] = NoHandlers
      BY DEF Keys
    <2>2. handler[j].check + handler[j].role + handler[j].publish + fsPublished[j] <= pushes[j[2]]
      BY DEF PushesCover
    <2> QED BY <1>2, <2>1, <2>2, NoStages
  <1> QED BY <1>1, <1>3 DEF PushesCover

\* What is neither counted nor sent: the roles a connection has cached, the events it lost, and the bounds.
FeishuRest ==
  /\ roleCached \subseteq Links /\ abandoned \cup earlier \subseteq FsEvents
  /\ fsDrops \in 0 .. MaxFsDrops /\ fsStarts \in 0 .. MaxFsStarts
BeatIsKnown == fsBeat \in BOOLEAN

\* Every step of the subscriptions and their handlers keeps the count.
LEMMA PushesCoverStep == FeishuInv /\ PushesCover /\ [FeishuNext]_feishuVars => PushesCover'
  <1> SUFFICES ASSUME FeishuInv, PushesCover, [FeishuNext]_feishuVars PROVE PushesCover'
    OBVIOUS
  <1>0. ASSUME UNCHANGED <<handler, pushes, fsPublished>> PROVE PushesCover'
    BY <1>0 DEF PushesCover
  <1>1. CASE Respawn
    <2>1. PICK l \in Links :
            /\ link[l].at = "off" /\ UNCHANGED <<handler, pushes>>
            /\ fsPublished' = [k \in Keys |-> IF k[1] = l THEN 0 ELSE fsPublished[k]]
      BY <1>1 DEF Respawn, Keys
    <2>2. fsPublished' \in [Keys -> Nat] /\ \A k \in Keys : fsPublished'[k] <= fsPublished[k]
      BY <2>1 DEF PushesCover
    <2>3. handler' = [k \in Links \X FsEvents |-> IF k[1] = l THEN NoHandlers ELSE handler[k]]
      <3>1. \A k \in Keys : k[1] = l => handler[k] = NoHandlers
        BY <2>1 DEF FeishuInv, HandlersAreLive
      <3> QED BY <2>1, <3>1 DEF PushesCover, Keys
    <2> QED BY <2>1, <2>2, <2>3, HandlersEnd
  <1>2. CASE \E l \in Links : Stop(l) \/ OnDisconnected(l)
    <2>1. PICK l \in Links : DropHandlers(l) /\ UNCHANGED <<pushes, fsPublished>>
      BY <1>2 DEF Stop, OnDisconnected
    <2>2. fsPublished' \in [Keys -> Nat] /\ \A k \in Keys : fsPublished'[k] <= fsPublished[k]
      BY <2>1 DEF PushesCover
    <2> QED BY <2>1, <2>2, HandlersEnd DEF DropHandlers
  <1>3. CASE Liveness \/ \E l \in Links : OnReady(l) \/ ChatUpdated(l)
    BY <1>0, <1>3 DEF Liveness, OnReady, ChatUpdated
  <1>4. CASE \E l \in Links, e \in FsEvents : Push(l, e) \/ FsHandlerStep(l, e)
    <2> PICK l \in Links, e \in FsEvents : Push(l, e) \/ FsHandlerStep(l, e)
      BY <1>4
    <2> DEFINE k == <<l, e>>
    <2>1. k \in Keys /\ k[2] = e
      BY KeyPairs
    <2> HIDE DEF k
    <2>2. handler[k] \in Stages /\ handler[k].check \in Nat /\ handler[k].role \in Nat /\ handler[k].publish \in Nat /\ fsPublished[k] \in Nat
      BY <2>1, StageFields DEF PushesCover
    <2>3. pushes[e] \in 0 .. MaxPushes /\ pushes[e] \in Nat /\ pushes[e] + 0 <= MaxPushes /\ pushes = [pushes EXCEPT ![e] = @ + 0]
      BY FeishuAssumption DEF PushesCover
    <2>4. fsPublished = [fsPublished EXCEPT ![k] = fsPublished[k]]
      BY <2>1 DEF PushesCover
    <2>5. handler[k].check + handler[k].role + handler[k].publish + fsPublished[k] <= pushes[e]
      BY <2>1 DEF PushesCover
    <2> DEFINE h == handler[k]
    <2>6. CASE Push(l, e)
      <3>1. HandlersAre(k, h.check + 1, h.role, h.publish)
        BY <2>1, <2>6, HandlersGoOn DEF Push, k
      <3>2. pushes' = [pushes EXCEPT ![e] = @ + 1] /\ pushes[e] + 1 <= MaxPushes /\ fsPublished' = fsPublished
        BY <2>3, <2>6, FeishuAssumption DEF Push
      <3>3. pushes' = [pushes EXCEPT ![k[2]] = @ + 1] /\ pushes[k[2]] + 1 <= MaxPushes /\ fsPublished' = [fsPublished EXCEPT ![k] = fsPublished[k]]
        BY <2>1, <2>4, <3>2
      <3>4. h.check + 1 \in Nat /\ h.check + 1 + h.role + h.publish + fsPublished[k] <= h.check + h.role + h.publish + fsPublished[k] + 1
        BY <2>2
      <3> HIDE DEF h
      <3> QED BY <2>1, <2>2, <3>1, <3>3, <3>4, HandlerSum DEF h
    <2>7. CASE CheckAndRecord(l, e)
      <3>1. HandlersAre(k, h.check - 1, h.role, h.publish) \/ HandlersAre(k, h.check - 1, h.role + 1, h.publish)
        BY <2>1, <2>7, HandlersGoOn DEF CheckAndRecord, k
      <3>2. UNCHANGED <<pushes, fsPublished>> /\ h.check > 0
        BY <2>7 DEF CheckAndRecord, k
      <3>3. h.check - 1 \in Nat /\ h.role + 1 \in Nat
        BY <2>2, <3>2
      <3>4. /\ h.check - 1 + h.role + h.publish + fsPublished[k] <= h.check + h.role + h.publish + fsPublished[k] + 0
            /\ h.check - 1 + (h.role + 1) + h.publish + fsPublished[k] <= h.check + h.role + h.publish + fsPublished[k] + 0
        BY <2>2
      <3> QED BY <2>1, <2>2, <2>3, <2>4, <3>1, <3>2, <3>3, <3>4, HandlerSum
    <2>8. CASE ResolveRole(l, e)
      <3>1. HandlersAre(k, h.check, h.role - 1, h.publish + 1)
        BY <2>1, <2>8, HandlersGoOn DEF ResolveRole, k
      <3>2. UNCHANGED <<pushes, fsPublished>> /\ h.role > 0
        BY <2>8 DEF ResolveRole, k
      <3>3. h.role - 1 \in Nat /\ h.publish + 1 \in Nat
        BY <2>2, <3>2
      <3>4. h.check + (h.role - 1) + (h.publish + 1) + fsPublished[k] <= h.check + h.role + h.publish + fsPublished[k] + 0
        BY <2>2
      <3> QED BY <2>1, <2>2, <2>3, <2>4, <3>1, <3>2, <3>3, <3>4, HandlerSum
    <2>9. CASE HandleMessage(l, e)
      <3>1. HandlersAre(k, h.check, h.role, h.publish - 1)
        BY <2>1, <2>9, HandlersGoOn DEF HandleMessage, k
      <3>2. UNCHANGED pushes /\ h.publish > 0
        BY <2>9 DEF HandleMessage, k
      <3>3. PICK n \in {fsPublished[k], fsPublished[k] + 1} : fsPublished' = [fsPublished EXCEPT ![k] = n]
        BY <2>4, <2>9 DEF HandleMessage, k
      <3>4. h.publish - 1 \in Nat /\ n \in Nat /\ h.check + h.role + (h.publish - 1) + n <= h.check + h.role + h.publish + fsPublished[k] + 0
        BY <2>2, <3>2, <3>3
      <3> QED BY <2>1, <2>2, <2>3, <3>1, <3>2, <3>3, <3>4, HandlerSum
    <2> QED BY <2>6, <2>7, <2>8, <2>9 DEF FsHandlerStep
  <1>5. CASE \E l \in Links, e \in FsEvents : ForgetEvent(l, e)
    BY <1>0, <1>5 DEF ForgetEvent
  <1>6. CASE UNCHANGED feishuVars
    BY <1>0, <1>6 DEF feishuVars
  <1> QED BY <1>1, <1>2, <1>3, <1>4, <1>5, <1>6 DEF FeishuNext

\* The types of the variables of the subscriptions: FeishuTypeOK.
LEMMA FeishuKeepsTypes == FeishuSpec => []FeishuTypeOK
  <1>1. FeishuInit => PushesCover /\ FeishuRest
    <2> SUFFICES ASSUME FeishuInit PROVE PushesCover /\ FeishuRest
      OBVIOUS
    <2>1. PushesCover
      BY NoStages, FeishuAssumption, KeyPairs DEF FeishuInit, PushesCover, Keys
    <2>2. FeishuRest
      BY FeishuAssumption DEF FeishuInit, FeishuRest
    <2> QED BY <2>1, <2>2
  <1>2. FeishuRest /\ [FeishuNext]_feishuVars => FeishuRest'
    <2> SUFFICES ASSUME FeishuRest, [FeishuNext]_feishuVars PROVE FeishuRest'
      OBVIOUS
    <2> USE FeishuAssumption DEF FeishuRest
    <2>1. CASE Respawn
      <3>1. fsStarts < MaxFsStarts /\ fsStarts' = fsStarts + 1 /\ UNCHANGED <<abandoned, fsDrops>>
        BY <2>1 DEF Respawn
      <3>2. PICK l \in Links : earlier' = earlier \cup {e \in FsEvents : fsPublished[<<l, e>>] > 0} /\ roleCached' = roleCached \ {l}
        BY <2>1 DEF Respawn
      <3>3. earlier' \subseteq FsEvents /\ roleCached' \subseteq Links
        BY <3>2
      <3> QED BY <3>1, <3>3
    <2>7. CASE Liveness
      BY <2>7 DEF Liveness
    <2>2. CASE \E l \in Links : Stop(l) \/ OnDisconnected(l)
      <3>1. /\ UNCHANGED <<roleCached, earlier, fsStarts>>
            /\ UNCHANGED fsDrops \/ (fsDrops < MaxFsDrops /\ fsDrops' = fsDrops + 1)
        BY <2>2 DEF Stop, OnDisconnected
      <3>2. PICK l \in Links : abandoned' = abandoned \cup Dropped(l)
        BY <2>2 DEF Stop, OnDisconnected, DropHandlers
      <3>3. abandoned' \subseteq FsEvents
        BY <3>2 DEF Dropped
      <3> QED BY <3>1, <3>3
    <2>3. CASE \E l \in Links : OnReady(l) \/ ChatUpdated(l)
      BY <2>3 DEF OnReady, ChatUpdated
    <2>4. CASE \E l \in Links, e \in FsEvents : Push(l, e) \/ ForgetEvent(l, e)
      BY <2>4 DEF Push, ForgetEvent
    <2>5. CASE \E l \in Links, e \in FsEvents : FsHandlerStep(l, e)
      BY <2>5 DEF FsHandlerStep, CheckAndRecord, ResolveRole, HandleMessage
    <2>6. CASE UNCHANGED feishuVars
      BY <2>6 DEF feishuVars
    <2> QED BY <2>1, <2>2, <2>3, <2>4, <2>5, <2>6, <2>7 DEF FeishuNext
  <1>3. FeishuInit => BeatIsKnown
    BY Zenon DEF FeishuInit, BeatIsKnown
  <1>4. BeatIsKnown /\ [FeishuNext]_feishuVars => BeatIsKnown'
    <2> SUFFICES ASSUME BeatIsKnown, [FeishuNext]_feishuVars PROVE BeatIsKnown'
      OBVIOUS
    <2>1. CASE fsBeat' = fsBeat
      BY <2>1, Zenon DEF BeatIsKnown
    <2>2. CASE fsBeat' = TRUE
      BY <2>2, Zenon DEF BeatIsKnown
    <2>3. CASE Liveness
      BY <2>3, Zenon DEF Liveness, BeatIsKnown
    <2>4. \/ Liveness \/ fsBeat' = fsBeat \/ fsBeat' = TRUE
      <3>1. ASSUME NEW l \in Links, Stop(l) \/ OnReady(l) \/ OnDisconnected(l) \/ ChatUpdated(l) PROVE fsBeat' = fsBeat \/ fsBeat' = TRUE
        BY <3>1, Zenon DEF Stop, OnReady, OnDisconnected, ChatUpdated
      <3>2. ASSUME NEW l \in Links, NEW e \in FsEvents, Push(l, e) \/ FsHandlerStep(l, e) \/ ForgetEvent(l, e) PROVE fsBeat' = fsBeat \/ fsBeat' = TRUE
        BY <3>2, Zenon DEF Push, FsHandlerStep, CheckAndRecord, ResolveRole, HandleMessage, ForgetEvent
      <3> QED BY <3>1, <3>2, Zenon DEF FeishuNext, Respawn, feishuVars
    <2> QED BY <2>1, <2>2, <2>3, <2>4
  <1>5. FeishuInv /\ PushesCover /\ FeishuRest /\ BeatIsKnown => FeishuTypeOK
    <2> SUFFICES ASSUME FeishuInv, PushesCover, FeishuRest, BeatIsKnown PROVE FeishuTypeOK
      OBVIOUS
    <2>1. ASSUME NEW k \in Keys
          PROVE  /\ handler[k] \in [check : 0 .. MaxPushes, role : 0 .. MaxPushes, publish : 0 .. MaxPushes]
                 /\ fsPublished[k] \in 0 .. MaxPushes
      <3>1. handler[k] \in Stages /\ fsPublished[k] \in Nat /\ pushes[k[2]] \in 0 .. MaxPushes
        BY KeyPairs DEF PushesCover
      <3>2. handler[k].check + handler[k].role + handler[k].publish + fsPublished[k] <= pushes[k[2]]
        BY DEF PushesCover
      <3>3. handler[k].check \in Nat /\ handler[k].role \in Nat /\ handler[k].publish \in Nat
        BY <3>1, StageFields
      <3>4. handler[k].check <= MaxPushes /\ handler[k].role <= MaxPushes /\ handler[k].publish <= MaxPushes /\ fsPublished[k] <= MaxPushes
        BY <3>1, <3>2, <3>3, FeishuAssumption
      <3> QED BY <3>1, <3>3, <3>4, FeishuAssumption DEF Stages
    <2>2. handler \in [Keys -> [check : 0 .. MaxPushes, role : 0 .. MaxPushes, publish : 0 .. MaxPushes]] /\ fsPublished \in [Keys -> 0 .. MaxPushes]
      BY <2>1 DEF PushesCover
    <2>3. pushes \in [FsEvents -> 0 .. MaxPushes]
      BY DEF PushesCover
    <2>4. /\ link \in [Links -> [at : {"off", "connecting", "up", "down"}, cancelled : BOOLEAN]]
          /\ seen \in [Links -> SUBSET FsEvents] /\ acked \subseteq FsEvents
      BY DEF FeishuInv, FeishuTypes
    <2> QED BY <2>2, <2>3, <2>4, Zenon DEF FeishuRest, BeatIsKnown, FeishuTypeOK, Keys
  <1> QED BY <1>1, <1>2, <1>3, <1>4, <1>5, PushesCoverStep, FeishuStarts, FeishuInvStep, PTL DEF FeishuSpec

-----------------------------------------------------------------------------
(* The calls that send, and what an adapter makes of the answers to them         *)
(* (PlatformSends).                                                          *)
SendsSpec == SendsInit /\ [][SendsNext]_sendsVars

\* The platforms a call goes to, and the requests one can be waiting for.
SendPlatforms == {"telegram", "discord", "feishu", "qq", "wechat"}
RequestStages == {"post", "fetch", "store", "place", "about", "file"}
\* What a call carries, and what an adapter can make of an answer to it.
CallRecord ==
  [p : SendPlatforms, op : {"text", "interactive", "media", "group", "draft", "edit", "delete"},
   at : RequestStages \cup {"returned"}, reply : {"none", "ok", "fail", "err"}, again : BOOLEAN,
   source : {"url", "data", "none"}, kind : {"channel", "group", "user"},
   end : {"direct", "channel", "group", "user"}, ends : Seq({"group", "user"}),
   body : {"text", "image", "markdown"}, last : {"raise", "image", "markdown"},
   text : BOOLEAN, ctx : BOOLEAN, tried : BOOLEAN]
AnswerOutcomes ==
  [at : RequestStages \cup {"returned", "image", "markdown", "regroup", "next"},
   end : {"same", "group", "user"}, reply : {"none", "ok", "fail", "err"}, again : BOOLEAN,
   event : {"none", "sent", "failed"}]

\* Where a call of an operation can be.
StagesOf(p, op) ==
  CASE p = "qq" /\ op = "media" -> {"post", "fetch", "store", "about", "file"}
    [] p = "discord" /\ op = "media" -> {"post", "fetch"}
    [] p = "feishu" /\ op = "media" -> {"post", "fetch", "store"}
    [] p = "wechat" /\ op = "media" -> {"post", "fetch", "place", "store"}
    [] OTHER -> {"post"}
\* Only a file of QQ is sent again after it may have arrived.
MayRepeat == call.p = "qq" /\ call.op = "media" /\ doubt
\* A call that still waits for a request has told nobody anything, and nothing of
\* it has arrived yet, unless it may be sent again.
SendsInv ==
  /\ call \in CallRecord /\ call.op \in Ops[call.p] /\ posted \in Nat
  /\ call.at \in StagesOf(call.p, call.op) \cup {"returned"}
  /\ call.at # "returned" => told = "none" /\ (posted = 0 \/ MayRepeat)
  /\ RepliesMatchTheChat

\* What the adapter makes of an answer: a reply that says what became of the
\* message, or another request, which follows an arrival only in a file of QQ.
Honest(o, a) ==
  /\ o \in AnswerOutcomes
  /\ o.at = "returned" =>
       /\ o.end = "same"
       /\ call.op \in Texts2 => o.event = IF o.reply = "ok" THEN "sent" ELSE "failed"
       /\ o.event = "sent" => o.reply = "ok" /\ Posts /\ a \in Arrives
  /\ o.at # "returned" =>
       /\ Posts /\ a \in Arrives => call.p = "qq" /\ call.op = "media" /\ a # "done"
       /\ o.at \in StagesOf(call.p, call.op) \cup {"image", "markdown", "regroup", "next"}
       /\ o.at \in {"image", "markdown", "regroup", "next"} => call.p = "qq" /\ call.op = "media"
       /\ o.at = "next" => Len(call.ends) > 1
       /\ o.end # "same" => o.at = "post"

\* The five ways to end the handling of an answer: another request, success, a
\* failure, an error, and a call that answers without an event.
LEMMA OutcomeTo ==
  ASSUME NEW s \in RequestStages \cup {"returned", "image", "markdown", "regroup", "next"}
  PROVE  To(s) \in AnswerOutcomes /\ To(s).at = s /\ To(s).end = "same" /\ To(s).event = "none" /\ To(s).reply = "none"
  BY DEF To, AnswerOutcomes

\* The message arrived.
LEMMA OutcomeSent ==
  Sent \in AnswerOutcomes /\ Sent.at = "returned" /\ Sent.end = "same" /\ Sent.reply = "ok" /\ Sent.event = "sent"
  BY DEF Sent, To, AnswerOutcomes

\* The platform refused it, or nothing is known.
LEMMA OutcomeFailed ==
  ASSUME NEW b \in BOOLEAN
  PROVE  Failed(b) \in AnswerOutcomes /\ Failed(b).at = "returned" /\ Failed(b).end = "same" /\ Failed(b).reply = "fail" /\ Failed(b).event = "failed"
  BY DEF Failed, To, AnswerOutcomes

\* An error the caller sees.
LEMMA OutcomeRaised ==
  ASSUME NEW e \in {"none", "failed"}
  PROVE  Raised(e) \in AnswerOutcomes /\ Raised(e).at = "returned" /\ Raised(e).end = "same" /\ Raised(e).reply = "err" /\ Raised(e).event = e
  BY DEF Raised, To, AnswerOutcomes

\* An operation that reports no event.
LEMMA OutcomeQuiet ==
  ASSUME NEW a
  PROVE  Quiet(a) \in AnswerOutcomes /\ Quiet(a).at = "returned" /\ Quiet(a).end = "same" /\ Quiet(a).event = "none"
  BY DEF Quiet, To, AnswerOutcomes

\* Each of those five is honest when it is used for the answers it is meant for.
LEMMA HonestTo ==
  ASSUME NEW a, NEW s \in StagesOf(call.p, call.op), Posts /\ a \in Arrives => call.p = "qq" /\ call.op = "media" /\ a # "done"
  PROVE  Honest(To(s), a)
  <1>1. s \in RequestStages
    BY DEF StagesOf, RequestStages
  <1>2. To(s) \in AnswerOutcomes /\ To(s).at = s /\ To(s).end = "same"
    BY <1>1, OutcomeTo
  <1>3. s # "returned" /\ s \notin {"image", "markdown", "regroup", "next"}
    BY <1>1 DEF RequestStages
  <1> QED BY <1>2, <1>3 DEF Honest

\* Success, after an arrival.
LEMMA HonestSent ==
  ASSUME NEW a, Posts, a \in Arrives
  PROVE  Honest(Sent, a)
  BY OutcomeSent DEF Honest

\* A failure.
LEMMA HonestFailed ==
  ASSUME NEW a, NEW b \in BOOLEAN
  PROVE  Honest(Failed(b), a)
  BY OutcomeFailed DEF Honest

\* An error, with its event where one is due.
LEMMA HonestRaised ==
  ASSUME NEW a, NEW e \in {"none", "failed"}, call.op \in Texts2 => e = "failed"
  PROVE  Honest(Raised(e), a)
  BY OutcomeRaised DEF Honest

\* An answer without an event.
LEMMA HonestQuiet ==
  ASSUME NEW a, NEW b, call.op \notin Texts2
  PROVE  Honest(Quiet(b), a)
  BY OutcomeQuiet DEF Honest

\* Telegram: a message, a media message of one request, an album, a draft or edit.
LEMMA TelegramHonest ==
  ASSUME SendsInv, call.at # "returned", call.p = "telegram", NEW a \in Answers
  PROVE  Honest(Handle(a), a)
  <1>1. call.at = "post" /\ call.op \in {"text", "interactive", "media", "group", "draft", "edit", "delete"}
    BY DEF SendsInv, StagesOf, Ops
  <1>2. ASSUME call.op \notin {"edit", "delete"} PROVE Honest(TelegramSend(a), a)
    <2>1. a = "done" => Honest(Sent, a)
      BY <1>1, <1>2, HonestSent DEF Posts, Arrives
    <2> QED BY <2>1, HonestFailed DEF TelegramSend, TelegramCall
  <1>3. ASSUME call.op \in {"media", "group"} PROVE Honest(TelegramForm(a), a)
    <2>1. Honest(Raised("failed"), a) /\ Honest(Raised("none"), a)
      BY <1>3, HonestRaised DEF Texts2
    <2>2. Honest(TelegramSend(a), a)
      BY <1>2, <1>3
    <2> QED BY <2>1, <2>2 DEF TelegramForm, NoAnswer
  <1>4. CASE call.op \in {"text", "interactive"}
    <2>1. Handle(a) = TelegramSend(a)
      BY <1>4 DEF Handle, TelegramInteractive
    <2> QED BY <1>2, <1>4, <2>1
  <1>5. CASE call.op = "media"
    <2>1. Handle(a) = TelegramMedia(a)
      BY <1>5 DEF Handle
    <2>2. Honest(Failed(FALSE), a)
      BY HonestFailed
    <2> QED BY <1>2, <1>3, <1>5, <2>1, <2>2 DEF TelegramMedia
  <1>6. CASE call.op = "group"
    <2>1. Handle(a) = TelegramGroup(a)
      BY <1>6 DEF Handle
    <2>2. Honest(Raised("none"), a)
      BY <1>6, HonestRaised DEF Texts2
    <2>3. a = "empty" => Honest(Sent, a)
      BY <1>1, <1>6, HonestSent DEF Posts, Arrives
    <2>4. Honest(TelegramAlbum(a), a)
      BY <1>3, <1>6, <2>3 DEF TelegramAlbum
    <2> QED BY <1>2, <1>6, <2>1, <2>2, <2>4 DEF TelegramGroup
  <1>7. CASE call.op \in {"draft", "edit", "delete"}
    <2>1. Handle(a) = Quiet(a)
      BY <1>7 DEF Handle, TelegramDraft, TelegramEdit, TelegramDelete
    <2> QED BY <1>7, <2>1, HonestQuiet DEF Texts2
  <1> QED BY <1>1, <1>4, <1>5, <1>6, <1>7

\* Discord: a message, an upload after the download of its file, an edit.
LEMMA DiscordHonest ==
  ASSUME SendsInv, call.at # "returned", call.p = "discord", NEW a \in Answers
  PROVE  Honest(Handle(a), a)
  <1>1. call.op \in {"text", "interactive", "media", "draft", "edit", "delete"}
    BY DEF SendsInv, Ops
  <1>2. call.at \in {"post", "fetch"} /\ (call.op # "media" => call.at = "post")
    BY DEF SendsInv, StagesOf
  <1>3. CASE call.op \in {"text", "interactive"}
    <2>1. Handle(a) = DiscordSend(a)
      BY <1>3 DEF Handle, DiscordInteractive
    <2>2. a = "done" => Honest(Sent, a)
      BY <1>2, <1>3, HonestSent DEF Posts, Arrives
    <2>3. DiscordTransient(a) \in BOOLEAN
      BY DEF DiscordTransient
    <2>4. Honest(Failed(DiscordTransient(a)), a)
      BY <2>3, HonestFailed
    <2> QED BY <2>1, <2>2, <2>4 DEF DiscordSend
  <1>4. CASE call.op = "media"
    <2>1. Handle(a) = DiscordMedia(a) /\ Honest(Raised("none"), a)
      BY <1>4, HonestRaised DEF Handle, Texts2
    <2>2. CASE call.at = "fetch"
      <3>1. Honest(To("post"), a)
        BY <1>4, <2>2, HonestTo DEF StagesOf, Posts
      <3>2. (call.source = "url" /\ a \in NoAnswer) \in BOOLEAN
        OBVIOUS
      <3>3. Honest(Failed(call.source = "url" /\ a \in NoAnswer), a)
        BY <3>2, HonestFailed
      <3> QED BY <2>1, <2>2, <3>1, <3>3 DEF DiscordMedia, DiscordFetch
    <2>3. CASE call.at = "post"
      <3>1. a = "done" => Honest(Sent, a)
        BY <1>4, <2>3, HonestSent DEF Posts, Arrives
      <3>2. (a \in {"lost", "dropped", "limited"}) \in BOOLEAN
        OBVIOUS
      <3>3. Honest(Failed(a \in {"lost", "dropped", "limited"}), a)
        BY <3>2, HonestFailed
      <3> QED BY <2>1, <2>3, <3>1, <3>3 DEF DiscordMedia, DiscordUpload
    <2> QED BY <1>2, <2>2, <2>3
  <1>5. CASE call.op \in {"draft", "edit", "delete"}
    <2>1. Handle(a) = Quiet(a) \/ Handle(a) = Raised("none")
      BY <1>5 DEF Handle, DiscordDraft, DiscordEdit, DiscordDelete
    <2>2. Honest(Quiet(a), a) /\ Honest(Raised("none"), a)
      BY <1>5, HonestQuiet, HonestRaised DEF Texts2
    <2> QED BY <2>1, <2>2
  <1> QED BY <1>1, <1>3, <1>4, <1>5

\* Feishu: a message, a download followed by a store and a message.
LEMMA FeishuHonest ==
  ASSUME SendsInv, call.at # "returned", call.p = "feishu", NEW a \in Answers
  PROVE  Honest(Handle(a), a)
  <1>1. call.op \in {"text", "interactive", "media", "edit", "delete"}
    BY DEF SendsInv, Ops
  <1>2. call.at \in {"post", "fetch", "store"} /\ (call.op # "media" => call.at = "post")
    BY DEF SendsInv, StagesOf
  <1>3. ASSUME call.op \in {"text", "interactive", "media"}, call.at = "post" PROVE Honest(FeishuSend(a), a)
    <2>1. a = "done" => Honest(Sent, a)
      BY <1>3, HonestSent DEF Posts, Arrives
    <2> QED BY <2>1, HonestFailed DEF FeishuSend, FeishuCall
  <1>4. CASE call.op \in {"text", "interactive"}
    <2>1. Handle(a) = FeishuSend(a)
      BY <1>4 DEF Handle, FeishuInteractive
    <2> QED BY <1>2, <1>3, <1>4, <2>1
  <1>5. CASE call.op = "media"
    <2>1. Handle(a) = FeishuMedia(a) /\ Honest(Raised("none"), a)
      BY <1>5, HonestRaised DEF Handle, Texts2
    <2>2. CASE call.at = "fetch"
      <3>1. Honest(To("store"), a)
        BY <1>5, <2>2, HonestTo DEF StagesOf, Posts
      <3> QED BY <2>1, <2>2, <3>1 DEF FeishuMedia, FeishuFetch
    <2>3. CASE call.at = "store"
      <3>1. Honest(To("post"), a)
        BY <1>5, <2>3, HonestTo DEF StagesOf, Posts
      <3> QED BY <2>1, <2>3, <3>1 DEF FeishuMedia, FeishuStore
    <2>4. CASE call.at = "post"
      BY <1>3, <1>5, <2>1, <2>4 DEF FeishuMedia
    <2> QED BY <1>2, <2>2, <2>3, <2>4
  <1>6. CASE call.op \in {"edit", "delete"}
    <2>1. Handle(a) = Quiet(a) \/ Handle(a) = Raised("none")
      BY <1>6 DEF Handle, FeishuEdit, FeishuDelete
    <2>2. Honest(Quiet(a), a) /\ Honest(Raised("none"), a)
      BY <1>6, HonestQuiet, HonestRaised DEF Texts2
    <2> QED BY <2>1, <2>2
  <1> QED BY <1>1, <1>4, <1>5, <1>6

\* WeChat: a message, a download followed by a place, a store and a message.
LEMMA WechatHonest ==
  ASSUME SendsInv, call.at # "returned", call.p = "wechat", NEW a \in Answers
  PROVE  Honest(Handle(a), a)
  <1>1. call.op \in {"text", "media"}
    BY DEF SendsInv, Ops
  <1>2. call.at \in {"post", "fetch", "place", "store"} /\ (call.op # "media" => call.at = "post")
    BY DEF SendsInv, StagesOf
  <1>3. ASSUME call.at = "post" PROVE Honest(WechatSend(a), a)
    <2>1. a \in {"done", "empty"} => Honest(Sent, a)
      BY <1>1, <1>3, HonestSent DEF Posts, Arrives
    <2>2. Honest(Failed(FALSE), a) /\ Honest(Raised("failed"), a)
      BY HonestFailed, HonestRaised
    <2> QED BY <2>1, <2>2 DEF WechatSend
  <1>4. CASE call.op = "text"
    <2>1. Handle(a) = WechatSend(a)
      BY <1>4 DEF Handle
    <2> QED BY <1>2, <1>3, <1>4, <2>1
  <1>5. CASE call.op = "media"
    <2>1. Handle(a) = WechatMedia(a) /\ Honest(Raised("none"), a)
      BY <1>5, HonestRaised DEF Handle, Texts2
    <2>2. CASE call.at # "post"
      <3>1. Honest(To("place"), a) /\ Honest(To("store"), a) /\ Honest(To("post"), a)
        <4>1. ~Posts /\ {"place", "store", "post"} \subseteq StagesOf(call.p, call.op)
          BY <1>2, <1>5, <2>2 DEF StagesOf, Posts
        <4> QED BY <4>1, HonestTo
      <3> QED BY <1>2, <2>1, <2>2, <3>1 DEF WechatMedia, WechatFetch, WechatPlace, WechatStore
    <2>3. CASE call.at = "post"
      BY <1>3, <2>1, <2>3 DEF WechatMedia, WechatMediaSent
    <2> QED BY <2>2, <2>3
  <1> QED BY <1>1, <1>4, <1>5

\* QQ: a message tried on the channel, the group and the user; a file that falls
\* back on an image or a link.
LEMMA QqHonest ==
  ASSUME SendsInv, call.at # "returned", call.p = "qq", NEW a \in Answers
  PROVE  Honest(Handle(a), a)
  <1>1. call.op \in {"text", "interactive", "media", "edit", "delete"}
    BY DEF SendsInv, Ops
  <1>2. call.at \in {"post", "fetch", "store", "about", "file"} /\ (call.op # "media" => call.at = "post")
    BY DEF SendsInv, StagesOf
  <1>3. ASSUME a = "missing" /\ call.end \in DOMAIN QqNext, call.at = "post" PROVE Honest(QqTry(a), a)
    <2>1. PICK e \in {"group", "user"} : e = QqNext[call.end]
      BY <1>3 DEF QqNext
    <2>2. PICK o \in AnswerOutcomes : o = To("post") /\ o.at = "post"
      BY OutcomeTo DEF RequestStages
    <2>3. [o EXCEPT !.end = e] \in AnswerOutcomes /\ [o EXCEPT !.end = e].at = "post"
      BY <2>2 DEF AnswerOutcomes
    <2>4. QqTry(a) = [o EXCEPT !.end = e]
      BY <1>3, <2>1, <2>2 DEF QqTry
    <2>5. "post" \in StagesOf(call.p, call.op) /\ a \notin Arrives
      BY <1>3 DEF StagesOf, Arrives
    <2> QED BY <2>3, <2>4, <2>5 DEF Honest
  <1>4. ASSUME call.op \in {"text", "interactive", "media"}, call.at = "post" PROVE Honest(QqTry(a), a)
    <2>1. a = "done" => Honest(Sent, a)
      BY <1>4, HonestSent DEF Posts, Arrives
    <2>2. Honest(Failed(TRUE), a)
      BY HonestFailed
    <2> QED BY <1>3, <1>4, <2>1, <2>2 DEF QqTry
  <1>5. CASE call.op \in {"text", "interactive"}
    <2>1. Handle(a) = QqTry(a)
      BY <1>5 DEF Handle, QqSend, QqInteractive
    <2> QED BY <1>2, <1>4, <1>5, <2>1
  <1>6. CASE call.op = "edit"
    <2>1. Handle(a) = Quiet("refused") \/ Handle(a) = Quiet(a)
      BY <1>6 DEF Handle, QqEdit
    <2> QED BY <1>6, <2>1, HonestQuiet DEF Texts2
  <1>7. CASE call.op = "delete"
    <2>1. Handle(a) = QqDelete(a) /\ Honest(Quiet(a), a)
      BY <1>7, HonestQuiet DEF Handle, Texts2
    <2>2. QqTry(a).reply = "none" => a = "missing" /\ call.end \in DOMAIN QqNext
      BY OutcomeSent, OutcomeFailed DEF QqTry
    <2> QED BY <1>2, <1>3, <1>7, <2>1, <2>2 DEF QqDelete
  <1>8. CASE call.op = "media"
    <2>0. Handle(a) = QqMedia(a) /\ Honest(Raised("none"), a)
      BY <1>8, HonestRaised DEF Handle, Texts2
    <2>1. ASSUME NEW s \in {"image", "markdown", "regroup", "next"}, Posts /\ a \in Arrives => a # "done",
                 s = "next" => Len(call.ends) > 1
          PROVE  Honest(To(s), a)
      <3>1. To(s) \in AnswerOutcomes /\ To(s).at = s /\ To(s).end = "same"
        BY OutcomeTo
      <3> QED BY <1>8, <2>1, <3>1 DEF Honest
    <2>2. ASSUME NEW s \in {"post", "fetch", "store", "about", "file"}, Posts /\ a \in Arrives => a # "done"
          PROVE  Honest(To(s), a)
      BY <1>8, <2>2, HonestTo DEF StagesOf
    <2>3. call.last \in {"raise", "image", "markdown"}
      BY DEF SendsInv, CallRecord
    <2>4. CASE call.at = "fetch"
      <3>1. ~Posts
        BY <2>4 DEF Posts
      <3>2. Honest(To("store"), a) /\ Honest(To("file"), a) /\ Honest(To("image"), a) /\ Honest(To("markdown"), a)
        BY <2>1, <2>2, <3>1
      <3> QED BY <2>0, <2>3, <2>4, <3>2 DEF QqMedia, QqFetch
    <2>5. CASE call.at = "post"
      <3>1. a # "done" => Honest(To("regroup"), a) /\ Honest(To("image"), a)
        BY <2>1
      <3>2. Honest(QqTry(a), a)
        BY <1>4, <1>8, <2>5
      <3> QED BY <2>0, <2>5, <3>1, <3>2 DEF QqMedia, QqImage
    <2>6. CASE call.at \in {"store", "about", "file"}
      <3>1. Handle(a) = QqUpload(a)
        BY <2>0, <2>6 DEF QqMedia
      <3>2. a = "done" /\ call.at = "store" => Honest(To("about"), a)
        BY <2>2 DEF Posts
      <3>3. a = "done" /\ call.at # "store" => Honest(Sent, a)
        BY <1>8, <2>6, HonestSent DEF Posts, Arrives
      <3>4. a # "done" => Honest(To("file"), a) /\ Honest(To("image"), a) /\ Honest(To("markdown"), a)
        BY <2>1, <2>2
      <3>5. a # "done" /\ Len(call.ends) > 1 => Honest(To("next"), a)
        BY <2>1
      <3> QED BY <2>0, <2>3, <2>6, <3>1, <3>2, <3>3, <3>4, <3>5 DEF QqUpload
    <2> QED BY <1>2, <2>4, <2>5, <2>6
  <1> QED BY <1>1, <1>5, <1>6, <1>7, <1>8

\* So every adapter is honest about every answer.
LEMMA AnswersAreHonest ==
  ASSUME SendsInv, call.at # "returned", NEW a \in Answers
  PROVE  Honest(Handle(a), a)
  <1>1. call.p \in SendPlatforms
    BY DEF SendsInv, CallRecord
  <1> QED BY <1>1, TelegramHonest, DiscordHonest, FeishuHonest, QqHonest, WechatHonest DEF SendPlatforms

\* The two orders in which QQ tries its ends.
LEMMA EndsAreSequences ==
  <<"group", "user">> \in Seq({"group", "user"}) /\ <<"user", "group">> \in Seq({"group", "user"})
  OBVIOUS

\* A call with one of its fields changed.
LEMMA CallAt == \A d \in CallRecord, v \in RequestStages :
  [d EXCEPT !.at = v] \in CallRecord
  BY DEF CallRecord
\* Its end.
LEMMA CallEnd == \A d \in CallRecord, v \in {"direct", "channel", "group", "user"} :
  [d EXCEPT !.end = v] \in CallRecord
  BY DEF CallRecord
\* The ends left to try.
LEMMA CallEnds == \A d \in CallRecord, v \in Seq({"group", "user"}) :
  [d EXCEPT !.ends = v] \in CallRecord
  BY DEF CallRecord
\* The form of its message.
LEMMA CallBody == \A d \in CallRecord, v \in {"text", "image", "markdown"} :
  [d EXCEPT !.body = v] \in CallRecord
  BY DEF CallRecord
\* What it falls back on.
LEMMA CallLast == \A d \in CallRecord, v \in {"raise", "image", "markdown"} :
  [d EXCEPT !.last = v] \in CallRecord
  BY DEF CallRecord
\* The kind of its chat.
LEMMA CallKind == \A d \in CallRecord, v \in {"channel", "group", "user"} :
  [d EXCEPT !.kind = v] \in CallRecord
  BY DEF CallRecord

\* The call after a request: it keeps its operation and stops where it can.
LEMMA CallGoesOn ==
  ASSUME SendsInv, call.at # "returned", NEW a \in Answers, Honest(Handle(a), a), Proceed(Handle(a))
  PROVE  /\ call' \in CallRecord /\ call'.p = call.p /\ call'.op = call.op
         /\ call'.at \in StagesOf(call.p, call.op) \cup {"returned"}
         /\ Handle(a).at = "returned" <=> call'.at = "returned"
         /\ Handle(a).at = "returned" => call'.reply = Handle(a).reply
  <1>1. PICK o \in AnswerOutcomes : o = Handle(a) /\ Honest(o, a)
    BY DEF Honest
  <1>2. PICK x \in CallRecord : x = call /\ x.ends \in Seq({"group", "user"}) /\ x.end \in {"direct", "channel", "group", "user"}
    BY DEF SendsInv, CallRecord
  <1>3. PICK c \in CallRecord : c = [x EXCEPT !.tried = FALSE] /\ c.p = x.p /\ c.op = x.op /\ c.ends = x.ends /\ c.end = x.end
    <2>1. [x EXCEPT !.tried = FALSE] \in CallRecord
      BY DEF CallRecord
    <2>2. LET c == [x EXCEPT !.tried = FALSE] IN c.p = x.p /\ c.op = x.op /\ c.ends = x.ends /\ c.end = x.end
      BY DEF CallRecord
    <2> QED BY <2>1, <2>2
  <1>4. /\ o.at \in RequestStages \cup {"returned", "image", "markdown", "regroup", "next"} /\ o.end \in {"same", "group", "user"}
        /\ o.reply \in {"none", "ok", "fail", "err"} /\ o.again \in BOOLEAN
    BY DEF AnswerOutcomes
  <1>5. CASE o.at = "returned"
    <2>0. o.end = "same"
      BY <1>1, <1>5 DEF Honest
    <2>1. call' = [c EXCEPT !.at = o.at, !.reply = o.reply, !.again = o.again]
      BY <1>1, <1>2, <1>3, <1>5, <2>0 DEF Proceed
    <2>2. PICK at \in {"returned"}, reply \in {"none", "ok", "fail", "err"}, again \in BOOLEAN :
             at = o.at /\ reply = o.reply /\ again = o.again
      BY <1>4, <1>5
    <2>3. [c EXCEPT !.at = at, !.reply = reply, !.again = again] \in CallRecord
      BY DEF CallRecord
    <2>4. LET d == [c EXCEPT !.at = at, !.reply = reply, !.again = again]
          IN  d.at = at /\ d.reply = reply /\ d.p = c.p /\ d.op = c.op
      BY <1>3 DEF CallRecord
    <2> QED BY <1>1, <1>2, <1>3, <1>5, <2>1, <2>2, <2>3, <2>4
  <1>6. CASE o.at # "returned"
    <2>1. ASSUME NEW d \in CallRecord, call' = d, d.p = c.p, d.op = c.op, d.at \in StagesOf(c.p, c.op)
          PROVE  /\ call' \in CallRecord /\ call'.p = call.p /\ call'.op = call.op
                 /\ call'.at \in StagesOf(call.p, call.op) /\ call'.at # "returned"
      <3>1. "returned" \notin StagesOf(c.p, c.op)
        BY DEF StagesOf
      <3> QED BY <1>2, <1>3, <2>1, <3>1
    <2>2. o.at \in {"image", "markdown", "regroup", "next"} => c.p = "qq" /\ c.op = "media"
      BY <1>1, <1>2, <1>3, <1>6 DEF Honest
    <2>3. o.at \notin {"image", "markdown", "regroup", "next"} => o.at \in StagesOf(c.p, c.op) /\ o.at \in RequestStages
      BY <1>1, <1>2, <1>3, <1>4, <1>6 DEF Honest
    <2>4. CASE o.end # "same"
      <3>0. o.at = "post"
        BY <1>1, <1>6, <2>4 DEF Honest
      <3>1. call' = [c EXCEPT !.end = o.end]
        BY <1>1, <1>2, <1>3, <1>6, <2>4, <3>0 DEF Proceed
      <3>2. PICK e \in {"group", "user"} : e = o.end
        BY <1>4, <2>4
      <3>3. [c EXCEPT !.end = e] \in CallRecord
        BY DEF CallRecord
      <3>4. LET d == [c EXCEPT !.end = e] IN d.p = c.p /\ d.op = c.op /\ d.at = c.at
        BY DEF CallRecord
      <3>5. c.at = x.at
        BY <1>3 DEF CallRecord
      <3>6. c.at \in StagesOf(c.p, c.op)
        BY <1>2, <1>3, <3>5 DEF SendsInv
      <3> QED BY <1>1, <1>6, <2>1, <3>1, <3>2, <3>3, <3>4, <3>6
    <2>5. CASE o.end = "same" /\ o.at \in {"image", "markdown"}
      <3>1. call' = [c EXCEPT !.at = "post", !.body = o.at, !.end = IF @ = "direct" THEN @ ELSE "channel"]
        BY <1>1, <1>2, <1>3, <1>6, <2>5 DEF Proceed
      <3>0. PICK s \in RequestStages : s = "post"
        BY DEF RequestStages
      <3>2. PICK b \in {"image", "markdown"}, e \in {"direct", "channel"} : b = o.at /\ e = IF c.end = "direct" THEN c.end ELSE "channel"
        BY <2>5
      <3>3. [c EXCEPT !.at = s, !.body = b, !.end = e] \in CallRecord
        <4>1. PICK f \in CallRecord : f = [c EXCEPT !.at = s]
            BY CallAt
        <4>2. PICK g \in CallRecord : g = [f EXCEPT !.body = b]
          BY CallBody
        <4>3. [g EXCEPT !.end = e] \in CallRecord
          BY CallEnd
        <4>4. [c EXCEPT !.at = s, !.body = b, !.end = e] = [g EXCEPT !.end = e]
          BY <4>1, <4>2
        <4> QED BY <4>3, <4>4
      <3>4. LET d == [c EXCEPT !.at = s, !.body = b, !.end = e] IN d.p = c.p /\ d.op = c.op /\ d.at = s
        BY DEF CallRecord
      <3>5. "post" \in StagesOf(c.p, c.op)
        BY DEF StagesOf
      <3>6. call' = [c EXCEPT !.at = s, !.body = b, !.end = e]
        BY <3>0, <3>1, <3>2
      <3> QED BY <1>1, <1>6, <2>1, <3>0, <3>3, <3>4, <3>5, <3>6
    <2>6. CASE o.end = "same" /\ o.at = "regroup"
      <3>1. call' = [c EXCEPT !.at = "fetch", !.ends = <<"group", "user">>, !.last = "raise"]
        BY <1>1, <1>2, <1>3, <1>6, <2>6 DEF Proceed
      <3>0. PICK s \in RequestStages, last \in {"raise"} : s = "fetch"
        BY DEF RequestStages
      <3>2. PICK es \in Seq({"group", "user"}) : es = <<"group", "user">>
        BY EndsAreSequences
      <3>3. [c EXCEPT !.at = s, !.ends = es, !.last = last] \in CallRecord
        <4>1. PICK f \in CallRecord : f = [c EXCEPT !.at = s]
            BY CallAt
        <4>2. PICK g \in CallRecord : g = [f EXCEPT !.ends = es]
          BY CallEnds
        <4>3. [g EXCEPT !.last = last] \in CallRecord
          BY CallLast
        <4>4. [c EXCEPT !.at = s, !.ends = es, !.last = last] = [g EXCEPT !.last = last]
          BY <4>1, <4>2
        <4> QED BY <4>3, <4>4
      <3>4. LET d == [c EXCEPT !.at = s, !.ends = es, !.last = last] IN d.p = c.p /\ d.op = c.op /\ d.at = s
        BY DEF CallRecord
      <3>5. "fetch" \in StagesOf(c.p, c.op)
        BY <2>2, <2>6 DEF StagesOf
      <3>6. call' = [c EXCEPT !.at = s, !.ends = es, !.last = last]
        BY <3>0, <3>1, <3>2
      <3> QED BY <1>1, <1>6, <2>1, <3>0, <3>3, <3>4, <3>5, <3>6
    <2>7. CASE o.end = "same" /\ o.at = "next"
      <3>1. call' = [c EXCEPT !.at = IF call.text THEN "store" ELSE "file", !.ends = Tail(@)]
        BY <1>1, <1>2, <1>3, <1>6, <2>7 DEF Proceed
      <3>2. PICK es \in Seq({"group", "user"}) : es = Tail(c.ends)
        <4>1. Len(c.ends) > 1 /\ c.ends \in Seq({"group", "user"})
          BY <1>1, <1>2, <1>3, <1>6, <2>7 DEF Honest
        <4>2. c.ends # <<>>
          BY <4>1
        <4> QED BY <4>1, <4>2, HeadTailProperties
      <3>3. PICK s \in {"store", "file"} : s = IF call.text THEN "store" ELSE "file"
        OBVIOUS
      <3>4. [c EXCEPT !.at = s, !.ends = es] \in CallRecord
        BY DEF CallRecord, RequestStages
      <3>5. LET d == [c EXCEPT !.at = s, !.ends = es] IN d.p = c.p /\ d.op = c.op /\ d.at = s
        BY DEF CallRecord
      <3>6. s \in StagesOf(c.p, c.op)
        BY <2>2, <2>7 DEF StagesOf
      <3>7. call' = [c EXCEPT !.at = s, !.ends = es]
        BY <3>1, <3>2, <3>3
      <3> QED BY <1>1, <1>6, <2>1, <3>4, <3>5, <3>6, <3>7
    <2>8. CASE o.end = "same" /\ o.at \notin {"image", "markdown", "regroup", "next"}
      <3>1. call' = [c EXCEPT !.at = o.at]
        BY <1>1, <1>2, <1>3, <1>6, <2>8 DEF Proceed
      <3>2. PICK s \in RequestStages : s = o.at
        BY <2>3, <2>8
      <3>3. [c EXCEPT !.at = s] \in CallRecord
        BY DEF CallRecord
      <3>4. LET d == [c EXCEPT !.at = s] IN d.p = c.p /\ d.op = c.op /\ d.at = s
        BY DEF CallRecord
      <3> QED BY <1>1, <1>6, <2>1, <2>3, <2>8, <3>1, <3>2, <3>3, <3>4
    <2> QED BY <2>4, <2>5, <2>6, <2>7, <2>8
  <1> QED BY <1>5, <1>6

\* An answer of the platform, or none.
LEMMA AnswerKeepsInv ==
  ASSUME SendsInv, NEW a \in Answers, Answer(a)
  PROVE  SendsInv'
  <1>1. call.at # "returned" /\ told = "none" /\ (posted = 0 \/ MayRepeat) /\ posted \in Nat
    BY DEF SendsInv, Answer
  <1>2. /\ posted' = IF Posts /\ a \in Arrives THEN posted + 1 ELSE posted
        /\ doubt' = (doubt \/ (Posts /\ a \in Arrives \ {"done"}))
    BY DEF Answer
  <1>3. (doubt => doubt') /\ (Posts /\ a \in Arrives /\ a # "done" => doubt') /\ posted' \in Nat
    <2>1. doubt => doubt'
      BY <1>2, Zenon
    <2>2. Posts /\ a \in Arrives \ {"done"} => doubt'
      BY <1>2, Zenon
    <2> QED BY <1>1, <1>2, <2>1, <2>2
  <1>4. CASE Repeats(a) /\ call' = [call EXCEPT !.tried = TRUE, !.ctx = FALSE] /\ UNCHANGED told
    <2>1. a \notin Arrives
      BY <1>4 DEF Repeats, LimitedAgain, RefusedAgain, ContextAgain, Arrives
    <2>2. PICK x \in CallRecord : x = call
      BY DEF SendsInv
    <2>3. [x EXCEPT !.tried = TRUE, !.ctx = FALSE] \in CallRecord
      BY DEF CallRecord
    <2>4. LET d == [x EXCEPT !.tried = TRUE, !.ctx = FALSE] IN d.p = x.p /\ d.op = x.op /\ d.at = x.at
      BY DEF CallRecord
    <2>5. call' \in CallRecord /\ call'.p = call.p /\ call'.op = call.op /\ call'.at = call.at /\ posted' = posted /\ told' = told
      BY <1>2, <1>4, <2>1, <2>2, <2>3, <2>4
    <2>6. MayRepeat => MayRepeat'
      BY <1>3, <2>5 DEF MayRepeat
    <2> QED BY <1>1, <1>3, <2>5, <2>6 DEF SendsInv, RepliesMatchTheChat, AtMostOneDelivery, ToldAsItWent, MayRepeat
  <1>5. CASE Proceed(Handle(a))
    <2>1. Honest(Handle(a), a)
      BY <1>1, AnswersAreHonest
    <2>2. /\ call' \in CallRecord /\ call'.p = call.p /\ call'.op = call.op
          /\ call'.at \in StagesOf(call.p, call.op) \cup {"returned"}
          /\ Handle(a).at = "returned" <=> call'.at = "returned"
          /\ Handle(a).at = "returned" => call'.reply = Handle(a).reply
      BY <1>1, <1>5, <2>1, CallGoesOn
    <2>3. told' = IF Handle(a).at = "returned" /\ Handle(a).event # "none" THEN Handle(a).event ELSE "none"
      BY <1>1, <1>5 DEF Proceed
    <2>4. MayRepeat => MayRepeat'
      BY <1>3, <2>2 DEF MayRepeat
    <2> HIDE DEF Handle
    <2>5. CASE Handle(a).at = "returned"
      <3>1. AtMostOneDelivery'
        BY <1>1, <1>2, <2>4 DEF AtMostOneDelivery, MayRepeat
      <3>2. ToldAsItWent'
        <4>1. call.op \in Texts2 => Handle(a).event = IF Handle(a).reply = "ok" THEN "sent" ELSE "failed"
          BY <2>1, <2>5 DEF Honest
        <4>2. Handle(a).event = "sent" => Handle(a).reply = "ok" /\ posted' > 0
          BY <1>1, <1>2, <2>1, <2>5 DEF Honest
        <4> QED BY <2>2, <2>3, <2>5, <4>1, <4>2 DEF ToldAsItWent
      <3> QED BY <1>3, <2>2, <2>5, <3>1, <3>2 DEF SendsInv, RepliesMatchTheChat
    <2>6. CASE Handle(a).at # "returned"
      <3>1. posted' = 0 \/ MayRepeat'
        <4>1. Posts /\ a \in Arrives => call.p = "qq" /\ call.op = "media" /\ a # "done"
          BY <2>1, <2>6 DEF Honest
        <4>2. Posts /\ a \in Arrives => MayRepeat'
          BY <1>3, <2>2, <4>1 DEF MayRepeat
        <4> QED BY <1>1, <1>2, <2>4, <4>2
      <3>2. told' = "none" /\ call'.at # "returned"
        BY <2>2, <2>3, <2>6
      <3> QED BY <1>3, <2>2, <3>1, <3>2 DEF SendsInv, RepliesMatchTheChat, AtMostOneDelivery, ToldAsItWent, MayRepeat
    <2> QED BY <2>5, <2>6
  <1> QED BY <1>4, <1>5 DEF Answer

\* The call before the first one.
LEMMA NoSendIsCall ==
  ASSUME NEW c, c = NoSend
  PROVE  c \in CallRecord
  <1>1. <<>> \in Seq({"group", "user"})
    OBVIOUS
  <1> QED BY <1>1 DEF NoSend, CallRecord, SendPlatforms, RequestStages

\* A new call: the operation, its first request and its ends.
LEMMA BeginKeepsInv ==
  ASSUME SendsInv, Begin
  PROVE  SendsInv'
  <1>1. PICK p \in DOMAIN Ops : \E op \in Ops[p], source \in {"url", "data", "none"},
        kind \in {"channel", "group", "user"}, known \in BOOLEAN, text \in BOOLEAN, ctx \in BOOLEAN :
       LET c == [NoSend EXCEPT !.p = p, !.op = op, !.reply = "none", !.source = source, !.text = text, !.ctx = ctx,
                   !.at = IF op = "media" /\ p \in {"discord", "feishu", "wechat"} THEN "fetch" ELSE "post",
                   !.kind = kind, !.end = IF p = "qq" /\ ~known THEN "channel" ELSE "direct"]
       IN /\ op \notin {"media", "group"} => source = "url"
          /\ p # "qq" => kind = "user" /\ ~known /\ ~text
          /\ p # "wechat" => ~ctx
          /\ call' = IF p = "qq" /\ op = "media" THEN QqBegins(c, known) ELSE c
    BY Zenon DEF Begin
  <1>2. PICK op \in Ops[p], source \in {"url", "data", "none"},
        kind \in {"channel", "group", "user"}, known \in BOOLEAN, text \in BOOLEAN, ctx \in BOOLEAN :
       LET c == [NoSend EXCEPT !.p = p, !.op = op, !.reply = "none", !.source = source, !.text = text, !.ctx = ctx,
                   !.at = IF op = "media" /\ p \in {"discord", "feishu", "wechat"} THEN "fetch" ELSE "post",
                   !.kind = kind, !.end = IF p = "qq" /\ ~known THEN "channel" ELSE "direct"]
       IN /\ op \notin {"media", "group"} => source = "url"
          /\ p # "qq" => kind = "user" /\ ~known /\ ~text
          /\ p # "wechat" => ~ctx
          /\ call' = IF p = "qq" /\ op = "media" THEN QqBegins(c, known) ELSE c
    BY <1>1, Zenon
  <1>3. p \in SendPlatforms /\ op \in {"text", "interactive", "media", "group", "draft", "edit", "delete"}
    BY DEF Ops, SendPlatforms
  <1>4. PICK at \in RequestStages, end \in {"channel", "direct"}, reply \in {"none"} :
          /\ at = IF op = "media" /\ p \in {"discord", "feishu", "wechat"} THEN "fetch" ELSE "post"
          /\ end = IF p = "qq" /\ ~known THEN "channel" ELSE "direct"
    BY DEF RequestStages
  <1>5. PICK n \in CallRecord : n = NoSend
    BY NoSendIsCall
  <1>a. PICK q \in SendPlatforms, o \in {"text", "interactive", "media", "group", "draft", "edit", "delete"} : q = p /\ o = op
    BY <1>3
  <1> DEFINE c == [n EXCEPT !.p = q, !.op = o, !.reply = reply, !.source = source, !.text = text, !.ctx = ctx,
                     !.at = at, !.kind = kind, !.end = end]
  <1>6. c \in CallRecord
    <2>1. PICK f \in CallRecord : f = [n EXCEPT !.p = q, !.op = o]
      <3>1. [n EXCEPT !.p = q, !.op = o] \in CallRecord
        BY DEF CallRecord
      <3> QED BY <3>1
    <2>2. PICK g \in CallRecord : g = [f EXCEPT !.reply = reply, !.source = source]
      <3>1. [f EXCEPT !.reply = reply, !.source = source] \in CallRecord
        BY ZenonT(60) DEF CallRecord
      <3> QED BY <3>1
    <2>3. PICK h \in CallRecord : h = [g EXCEPT !.text = text, !.ctx = ctx]
      <3>1. [g EXCEPT !.text = text, !.ctx = ctx] \in CallRecord
        BY ZenonT(60) DEF CallRecord
      <3> QED BY <3>1
    <2>4. PICK k \in CallRecord : k = [h EXCEPT !.at = at]
      BY CallAt
    <2>5. PICK m \in CallRecord : m = [k EXCEPT !.kind = kind]
      BY CallKind
    <2>6. [m EXCEPT !.end = end] \in CallRecord
      BY CallEnd
    <2>7. c = [m EXCEPT !.end = end]
      BY <2>1, <2>2, <2>3, <2>4, <2>5
    <2> QED BY <2>6, <2>7
  <1>7. c.p = p /\ c.op = op /\ c.at = at
    <2>1. c.p = q /\ c.op = o /\ c.at = at
      BY DEF CallRecord
    <2> QED BY <1>a, <2>1
  <1>8. call' = IF p = "qq" /\ op = "media" THEN QqBegins(c, known) ELSE c
    BY <1>2, <1>4, <1>5, <1>a
  <1> HIDE DEF c
  <1>9. call' \in CallRecord /\ call'.p = p /\ call'.op = op /\ call'.at \in StagesOf(p, op)
    <2>1. CASE ~(p = "qq" /\ op = "media")
      <3>1. at \in StagesOf(p, op)
        BY <1>3, <1>4 DEF StagesOf, SendPlatforms
      <3> QED BY <1>6, <1>7, <1>8, <2>1, <3>1
    <2>2. CASE p = "qq" /\ op = "media"
      <3>1. {"fetch", "post"} \subseteq StagesOf(p, op)
        BY <2>2 DEF StagesOf
      <3>2. PICK d \in CallRecord : d = c
        BY <1>6
      <3>3. PICK es \in Seq({"group", "user"}), fs \in Seq({"group", "user"}) : es = <<"group", "user">> /\ fs = <<"user", "group">>
        BY EndsAreSequences
      <3>4. PICK last \in {"image", "markdown"}, body \in {"image", "markdown"} :
              last = (IF known THEN "image" ELSE "markdown") /\ body = IF known /\ d.kind = "user" THEN "image" ELSE "markdown"
        OBVIOUS
      <3>a. PICK s \in RequestStages : s = "fetch"
        BY DEF RequestStages
      <3>5. /\ [d EXCEPT !.at = s, !.ends = es] \in CallRecord
            /\ [d EXCEPT !.at = s, !.ends = fs, !.last = last] \in CallRecord
            /\ [d EXCEPT !.body = body] \in CallRecord
        <4>1. [d EXCEPT !.at = s, !.ends = es] \in CallRecord
          BY DEF CallRecord
        <4>2. [d EXCEPT !.at = s, !.ends = fs, !.last = last] \in CallRecord
          <5>1. PICK f \in CallRecord : f = [d EXCEPT !.at = s]
            BY CallAt
          <5>2. PICK g \in CallRecord : g = [f EXCEPT !.ends = fs]
            BY CallEnds
          <5>3. [g EXCEPT !.last = last] \in CallRecord
            BY CallLast
          <5>4. [d EXCEPT !.at = s, !.ends = fs, !.last = last] = [g EXCEPT !.last = last]
            BY <5>1, <5>2
          <5> QED BY <5>3, <5>4
        <4>3. [d EXCEPT !.body = body] \in CallRecord
          BY DEF CallRecord
        <4> QED BY <4>1, <4>2, <4>3
      <3>6. /\ LET e == [d EXCEPT !.at = s, !.ends = es] IN e.p = d.p /\ e.op = d.op /\ e.at = s
            /\ LET e == [d EXCEPT !.at = s, !.ends = fs, !.last = last] IN e.p = d.p /\ e.op = d.op /\ e.at = s
            /\ LET e == [d EXCEPT !.body = body] IN e.p = d.p /\ e.op = d.op /\ e.at = d.at
        BY DEF CallRecord
      <3>7. \/ call' = [d EXCEPT !.at = s, !.ends = es]
            \/ call' = [d EXCEPT !.at = s, !.ends = fs, !.last = last]
            \/ call' = [d EXCEPT !.body = body]
        BY <1>8, <2>2, <3>2, <3>3, <3>4, <3>a DEF QqBegins
      <3>8. d.p = p /\ d.op = op /\ d.at \in StagesOf(p, op)
        BY <1>4, <1>7, <2>2, <3>1, <3>2
      <3>9. s \in StagesOf(p, op)
        BY <3>1, <3>a
      <3> QED BY <3>5, <3>6, <3>7, <3>8, <3>9
    <2> QED BY <2>1, <2>2
  <1>10. posted' = 0 /\ told' = "none"
    BY DEF Begin
  <1>11. "returned" \notin StagesOf(p, op)
    BY DEF StagesOf
  <1>12. call'.at # "returned" /\ call'.op \in Ops[call'.p]
    BY <1>9, <1>11
  <1> QED BY <1>9, <1>10, <1>12 DEF SendsInv, RepliesMatchTheChat, AtMostOneDelivery, ToldAsItWent

\* Before the first call.
LEMMA SendsStart == SendsInit => SendsInv
  <1> SUFFICES ASSUME SendsInit PROVE SendsInv
    OBVIOUS
  <1>1. call \in CallRecord
    BY NoSendIsCall DEF SendsInit
  <1>2. call.op \in Ops[call.p] /\ call.at = "returned" /\ call.reply = "ok" /\ calls = 0 /\ posted = 0 /\ told = "sent"
    BY DEF SendsInit, NoSend, Ops
  <1> QED BY <1>1, <1>2 DEF SendsInv, RepliesMatchTheChat, AtMostOneDelivery, ToldAsItWent

\* Every step of a call keeps the invariant of the calls that send.
LEMMA SendsInvStep == SendsInv /\ [SendsNext]_sendsVars => SendsInv'
  <1>1. ASSUME SendsInv, UNCHANGED sendsVars PROVE SendsInv'
    BY <1>1 DEF SendsInv, sendsVars, RepliesMatchTheChat, AtMostOneDelivery, ToldAsItWent, MayRepeat
  <1> QED BY <1>1, AnswerKeepsInv, BeginKeepsInv DEF SendsNext

\* Whatever a platform answers, or fails to answer, the reply and the event of a
\* send say what became of the message, and nothing but a file of QQ arrives twice
\* (the send operations of the five platform adapters).
THEOREM RepliesAreTrue == SendsSpec => []RepliesMatchTheChat
  <1>1. SendsInv => RepliesMatchTheChat
    BY DEF SendsInv
  <1> QED BY <1>1, SendsStart, SendsInvStep, PTL DEF SendsSpec

\* What a call has announced, and how many there were.
SendsRest == told \in {"none", "sent", "failed"} /\ calls \in 0 .. MaxCalls
DoubtOK == doubt \in BOOLEAN

\* The types of the variables of the calls that send: SendsTypeOK.
LEMMA SendsTypes == SendsSpec => []SendsTypeOK
  <1>1. SendsInit => SendsRest
    BY SendsAssumption DEF SendsInit, SendsRest
  <1>5. SendsInit => DoubtOK
    BY Zenon DEF SendsInit, DoubtOK
  <1>2. SendsInv /\ SendsRest /\ [SendsNext]_sendsVars => SendsRest'
    <2> SUFFICES ASSUME SendsInv, SendsRest, [SendsNext]_sendsVars PROVE SendsRest'
      OBVIOUS
    <2>1. CASE Begin
      BY <2>1, SendsAssumption DEF SendsRest, Begin
    <2>2. ASSUME NEW a \in Answers, Answer(a) PROVE SendsRest'
      <3>1. Handle(a).event \in {"none", "sent", "failed"}
        <4>1. Handle(a) \in AnswerOutcomes
          BY <2>2, AnswersAreHonest DEF Answer, Honest
        <4> QED BY <4>1 DEF AnswerOutcomes
      <3>2. told' = told \/ told' = Handle(a).event
        BY <2>2 DEF Answer, Proceed
      <3>3. calls' = calls
        BY <2>2 DEF Answer
      <3> QED BY <3>1, <3>2, <3>3 DEF SendsRest
    <2>3. CASE UNCHANGED sendsVars
      BY <2>3 DEF SendsRest, sendsVars
    <2> QED BY <2>1, <2>2, <2>3 DEF SendsNext
  <1>3. DoubtOK /\ [SendsNext]_sendsVars => DoubtOK'
    BY Zenon DEF DoubtOK, SendsNext, Begin, Answer, sendsVars
  <1>4. SendsInv /\ SendsRest /\ DoubtOK => SendsTypeOK
    <2> SUFFICES ASSUME SendsInv, SendsRest, DoubtOK PROVE SendsTypeOK
      OBVIOUS
    <2>1. call.p \in DOMAIN Ops /\ call.reply \in {"none", "ok", "fail", "err"}
      <3>1. call.p \in SendPlatforms /\ call.reply \in {"none", "ok", "fail", "err"}
        BY DEF SendsInv, CallRecord
      <3> QED BY <3>1 DEF Ops, SendPlatforms
    <2> QED BY <2>1, Zenon DEF SendsInv, SendsRest, DoubtOK, SendsTypeOK
  <1> QED BY <1>1, <1>2, <1>3, <1>4, <1>5, SendsStart, SendsInvStep, PTL DEF SendsSpec

=============================================================================
