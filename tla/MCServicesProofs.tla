--------------------------- MODULE MCServicesProofs ---------------------------
(* The theorems about the services carry over to the module that puts them    *)
(* side by side: each of them either moves by its own next-state relation or   *)
(* stays where it is.                                                          *)
EXTENDS MCServices, ApiKeysProofs, PlatformProofs, ServiceProofs, InboundProofs

\* The inbound service, among the others, does what it does alone.
LEMMA InboundAlone == Spec => InboundSpec
  <1>1. Init => InboundInit
    BY DEF Init
  <1>2. [Next]_vars => [InboundNext]_inboundVars
    <2> SUFFICES ASSUME [Next]_vars PROVE InboundNext \/ UNCHANGED inboundVars
      OBVIOUS
    <2>1. CASE UNCHANGED vars
      BY <2>1 DEF vars
    <2>2. CASE Next /\ focus = "inbound"
      BY <2>2 DEF Next, On
    <2>3. CASE Next /\ focus # "inbound"
      <3>1. Others
        BY <2>3 DEF Next
      <3> QED BY <2>3, <3>1 DEF Others
    <2> QED BY <2>1, <2>2, <2>3
  <1> QED BY <1>1, <1>2, PTL DEF Spec, InboundSpec

\* The sessions service, among the others, does what it does alone.
LEMMA SessionsAlone == Spec => SessionsSpec
  <1>1. Init => SessionsInit
    BY DEF Init
  <1>2. [Next]_vars => [SessionsNext]_sessionVars
    <2> SUFFICES ASSUME [Next]_vars PROVE SessionsNext \/ UNCHANGED sessionVars
      OBVIOUS
    <2>1. CASE UNCHANGED vars
      BY <2>1 DEF vars
    <2>2. CASE Next /\ focus = "sessions"
      BY <2>2 DEF Next, On
    <2>3. CASE Next /\ focus # "sessions"
      <3>1. Others
        BY <2>3 DEF Next
      <3> QED BY <2>3, <3>1 DEF Others
    <2> QED BY <2>1, <2>2, <2>3
  <1> QED BY <1>1, <1>2, PTL DEF Spec, SessionsSpec

\* The telegram service, among the others, does what it does alone.
LEMMA TelegramAlone == Spec => TelegramSpec
  <1>1. Init => TelegramInit
    BY DEF Init
  <1>2. [Next]_vars => [TelegramNext]_telegramVars
    <2> SUFFICES ASSUME [Next]_vars PROVE TelegramNext \/ UNCHANGED telegramVars
      OBVIOUS
    <2>1. CASE UNCHANGED vars
      BY <2>1 DEF vars
    <2>2. CASE Next /\ focus = "telegram"
      BY <2>2 DEF Next, On
    <2>3. CASE Next /\ focus # "telegram"
      <3>1. Others
        BY <2>3 DEF Next
      <3> QED BY <2>3, <3>1 DEF Others
    <2> QED BY <2>1, <2>2, <2>3
  <1> QED BY <1>1, <1>2, PTL DEF Spec, TelegramSpec

\* The discord service, among the others, does what it does alone.
LEMMA DiscordAlone == Spec => DiscordSpec
  <1>1. Init => DiscordInit
    BY DEF Init
  <1>2. [Next]_vars => [DiscordNext]_discordVars
    <2> SUFFICES ASSUME [Next]_vars PROVE DiscordNext \/ UNCHANGED discordVars
      OBVIOUS
    <2>1. CASE UNCHANGED vars
      BY <2>1 DEF vars
    <2>2. CASE Next /\ focus = "discord"
      BY <2>2 DEF Next, On
    <2>3. CASE Next /\ focus # "discord"
      <3>1. Others
        BY <2>3 DEF Next
      <3> QED BY <2>3, <3>1 DEF Others
    <2> QED BY <2>1, <2>2, <2>3
  <1> QED BY <1>1, <1>2, PTL DEF Spec, DiscordSpec

\* The feishu service, among the others, does what it does alone.
LEMMA FeishuAlone == Spec => FeishuSpec
  <1>1. Init => FeishuInit
    BY DEF Init
  <1>2. [Next]_vars => [FeishuNext]_feishuVars
    <2> SUFFICES ASSUME [Next]_vars PROVE FeishuNext \/ UNCHANGED feishuVars
      OBVIOUS
    <2>1. CASE UNCHANGED vars
      BY <2>1 DEF vars
    <2>2. CASE Next /\ focus = "feishu"
      BY <2>2 DEF Next, On
    <2>3. CASE Next /\ focus # "feishu"
      <3>1. Others
        BY <2>3 DEF Next
      <3> QED BY <2>3, <3>1 DEF Others
    <2> QED BY <2>1, <2>2, <2>3
  <1> QED BY <1>1, <1>2, PTL DEF Spec, FeishuSpec

\* The sends service, among the others, does what it does alone.
LEMMA SendsAlone == Spec => SendsSpec
  <1>1. Init => SendsInit
    BY DEF Init
  <1>2. [Next]_vars => [SendsNext]_sendsVars
    <2> SUFFICES ASSUME [Next]_vars PROVE SendsNext \/ UNCHANGED sendsVars
      OBVIOUS
    <2>1. CASE UNCHANGED vars
      BY <2>1 DEF vars
    <2>2. CASE Next /\ focus = "sends"
      BY <2>2 DEF Next, On
    <2>3. CASE Next /\ focus # "sends"
      <3>1. Others
        BY <2>3 DEF Next
      <3> QED BY <2>3, <3>1 DEF Others
    <2> QED BY <2>1, <2>2, <2>3
  <1> QED BY <1>1, <1>2, PTL DEF Spec, SendsSpec

\* The wechat service, among the others, does what it does alone.
LEMMA WechatAlone == Spec => WechatSpec
  <1>1. Init => WechatInit
    BY DEF Init
  <1>2. [Next]_vars => [WechatNext]_wxVars
    <2> SUFFICES ASSUME [Next]_vars PROVE WechatNext \/ UNCHANGED wxVars
      OBVIOUS
    <2>1. CASE UNCHANGED vars
      BY <2>1 DEF vars
    <2>2. CASE Next /\ focus = "wechat"
      BY <2>2 DEF Next, On
    <2>3. CASE Next /\ focus # "wechat"
      <3>1. Others
        BY <2>3 DEF Next
      <3> QED BY <2>3, <3>1 DEF Others
    <2> QED BY <2>1, <2>2, <2>3
  <1> QED BY <1>1, <1>2, PTL DEF Spec, WechatSpec

\* The qq service, among the others, does what it does alone.
LEMMA QqAlone == Spec => QqSpec
  <1>1. Init => QqInit
    BY DEF Init
  <1>2. [Next]_vars => [QqNextStep]_qqVars
    <2> SUFFICES ASSUME [Next]_vars PROVE QqNextStep \/ UNCHANGED qqVars
      OBVIOUS
    <2>1. CASE UNCHANGED vars
      BY <2>1 DEF vars
    <2>2. CASE Next /\ focus = "qq"
      BY <2>2 DEF Next, On
    <2>3. CASE Next /\ focus # "qq"
      <3>1. Others
        BY <2>3 DEF Next
      <3> QED BY <2>3, <3>1 DEF Others
    <2> QED BY <2>1, <2>2, <2>3
  <1> QED BY <1>1, <1>2, PTL DEF Spec, QqSpec

\* The tokens service, among the others, does what it does alone.
LEMMA TokenAlone == Spec => TokenSpec
  <1>1. Init => TokenInit
    BY DEF Init
  <1>2. [Next]_vars => [TokenNext]_tkVars
    <2> SUFFICES ASSUME [Next]_vars PROVE TokenNext \/ UNCHANGED tkVars
      OBVIOUS
    <2>1. CASE UNCHANGED vars
      BY <2>1 DEF vars
    <2>2. CASE Next /\ focus = "tokens"
      BY <2>2 DEF Next, On
    <2>3. CASE Next /\ focus # "tokens"
      <3>1. Others
        BY <2>3 DEF Next
      <3> QED BY <2>3, <3>1 DEF Others
    <2> QED BY <2>1, <2>2, <2>3
  <1> QED BY <1>1, <1>2, PTL DEF Spec, TokenSpec

\* The keys service, among the others, does what it does alone.
LEMMA ApiKeysAlone == Spec => ApiKeysSpec
  <1>1. Init => ApiKeysInit
    BY DEF Init
  <1>2. [Next]_vars => [ApiKeysNext]_akVars
    <2> SUFFICES ASSUME [Next]_vars PROVE ApiKeysNext \/ UNCHANGED akVars
      OBVIOUS
    <2>1. CASE UNCHANGED vars
      BY <2>1 DEF vars
    <2>2. CASE Next /\ focus = "keys"
      BY <2>2 DEF Next, On
    <2>3. CASE Next /\ focus # "keys"
      <3>1. Others
        BY <2>3 DEF Next
      <3> QED BY <2>3, <3>1 DEF Others
    <2> QED BY <2>1, <2>2, <2>3
  <1> QED BY <1>1, <1>2, PTL DEF Spec, ApiKeysSpec

\* The gate service, among the others, does what it does alone.
LEMMA GateAlone == Spec => GateSpec
  <1>1. Init => RequestGateInit
    BY DEF Init
  <1>2. [Next]_vars => [RequestGateNext]_rgVars
    <2> SUFFICES ASSUME [Next]_vars PROVE RequestGateNext \/ UNCHANGED rgVars
      OBVIOUS
    <2>1. CASE UNCHANGED vars
      BY <2>1 DEF vars
    <2>2. CASE Next /\ focus = "gate"
      BY <2>2 DEF Next, On
    <2>3. CASE Next /\ focus # "gate"
      <3>1. Others
        BY <2>3 DEF Next
      <3> QED BY <2>3, <3>1 DEF Others
    <2> QED BY <2>1, <2>2, <2>3
  <1> QED BY <1>1, <1>2, PTL DEF Spec, GateSpec

\* The ledgers service, among the others, does what it does alone.
LEMMA LedgersAlone == Spec => LedgersSpec
  <1>1. Init => LedgersInit
    BY DEF Init
  <1>2. [Next]_vars => [LedgersNext]_lgVars
    <2> SUFFICES ASSUME [Next]_vars PROVE LedgersNext \/ UNCHANGED lgVars
      OBVIOUS
    <2>1. CASE UNCHANGED vars
      BY <2>1 DEF vars
    <2>2. CASE Next /\ focus = "ledgers"
      BY <2>2 DEF Next, On
    <2>3. CASE Next /\ focus # "ledgers"
      <3>1. Others
        BY <2>3 DEF Next
      <3> QED BY <2>3, <3>1 DEF Others
    <2> QED BY <2>1, <2>2, <2>3
  <1> QED BY <1>1, <1>2, PTL DEF Spec, LedgersSpec

\* The messages service, among the others, does what it does alone.
LEMMA MessagesAlone == Spec => MessagesSpec
  <1>1. Init => InboundMessagesInit
    BY DEF Init
  <1>2. [Next]_vars => [InboundMessagesNext]_imVars
    <2> SUFFICES ASSUME [Next]_vars PROVE InboundMessagesNext \/ UNCHANGED imVars
      OBVIOUS
    <2>1. CASE UNCHANGED vars
      BY <2>1 DEF vars
    <2>2. CASE Next /\ focus = "messages"
      BY <2>2 DEF Next, On
    <2>3. CASE Next /\ focus # "messages"
      <3>1. Others
        BY <2>3 DEF Next
      <3> QED BY <2>3, <3>1 DEF Others
    <2> QED BY <2>1, <2>2, <2>3
  <1> QED BY <1>1, <1>2, PTL DEF Spec, MessagesSpec

\* The process service, among the others, does what it does alone.
LEMMA PluginProcessAlone == Spec => PluginProcessSpec
  <1>1. Init => IpInit
    BY DEF Init
  <1>2. [Next]_vars => [PluginProcessNext]_ipVars
    <2> SUFFICES ASSUME [Next]_vars PROVE PluginProcessNext \/ UNCHANGED ipVars
      OBVIOUS
    <2>1. CASE UNCHANGED vars
      BY <2>1 DEF vars
    <2>2. CASE Next /\ focus = "process"
      BY <2>2 DEF Next, On
    <2>3. CASE Next /\ focus # "process"
      <3>1. Others
        BY <2>3 DEF Next
      <3> QED BY <2>3, <3>1 DEF Others
    <2> QED BY <2>1, <2>2, <2>3
  <1> QED BY <1>1, <1>2, PTL DEF Spec, PluginProcessSpec

\* The plugins service, among the others, does what it does alone.
LEMMA PluginAlone == Spec => PluginSpec
  <1>1. Init => PluginStoreInit
    BY DEF Init
  <1>2. [Next]_vars => [PluginStoreNext]_plVars
    <2> SUFFICES ASSUME [Next]_vars PROVE PluginStoreNext \/ UNCHANGED plVars
      OBVIOUS
    <2>1. CASE UNCHANGED vars
      BY <2>1 DEF vars
    <2>2. CASE Next /\ focus = "plugins"
      BY <2>2 DEF Next, On
    <2>3. CASE Next /\ focus # "plugins"
      <3>1. Others
        BY <2>3 DEF Next
      <3> QED BY <2>3, <3>1 DEF Others
    <2> QED BY <2>1, <2>2, <2>3
  <1> QED BY <1>1, <1>2, PTL DEF Spec, PluginSpec

\* The updater service, among the others, does what it does alone.
LEMMA UpdaterAlone == Spec => UpdaterSpec
  <1>1. Init => UpdaterInit
    BY DEF Init
  <1>2. [Next]_vars => [UpdaterNext]_upVars
    <2> SUFFICES ASSUME [Next]_vars PROVE UpdaterNext \/ UNCHANGED upVars
      OBVIOUS
    <2>1. CASE UNCHANGED vars
      BY <2>1 DEF vars
    <2>2. CASE Next /\ focus = "updater"
      BY <2>2 DEF Next, On
    <2>3. CASE Next /\ focus # "updater"
      <3>1. Others
        BY <2>3 DEF Next
      <3> QED BY <2>3, <3>1 DEF Others
    <2> QED BY <2>1, <2>2, <2>3
  <1> QED BY <1>1, <1>2, PTL DEF Spec, UpdaterSpec

\* The streams service, among the others, does what it does alone.
LEMMA StreamsAlone == Spec => StreamsSpec
  <1>1. Init => EventStreamsInit
    BY DEF Init
  <1>2. [Next]_vars => [EventStreamsNext]_esVars
    <2> SUFFICES ASSUME [Next]_vars PROVE EventStreamsNext \/ UNCHANGED esVars
      OBVIOUS
    <2>1. CASE UNCHANGED vars
      BY <2>1 DEF vars
    <2>2. CASE Next /\ focus = "streams"
      BY <2>2 DEF Next, On
    <2>3. CASE Next /\ focus # "streams"
      <3>1. Others
        BY <2>3 DEF Next
      <3> QED BY <2>3, <3>1 DEF Others
    <2> QED BY <2>1, <2>2, <2>3
  <1> QED BY <1>1, <1>2, PTL DEF Spec, StreamsSpec

\* The webhooks service, among the others, does what it does alone.
LEMMA WebhooksAlone == Spec => WebhooksSpec
  <1>1. Init => WebhooksInit
    BY DEF Init
  <1>2. [Next]_vars => [WebhooksNext]_whVars
    <2> SUFFICES ASSUME [Next]_vars PROVE WebhooksNext \/ UNCHANGED whVars
      OBVIOUS
    <2>1. CASE UNCHANGED vars
      BY <2>1 DEF vars
    <2>2. CASE Next /\ focus = "webhooks"
      BY <2>2 DEF Next, On
    <2>3. CASE Next /\ focus # "webhooks"
      <3>1. Others
        BY <2>3 DEF Next
      <3> QED BY <2>3, <3>1 DEF Others
    <2> QED BY <2>1, <2>2, <2>3
  <1> QED BY <1>1, <1>2, PTL DEF Spec, WebhooksSpec

\* The migrations service, among the others, does what it does alone.
LEMMA MgAlone == Spec => MgSpec
  <1>1. Init => MigrationsInit
    BY DEF Init
  <1>2. [Next]_vars => [MigrationsNext]_mgVars
    <2> SUFFICES ASSUME [Next]_vars PROVE MigrationsNext \/ UNCHANGED mgVars
      OBVIOUS
    <2>1. CASE UNCHANGED vars
      BY <2>1 DEF vars
    <2>2. CASE Next /\ focus = "migrations"
      BY <2>2 DEF Next, On
    <2>3. CASE Next /\ focus # "migrations"
      <3>1. Others
        BY <2>3 DEF Next
      <3> QED BY <2>3, <3>1 DEF Others
    <2> QED BY <2>1, <2>2, <2>3
  <1> QED BY <1>1, <1>2, PTL DEF Spec, MgSpec

-----------------------------------------------------------------------------
\* What was proved of each service holds of all of them side by side, as TLC
\* checks them: no update, event or message is lost behind a cursor, an offset, a
\* position or a sequence number; a recent chat can be answered; keys, quotas, shards,
\* tokens and the audit chain keep their promises; nothing a crash interrupts loses a
\* plugin or the executable.
THEOREM ServicesHold ==
  Spec => /\ []HistoryFollowsStream
          /\ []MapAndTableAgree
          /\ []UpdatesTakeEffect
          /\ []EveryShardHasATask
          /\ []EventsReachTheBusOnce
          /\ []RepliesMatchTheChat
          /\ []WxCursorSkipsNothing
          /\ []QqResumeSkipsNothing
          /\ []TokensAreRenewedOnce
          /\ []RevokedKeysAreRefused
          /\ []AuditChainVerifies
          /\ []QuotaIsNotOversold
          /\ []RecentChatsCanBeAnswered
          /\ []LivePluginIsNotCalledDead
          /\ []PluginIsNeverLost
          /\ []OldExecutableIsKept
          /\ []GapsAreVisible
          /\ []SchemaServesItsVersion
  BY InboundAlone, SessionsAlone, TelegramAlone, DiscordAlone, FeishuAlone, SendsAlone,
     WechatAlone, QqAlone, TokenAlone, ApiKeysAlone, GateAlone, LedgersAlone, MessagesAlone,
     PluginProcessAlone, PluginAlone, UpdaterAlone, StreamsAlone, WebhooksAlone, MgAlone,
     StreamIsFollowed, CopiesAgree, UpdatesReachTheCache, ShardsAreServed, EventsArriveOnce,
     RepliesAreTrue, CursorIsSound, ResumeIsSound, RenewalIsShared, RevocationHolds,
     LedgerVerifies, QuotaHolds, RecentChatsAreKept, LifeIsReported, PluginsAreKept,
     ExecutableSurvives, GapsShow, SchemaServes, PTL

\* Every service keeps to its types, and to the limits they state: the bounded queues,
\* windows and rings of the inbound persister, the rate limit, the streams and the
\* webhooks (as many posts at once as there are permits, and only of events the webhook
\* asked for), and the usage and payment ledgers that agree with their mirrors and anchors.
THEOREM ServicesKeepTypes == Spec => []ServicesTypeOK
  <1>1. /\ InboundTypeOK
        /\ SessionsTypeOK
        /\ TelegramTypeOK
        /\ DiscordTypeOK
        /\ FeishuTypeOK
        /\ SendsTypeOK
        /\ WechatTypeOK
        /\ QqTypeOK
        /\ TokenTypeOK
        /\ ApiKeysTypeOK
        /\ RequestGateTypeOK
        /\ LedgersTypeOK
        /\ InboundMessagesTypeOK
        /\ PluginProcessTypeOK
        /\ PluginStoreTypeOK
        /\ UpdaterTypeOK
        /\ EventStreamsTypeOK
        /\ WebhooksTypeOK
        /\ MigrationsTypeOK
        => ServicesTypeOK
    BY DEF ServicesTypeOK
  <1> QED BY <1>1, InboundAlone, SessionsAlone, TelegramAlone, DiscordAlone, FeishuAlone,
             SendsAlone, WechatAlone, QqAlone, TokenAlone, ApiKeysAlone, GateAlone,
             LedgersAlone, MessagesAlone, PluginProcessAlone, PluginAlone, UpdaterAlone,
             StreamsAlone, WebhooksAlone, MgAlone, StreamIsFollowed, SessionsTypes,
             TelegramTypes, DiscordTypes, FeishuKeepsTypes, SendsTypes, WechatTypes, QqTypes,
             TokenTypes, ApiKeysTypes, GateTypes, LedgersVerify, RecentChatsAreKept,
             ProcessTypes, StoreTypes, UpdaterTypes, StreamsTypes, WebhooksGetWhatTheyAsk,
             MgTypesHold, PTL
=============================================================================
