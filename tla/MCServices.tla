----------------------------- MODULE MCServices -----------------------------
(* The services around outbound delivery and the adapter manager, in one       *)
(* module. They share no variable, so their interleavings say nothing: focus   *)
(* chooses at the start the one that moves, and the states of a run are those  *)
(* of its services together, not their product.                                *)
EXTENDS InboundPersistence, Sessions, TelegramPolling, DiscordGateway,
        FeishuEvents, PlatformSends, WechatPolling, QqGateway, TokenStore,
        ApiKeys, RequestGate, Ledgers, InboundMessages, PluginProcess,
        PluginStore, Updater, EventStreams, Webhooks, Migrations

CONSTANT Focuses       \* the services a run looks at

ASSUME FocusAssumption ==
  Focuses \subseteq {"inbound", "sessions", "telegram", "discord", "feishu",
                     "sends", "wechat", "qq", "tokens", "keys", "gate",
                     "ledgers", "messages", "process", "plugins", "updater",
                     "streams", "webhooks", "migrations"}

VARIABLE focus
vars == <<focus, inboundVars, sessionVars, telegramVars, discordVars,
          feishuVars, sendsVars, wxVars, qqVars, tkVars, akVars, rgVars,
          lgVars, imVars, ipVars, plVars, upVars, esVars, whVars, mgVars>>

\* A service that stays where it is starts in one state only.
FirstOfMany ==
  /\ focus = "sessions" \/ text = CHOOSE t \in Texts : TRUE
  /\ focus = "telegram" \/ groupAdmins = {}
  /\ focus = "qq" \/ qqTakes = "private"
  /\ focus = "plugins" \/ plStrict
  /\ focus = "updater" \/ (upLinux /\ upGood)
  /\ focus = "migrations" \/ mgBackend = "sqlite"
  /\ focus = "webhooks" \/ \A h \in DOMAIN whWants : whWants[h] = {}

Init ==
  /\ focus \in Focuses
  /\ InboundInit /\ SessionsInit /\ TelegramInit /\ DiscordInit /\ FeishuInit
  /\ SendsInit /\ WechatInit /\ QqInit /\ TokenInit /\ ApiKeysInit
  /\ RequestGateInit /\ LedgersInit /\ InboundMessagesInit /\ IpInit
  /\ PluginStoreInit /\ UpdaterInit /\ EventStreamsInit /\ WebhooksInit
  /\ MigrationsInit
  /\ FirstOfMany

On(service) == focus = service /\ UNCHANGED focus

Others ==
  /\ IF focus = "inbound"  THEN TRUE ELSE UNCHANGED inboundVars
  /\ IF focus = "sessions" THEN TRUE ELSE UNCHANGED sessionVars
  /\ IF focus = "telegram" THEN TRUE ELSE UNCHANGED telegramVars
  /\ IF focus = "discord"  THEN TRUE ELSE UNCHANGED discordVars
  /\ IF focus = "feishu"   THEN TRUE ELSE UNCHANGED feishuVars
  /\ IF focus = "sends"    THEN TRUE ELSE UNCHANGED sendsVars
  /\ IF focus = "wechat"   THEN TRUE ELSE UNCHANGED wxVars
  /\ IF focus = "qq"       THEN TRUE ELSE UNCHANGED qqVars
  /\ IF focus = "tokens"   THEN TRUE ELSE UNCHANGED tkVars
  /\ IF focus = "keys"     THEN TRUE ELSE UNCHANGED akVars
  /\ IF focus = "gate"     THEN TRUE ELSE UNCHANGED rgVars
  /\ IF focus = "ledgers"  THEN TRUE ELSE UNCHANGED lgVars
  /\ IF focus = "messages" THEN TRUE ELSE UNCHANGED imVars
  /\ IF focus = "process"  THEN TRUE ELSE UNCHANGED ipVars
  /\ IF focus = "plugins"  THEN TRUE ELSE UNCHANGED plVars
  /\ IF focus = "updater"  THEN TRUE ELSE UNCHANGED upVars
  /\ IF focus = "streams"  THEN TRUE ELSE UNCHANGED esVars
  /\ IF focus = "webhooks" THEN TRUE ELSE UNCHANGED whVars
  /\ IF focus = "migrations" THEN TRUE ELSE UNCHANGED mgVars

Next ==
  \/ On("inbound")  /\ InboundNext         /\ Others
  \/ On("sessions") /\ SessionsNext        /\ Others
  \/ On("telegram") /\ TelegramNext        /\ Others
  \/ On("discord")  /\ DiscordNext         /\ Others
  \/ On("feishu")   /\ FeishuNext          /\ Others
  \/ On("sends")    /\ SendsNext           /\ Others
  \/ On("wechat")   /\ WechatNext          /\ Others
  \/ On("qq")       /\ QqNextStep          /\ Others
  \/ On("tokens")   /\ TokenNext           /\ Others
  \/ On("keys")     /\ ApiKeysNext         /\ Others
  \/ On("gate")     /\ RequestGateNext     /\ Others
  \/ On("ledgers")  /\ LedgersNext         /\ Others
  \/ On("messages") /\ InboundMessagesNext /\ Others
  \/ On("process")  /\ PluginProcessNext   /\ Others
  \/ On("plugins")  /\ PluginStoreNext     /\ Others
  \/ On("updater")  /\ UpdaterNext         /\ Others
  \/ On("streams")  /\ EventStreamsNext    /\ Others
  \/ On("webhooks") /\ WebhooksNext        /\ Others
  \/ On("migrations") /\ MigrationsNext    /\ Others

Spec == Init /\ [][Next]_vars
\* Only the liveness of the message persister is asked for.
FairSpec == Spec /\ InboundFair

\* The types of every service.
ServicesTypeOK ==
  /\ focus = "inbound"  => InboundTypeOK
  /\ focus = "sessions" => SessionsTypeOK
  /\ focus = "telegram" => TelegramTypeOK
  /\ focus = "discord"  => DiscordTypeOK
  /\ focus = "feishu"   => FeishuTypeOK
  /\ focus = "sends"    => SendsTypeOK
  /\ focus = "wechat"   => WechatTypeOK
  /\ focus = "qq"       => QqTypeOK
  /\ focus = "tokens"   => TokenTypeOK
  /\ focus = "keys"     => ApiKeysTypeOK
  /\ focus = "gate"     => RequestGateTypeOK
  /\ focus = "ledgers"  => LedgersTypeOK
  /\ focus = "messages" => InboundMessagesTypeOK
  /\ focus = "process"  => PluginProcessTypeOK
  /\ focus = "plugins"  => PluginStoreTypeOK
  /\ focus = "updater"  => UpdaterTypeOK
  /\ focus = "streams"  => EventStreamsTypeOK
  /\ focus = "webhooks" => WebhooksTypeOK
  /\ focus = "migrations" => MigrationsTypeOK
=============================================================================
