--------------------------- MODULE InboundMessages ---------------------------
(* What the adapters make of a platform's messages before they publish them,   *)
(* and what they remember of the chats for the answers: the chat types that    *)
(* route QQ sends, the context tokens WeChat sends need, the names that enrich *)
(* sessions. Texts, names and media are left out but for their kind.           *)
EXTENDS Integers, FiniteSets, SequencesExt

CONSTANTS ImUsers,                \* people and groups, at every platform
          RouteLimit,             \* CHAT_TYPES_CACHE_LIMIT, CONTEXT_TOKENS_MAX
          NameLimit,              \* MEMBER_CACHE_LIMIT, USER_NAME_CACHE_LIMIT
          NameTtl, NegativeTtl,   \* MEMBER_CACHE_TTL_SECS and its negative form
          MaxImMessages, MaxImClock   \* bounds: messages and lookups in all, time
ASSUME ImAssumption ==
  /\ RouteLimit \in Nat \ {0} /\ NameLimit \in Nat \ {0} /\ NameTtl \in Nat /\ NegativeTtl \in Nat
  /\ MaxImMessages \in Nat /\ MaxImClock \in Nat

VARIABLES
  imOut,            \* what the adapter last published or answered
  imRoutes,         \* QQ: chats with their type, least recently active first
  imTokens,         \* WeChat: senders with their token, oldest capture first
  imNames,          \* the name caches of QQ and Feishu: key to [name, until]
  imClock,
  imChats, imPeers, \* ghosts: QQ chats and WeChat senders, in order of publication
  imLookups         \* ghost: names the platforms were asked for
imVars == <<imOut, imRoutes, imTokens, imNames, imClock, imChats, imPeers, imLookups>>

Nothing == [kind |-> "none"]
InboundMessagesInit ==
  /\ imOut = Nothing /\ imRoutes = <<>> /\ imTokens = <<>> /\ imClock = 0
  /\ imNames = [p \in {"qq", "feishu"} |-> <<>>]
  /\ imChats = <<>> /\ imPeers = <<>> /\ imLookups = 0

Published(platform, kind, chat, chatType, sender, role) ==
  [kind |-> kind, platform |-> platform, chat |-> chat, chatType |-> chatType, sender |-> sender, role |-> role]
Gives(r) == imOut' = r

\* Bounds: messages and lookups in all; conversions that neither read nor change
\* the memory are tried while it is empty.
Room == Len(imChats) + Len(imPeers) + imLookups < MaxImMessages
Fresh == imChats = <<>> /\ imPeers = <<>> /\ imLookups = 0 /\ imClock = 0

(* ---- Telegram ---------------------------------------------------------- *)

\* The parts of a Telegram message in the order they are looked for.
TelegramParts == <<"photo", "document", "video", "audio", "voice", "sticker", "animation", "video_note">>
PartKind == [photo |-> "image", document |-> "file", video |-> "video", audio |-> "audio", voice |-> "audio",
             sticker |-> "sticker", animation |-> "animation", video_note |-> "video"]
TelegramKind(parts) ==
  LET first == SelectInSeq(TelegramParts, LAMBDA p : p \in parts) IN IF first = 0 THEN "text" ELSE PartKind[TelegramParts[first]]

TelegramChatType(t) == CASE t \in {"group", "supergroup"} -> "group" [] t = "channel" -> "channel" [] OTHER -> "dm"

\* A post without an author is published as from user 0, with no role.
TelegramMessage(m) ==
  Published("telegram", TelegramKind(m.parts), m.chat, TelegramChatType(m.type),
            IF m.from = "nobody" THEN "0" ELSE m.from, IF m.from = "nobody" THEN "none" ELSE m.role)

ImTelegram ==
  \E chat \in ImUsers, from \in {"nobody", "someone"}, type \in {"private", "supergroup", "channel"},
     parts \in {{}, {"video_note"}, {"animation", "document"}} :
    Gives(TelegramMessage([chat |-> chat, from |-> from, type |-> type, parts |-> parts, role |-> "member"]))

\* A button below a message sent in inline mode comes without its chat.
ImCallback ==
  \E chat \in ImUsers \cup {"inline"} : Gives([kind |-> "callback", platform |-> "telegram", chat |-> chat])

(* ---- Discord ----------------------------------------------------------- *)

DiscordRole(m) ==
  CASE m.author = "bot" -> "bot" [] ~m.guild -> "none" [] m.author = "owner" -> "owner"
    [] OTHER -> IF m.admin THEN "admin" ELSE "member"

ContentKind(type) == IF type \in {"image", "video", "audio"} THEN type ELSE "file"
DiscordKind(attachments) == IF attachments = <<>> THEN "text" ELSE ContentKind(attachments[1])

\* The bot's own messages are not published.
ImDiscord ==
  \E chat \in ImUsers, author \in {"bot", "owner", "user"}, guild, admin \in BOOLEAN, attachments \in {<<>>, <<"pdf", "image">>} :
    Gives(Published("discord", DiscordKind(attachments), chat, IF guild THEN "group" ELSE "dm", author,
                    DiscordRole([author |-> author, guild |-> guild, admin |-> admin])))

\* Private channels and guilds are asked for in two requests; one that fails
\* leaves its part out of the answer.
DiscordChats == \E wanted \in {{"dm"}, {"group"}, {"dm", "group"}} : \E got \in SUBSET wanted : Gives([kind |-> "chats", types |-> got])

\* The channel's name, when the request succeeds.
DiscordEnrich == \E got \in BOOLEAN : Gives([kind |-> "source", name |-> got, known |-> got])

(* ---- Feishu ------------------------------------------------------------ *)

FeishuKinds == [image |-> "image", audio |-> "audio", file |-> "file", sticker |-> "sticker", media |-> "video",
                post |-> "richtext", interactive |-> "interactive", share_chat |-> "share", text |-> "text"]
FeishuKind(t) == IF t \in DOMAIN FeishuKinds THEN FeishuKinds[t] ELSE "text"
ImFeishu ==
  \E chat \in ImUsers, type \in {"dm", "group"}, t \in {"media", "post", "location"} :
    Gives(Published("feishu", FeishuKind(t), chat, type, "someone", "none"))

(* ---- names ------------------------------------------------------------- *)

Unexpired(cache) == {k \in DOMAIN cache : cache[k].until > imClock}

\* Expired names go first; if that is not enough, the one that expires first.
Evicted(cache) ==
  LET live == Unexpired(cache)
  IN IF Cardinality(DOMAIN cache) <= NameLimit THEN {cache}
     ELSE IF Cardinality(live) <= NameLimit THEN {Restrict(cache, live)}
     ELSE {Restrict(cache, live \ {k}) : k \in {j \in live : \A i \in live : cache[j].until <= cache[i].until}}

Names(p, k, found, ttl) ==
  \E c \in Evicted([j \in DOMAIN imNames[p] \cup {k} |-> IF j = k THEN [name |-> found, until |-> imClock + ttl] ELSE imNames[p][j]]) :
    imNames' = [imNames EXCEPT ![p] = c]

\* A lookup at the platform, which may fail or find nothing.
Asks(p, k, ttl, failedTtl) ==
  /\ Room /\ imLookups' = imLookups + 1
  /\ \E found \in BOOLEAN : Names(p, k, found, IF found THEN ttl ELSE failedTtl) /\ Gives([kind |-> "source", name |-> found, known |-> found \/ p = "feishu"])

FromCache(p, k) == k \in Unexpired(imNames[p]) /\ Gives([kind |-> "source", name |-> imNames[p][k].name, known |-> TRUE]) /\ UNCHANGED <<imNames, imLookups>>

\* QQ: members of groups only. A failed lookup answers nothing and is not
\* repeated for NegativeTtl.
QqEnrich == \E k \in ImUsers : FromCache("qq", k) \/ (k \notin Unexpired(imNames["qq"]) /\ Asks("qq", k, NameTtl, NegativeTtl))

FeishuEnrich == \E k \in ImUsers : FromCache("feishu", k) \/ (k \notin Unexpired(imNames["feishu"]) /\ Asks("feishu", k, NameTtl, NameTtl))

(* ---- QQ ---------------------------------------------------------------- *)

Without(s, key) == RemoveFirstMatch(s, LAMBDA e : e.key = key)
LastOf(s, n) == SubSeq(s, IF Len(s) > n THEN Len(s) - n + 1 ELSE 1, Len(s))

\* Mutant: an entry that is there keeps its place.
Routed_InPlace(s, e) == IF \E i \in DOMAIN s : s[i].key = e.key THEN [i \in DOMAIN s |-> IF s[i].key = e.key THEN e ELSE s[i]] ELSE LastOf(Append(s, e), RouteLimit)

\* The entry moves to the end; beyond the limit the first one leaves.
Routed(s, e) == LastOf(Append(Without(s, e.key), e), RouteLimit)

QqKind(type, attachments, image) ==
  IF attachments # <<>> THEN ContentKind(attachments[1])
  ELSE IF type # 0 THEN (IF image THEN "image" ELSE "file") ELSE "text"

MemberRole(r) == IF r \in {"owner", "admin", "member"} THEN r ELSE "none"

QqPublish(kind, chat, chatType, sender, role) ==
  /\ Room
  /\ imRoutes' = Routed(imRoutes, [key |-> chat, type |-> chatType])
  /\ imChats' = Append(imChats, [key |-> chat, type |-> chatType])
  /\ Gives(Published("qq", kind, chat, chatType, sender, role)) /\ UNCHANGED <<imTokens, imNames, imPeers, imLookups>>

\* A mention in a channel; the bot's own message is not published.
QqChannel == \E a \in {<<>>, <<"image">>} : QqPublish(QqKind(0, a, FALSE), "channel", "channel", "someone", "none")

\* A message in a group, with or without a mention of the bot.
QqGroupMention == \E role \in {"owner", "none"} : QqPublish(QqKind(0, <<>>, FALSE), "group", "group", "member", MemberRole(role))
QqGroup == \E type \in {0, 7}, image \in BOOLEAN : QqPublish(QqKind(type, <<>>, image), "group", "group", "member", MemberRole("none"))

\* A private message: the chat is the user.
QqPrivate == \E u \in ImUsers : QqPublish(QqKind(0, <<>>, FALSE), u, "dm", u, "none")

\* A chat of unknown type is looked up as a channel, which fails for others.
RouteOf(chat) == LET r == SelectSeq(imRoutes, LAMBDA e : e.key = chat) IN IF r = <<>> THEN "unknown" ELSE r[1].type
QqChatInfo ==
  \E chat \in ImUsers \cup {"channel", "group"} :
    LET asked == RouteOf(chat) \in {"channel", "unknown"}
    IN Gives([kind |-> "info", types |-> IF ~asked THEN {RouteOf(chat)} ELSE IF chat = "channel" THEN {"channel"} ELSE {}])

QqChats == \E wanted \in {"dm", "group"}, ok \in BOOLEAN : Gives([kind |-> "chats", types |-> IF wanted = "group" /\ ok THEN {"group"} ELSE {}])

(* ---- WeChat ------------------------------------------------------------ *)

WechatKinds == <<"text", "image", "audio", "file", "video">>
WechatMessage(m) ==
  Published("wechat", IF m.item \in DOMAIN WechatKinds THEN WechatKinds[m.item] ELSE "unknown",
            IF m.group THEN "group" ELSE m.from, IF m.group THEN "group" ELSE "dm", m.from, IF m.group THEN "member" ELSE "none")

\* The token that an answer needs is kept under the sender, in a group too.
ImWechat ==
  \E from \in ImUsers, group \in BOOLEAN, item \in {0, 1, 3} :
    /\ Room
    /\ imTokens' = Routed(imTokens, [key |-> from, token |-> Len(imPeers) + 1])
    /\ imPeers' = Append(imPeers, [key |-> from, token |-> Len(imPeers) + 1])
    /\ Gives(WechatMessage([from |-> from, group |-> group, item |-> item]))
    /\ UNCHANGED <<imRoutes, imNames, imChats, imLookups>>

ImTick == imClock < MaxImClock /\ imClock' = imClock + 1 /\ UNCHANGED <<imOut, imRoutes, imTokens, imNames, imChats, imPeers, imLookups>>

InboundMessagesNext ==
  \/ Fresh /\ (ImTelegram \/ ImCallback \/ ImDiscord \/ DiscordChats \/ DiscordEnrich \/ ImFeishu \/ QqChats) /\ UNCHANGED <<imRoutes, imTokens, imNames, imClock, imChats, imPeers, imLookups>>
  \/ QqChatInfo /\ UNCHANGED <<imRoutes, imTokens, imNames, imClock, imChats, imPeers, imLookups>>
  \/ (QqEnrich \/ FeishuEnrich) /\ UNCHANGED <<imRoutes, imTokens, imClock, imChats, imPeers>>
  \/ (QqChannel \/ QqGroupMention \/ QqGroup \/ QqPrivate \/ ImWechat) /\ UNCHANGED imClock
  \/ ImTick

\* Types; an answer or a message is of a known kind, from a known platform.
InboundMessagesTypeOK ==
  /\ imOut.kind \in {"none", "callback", "chats", "source", "info", "unknown", "text", "location"} \cup Range(PartKind) \cup Range(FeishuKinds)
  /\ imRoutes \in Seq([key : ImUsers \cup {"channel", "group"}, type : {"dm", "group", "channel"}])
  /\ imTokens \in Seq([key : ImUsers, token : 1..MaxImMessages]) /\ DOMAIN imNames = {"qq", "feishu"}
  /\ imClock \in 0..MaxImClock /\ imLookups \in 0..MaxImMessages

\* The entries an unbounded memory would hold for the keys heard of last.
LastHeard(heard, n) ==
  LET newest == {i \in DOMAIN heard : \A j \in DOMAIN heard : j > i => heard[j].key # heard[i].key}
  IN {heard[i] : i \in {k \in newest : Cardinality({j \in newest : j > k}) < n}}

\* However many chats write and in whatever order, the chats (senders) heard of
\* last are exactly those an answer can be routed to, each with its newest
\* entry: ChatTypeCache::insert and insert_context_token drop only the others.
RecentChatsCanBeAnswered ==
  /\ Range(imRoutes) = LastHeard(imChats, RouteLimit)
  /\ Range(imTokens) = LastHeard(imPeers, RouteLimit)

=============================================================================
