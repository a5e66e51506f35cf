---------------------------- MODULE PlatformSends ----------------------------
(* One outbound call of a platform adapter: send, send_interactive, send_media, *)
(* send_media_group, send_draft, edit_message and delete_message of the five    *)
(* adapters. A call is a sequence of requests; the platform answers each, or    *)
(* the answer is lost; the adapter repeats the request, takes another way, or   *)
(* replies and announces what became of the message on the bus.                 *)
EXTENDS Integers, Sequences, FiniteSets

CONSTANT MaxCalls                 \* bound: calls
ASSUME SendsAssumption == MaxCalls \in Nat

VARIABLES
  call,             \* the call in progress
  posted,           \* times its message has reached the chat
  told,             \* what it announced: "sent", "failed", or nothing
  doubt,            \* ghost: an answer to a posted message was lost or unreadable
  calls
sendsVars == <<call, posted, told, doubt, calls>>

\* What comes of a request: carried out and answered; carried out, and the answer
\* lost, unreadable or empty; never sent (no network, no access token); or turned
\* down: rate limit, credentials or context expired, no such chat, server error,
\* anything else.
Arrives == {"done", "lost", "garbled", "empty"}
Answers == Arrives \cup {"dropped", "limited", "expired", "missing", "server", "refused"}
NoAnswer == {"lost", "dropped", "garbled"}

\* What the adapter does next: another request, or the reply (an Ok(SendResult)
\* of success or failure, or an Err) with the event it publishes.
To(s) == [at |-> s, end |-> "same", reply |-> "none", again |-> FALSE, event |-> "none"]
Sent == [To("returned") EXCEPT !.reply = "ok", !.event = "sent"]
Failed(again) == [To("returned") EXCEPT !.reply = "fail", !.again = again, !.event = "failed"]
Raised(event) == [To("returned") EXCEPT !.reply = "err", !.event = event]
Quiet(a) == [To("returned") EXCEPT !.reply = IF a = "done" THEN "ok" ELSE "fail"]

-----------------------------------------------------------------------------
\* Telegram
TelegramCall(a) == a = "done"
TelegramSend(a) == IF TelegramCall(a) THEN Sent ELSE Failed(TRUE)
TelegramInteractive(a) == TelegramSend(a)

\* Data goes in a form, where what goes wrong with the request is raised
\* unannounced; an album that is accepted without a list of messages counts.
TelegramForm(a) ==
  CASE a = "empty" -> Raised("failed")
    [] a \in NoAnswer -> Raised("none")
    [] OTHER -> TelegramSend(a)
TelegramAlbum(a) == IF a = "empty" THEN Sent ELSE TelegramForm(a)

TelegramMedia(a) ==
  CASE call.source = "none" -> Failed(FALSE)
    [] call.source = "url" -> TelegramSend(a)
    [] OTHER -> TelegramForm(a)
TelegramGroup(a) ==
  CASE call.source = "none" -> Raised("none")
    [] call.source = "url" -> TelegramSend(a)
    [] OTHER -> TelegramAlbum(a)

TelegramDraft(a) == Quiet(a)
TelegramEdit(a) == Quiet(a)
TelegramDelete(a) == Quiet(a)

-----------------------------------------------------------------------------
\* Discord: api_call repeats a rate-limited request once; the error class decides
\* whether the failure may be repeated.
DiscordTransient(a) == a \in {"lost", "dropped", "server", "limited"}
DiscordSend(a) == IF a = "done" THEN Sent ELSE Failed(DiscordTransient(a))
DiscordInteractive(a) == DiscordSend(a)
DiscordDraft(a) == Quiet(a)
DiscordEdit(a) == Quiet(a)
DiscordDelete(a) == IF a \in {"lost", "dropped"} THEN Raised("none") ELSE Quiet(a)

\* The file is fetched first: bad base64 is raised, the rest is announced.
DiscordFetch(a) ==
  CASE a = "done" /\ call.source # "none" -> To("post")
    [] a = "garbled" /\ call.source = "data" -> Raised("none")
    [] OTHER -> Failed(call.source = "url" /\ a \in NoAnswer)

DiscordUpload(a) ==
  CASE a = "done" -> Sent
    [] a \in {"garbled", "empty"} -> Raised("none")
    [] OTHER -> Failed(a \in {"lost", "dropped", "limited"})

DiscordMedia(a) == IF call.at = "fetch" THEN DiscordFetch(a) ELSE DiscordUpload(a)

-----------------------------------------------------------------------------
\* Feishu and QQ repeat a request whose access token was refused, with a new one.

FeishuCall(a) == a = "done"
FeishuSend(a) == IF FeishuCall(a) THEN Sent ELSE Failed(TRUE)
FeishuInteractive(a) == FeishuSend(a)

\* Fetched, uploaded for a key, then sent by key; the first two raise.
FeishuFetch(a) == IF a = "done" /\ call.source # "none" THEN To("store") ELSE Raised("none")
FeishuStore(a) == IF a = "done" THEN To("post") ELSE Raised("none")
FeishuMedia(a) ==
  CASE call.at = "fetch" -> FeishuFetch(a)
    [] call.at = "store" -> FeishuStore(a)
    [] OTHER -> FeishuSend(a)
FeishuEdit(a) == IF a = "done" THEN Quiet(a) ELSE Raised("none")
FeishuDelete(a) == Quiet(a)

-----------------------------------------------------------------------------
\* QQ posts to one of three end points. A chat no message has come from is tried
\* as a channel, a group and a user, as long as the answer is "not found".
QqNext == [channel |-> "group", group |-> "user"]
QqTry(a) ==
  IF a = "missing" /\ call.end \in DOMAIN QqNext
  THEN [To("post") EXCEPT !.end = QqNext[call.end]]
  ELSE IF a = "done" THEN Sent ELSE Failed(TRUE)
QqSend(a) == QqTry(a)
QqInteractive(a) == QqTry(a)

\* Only channels edit; deletion takes the same ways as sending.
QqEdit(a) == IF call.end = "direct" /\ call.kind # "channel" THEN Quiet("refused") ELSE Quiet(a)
QqDelete(a) == IF QqTry(a).reply = "none" THEN QqTry(a) ELSE Quiet(a)

\* The picture as a message: markdown first; a group that has no markdown gets a
\* file, a user a picture alone.
QqImage(a) ==
  CASE a = "refused" /\ call.body = "markdown" /\ call.kind = "group" -> To("regroup")
    [] a \in {"refused", "garbled"} /\ call.body = "markdown" /\ call.kind = "user" -> To("image")
    [] OTHER -> QqTry(a)

QqFetch(a) ==
  IF a = "done" /\ call.source # "none" THEN To(IF call.text THEN "store" ELSE "file")
  ELSE IF call.last = "raise" THEN Raised("none") ELSE To(call.last)

\* With text: store the file and send a message about it, and if either fails
\* send the file at once; without: at once. Then the other end point.
QqUpload(a) ==
  CASE a = "done" /\ call.at = "store" -> To("about")
    [] a = "done" /\ call.at # "store" -> Sent
    [] a # "done" /\ call.at # "file" -> To("file")
    [] a # "done" /\ call.at = "file" /\ Len(call.ends) > 1 -> To("next")
    [] OTHER -> IF call.last = "raise" THEN Raised("none") ELSE To(call.last)

QqMedia(a) ==
  CASE call.at = "fetch" -> QqFetch(a)
    [] call.at = "post" -> QqImage(a)
    [] OTHER -> QqUpload(a)

-----------------------------------------------------------------------------
\* WeChat: an error of the request is announced and raised, a refusal replied.
WechatSend(a) ==
  CASE a \in {"done", "empty"} -> Sent
    [] a \in {"refused", "missing", "limited", "expired"} -> Failed(FALSE)
    [] OTHER -> Raised("failed")

\* The file is fetched, a place for it asked for, put there, and sent by its place.
WechatFetch(a) == IF a = "done" /\ call.source # "none" THEN To("place") ELSE Raised("none")
WechatPlace(a) == IF a = "done" THEN To("store") ELSE Raised("none")
WechatStore(a) == IF a = "done" THEN To("post") ELSE Raised("none")
WechatMediaSent(a) == WechatSend(a)
WechatMedia(a) ==
  CASE call.at = "fetch" -> WechatFetch(a)
    [] call.at = "place" -> WechatPlace(a)
    [] call.at = "store" -> WechatStore(a)
    [] OTHER -> WechatMediaSent(a)

-----------------------------------------------------------------------------
Ops == [telegram |-> {"text", "interactive", "media", "group", "draft", "edit", "delete"},
        discord  |-> {"text", "interactive", "media", "draft", "edit", "delete"},
        feishu   |-> {"text", "interactive", "media", "edit", "delete"},
        qq       |-> {"text", "interactive", "media", "edit", "delete"},
        wechat   |-> {"text", "media"}]
Texts2 == {"text", "interactive"}

Handle(a) ==
  CASE call.p = "telegram" -> CASE call.op = "text" -> TelegramSend(a) [] call.op = "interactive" -> TelegramInteractive(a)
                                [] call.op = "media" -> TelegramMedia(a) [] call.op = "group" -> TelegramGroup(a)
                                [] call.op = "draft" -> TelegramDraft(a) [] call.op = "edit" -> TelegramEdit(a)
                                [] OTHER -> TelegramDelete(a)
    [] call.p = "discord" -> CASE call.op = "text" -> DiscordSend(a) [] call.op = "interactive" -> DiscordInteractive(a)
                               [] call.op = "media" -> DiscordMedia(a) [] call.op = "draft" -> DiscordDraft(a)
                               [] call.op = "edit" -> DiscordEdit(a) [] OTHER -> DiscordDelete(a)
    [] call.p = "feishu" -> CASE call.op = "text" -> FeishuSend(a) [] call.op = "interactive" -> FeishuInteractive(a)
                              [] call.op = "media" -> FeishuMedia(a) [] call.op = "edit" -> FeishuEdit(a)
                              [] OTHER -> FeishuDelete(a)
    [] call.p = "qq" -> CASE call.op = "text" -> QqSend(a) [] call.op = "interactive" -> QqInteractive(a)
                          [] call.op = "media" -> QqMedia(a) [] call.op = "edit" -> QqEdit(a) [] OTHER -> QqDelete(a)
    [] OTHER -> IF call.op = "text" THEN WechatSend(a) ELSE WechatMedia(a)

\* Requests that are made once more: rate limited, in Discord's api_call; with an
\* access token the platform refused and a new one now; with a context token that
\* WeChat calls expired, which is forgotten.
LimitedAgain(a) == call.p = "discord" /\ a = "limited" /\ call.op \notin {"media", "delete"}

\* Mutant: a request without an answer is repeated too.
RefusedAgain_WhenLost(a) == call.p \in {"feishu", "qq"} /\ a \in {"expired", "lost"} /\ call.at # "fetch"

RefusedAgain(a) == call.p \in {"feishu", "qq"} /\ a = "expired" /\ call.at # "fetch"
ContextAgain(a) == call.p = "wechat" /\ a = "expired" /\ call.at = "post" /\ call.ctx
Repeats(a) == ~call.tried /\ (LimitedAgain(a) \/ RefusedAgain(a) \/ ContextAgain(a))

NoSend == [p |-> "telegram", op |-> "text", at |-> "returned", reply |-> "ok", again |-> FALSE, source |-> "url",
           kind |-> "user", end |-> "direct", ends |-> <<>>, body |-> "text", last |-> "raise",
           text |-> FALSE, ctx |-> FALSE, tried |-> FALSE]

SendsInit == call = NoSend /\ posted = 0 /\ told = "sent" /\ doubt = FALSE /\ calls = 0

\* The first request of a QQ media call: files for a group, and for data sent to
\* a user or an unknown chat; else the picture as a message.
QqBegins(c, known) ==
  CASE known /\ c.kind = "group" -> [c EXCEPT !.at = "fetch", !.ends = <<"group", "user">>]
    [] c.source = "data" /\ ~(known /\ c.kind \in {"channel", "group"}) ->
         [c EXCEPT !.at = "fetch", !.ends = <<"user", "group">>,
                   !.last = IF known THEN "image" ELSE "markdown"]
    [] OTHER -> [c EXCEPT !.body = IF known /\ c.kind = "user" THEN "image" ELSE "markdown"]

Begin ==
  /\ call.at = "returned" /\ calls < MaxCalls /\ calls' = calls + 1
  /\ \E p \in DOMAIN Ops : \E op \in Ops[p], source \in {"url", "data", "none"},
        kind \in {"channel", "group", "user"}, known \in BOOLEAN, text \in BOOLEAN, ctx \in BOOLEAN :
       LET c == [NoSend EXCEPT !.p = p, !.op = op, !.reply = "none", !.source = source, !.text = text, !.ctx = ctx,
                   !.at = IF op = "media" /\ p \in {"discord", "feishu", "wechat"} THEN "fetch" ELSE "post",
                   !.kind = kind, !.end = IF p = "qq" /\ ~known THEN "channel" ELSE "direct"]
       IN /\ op \notin {"media", "group"} => source = "url"
          /\ p # "qq" => kind = "user" /\ ~known /\ ~text
          /\ p # "wechat" => ~ctx
          /\ call' = IF p = "qq" /\ op = "media" THEN QqBegins(c, known) ELSE c
  /\ posted' = 0 /\ told' = "none" /\ doubt' = FALSE

\* What a platform may answer: a chat is there at one end point only.
RightPlace == IF call.at \in {"store", "about", "file"} /\ call.p = "qq"
              THEN Head(call.ends) = call.kind ELSE call.end \in {"direct", call.kind}
CanAnswer(a) == IF call.p = "qq" /\ call.at # "fetch" /\ ~RightPlace
                THEN a \in {"missing", "dropped", "limited", "expired"} ELSE a # "missing"

\* The message is in the chat after this request.
Posts == call.at \in {"post", "about", "file"} /\ call.op \notin {"edit", "delete"}

Proceed(o) ==
  /\ told' = IF o.at = "returned" /\ o.event # "none" THEN o.event ELSE told
  /\ call' = LET c == [call EXCEPT !.tried = FALSE] IN
       CASE o.at = "returned" -> [c EXCEPT !.at = o.at, !.reply = o.reply, !.again = o.again]
         [] o.end # "same" -> [c EXCEPT !.end = o.end]
         [] o.at \in {"image", "markdown"} ->
              [c EXCEPT !.at = "post", !.body = o.at, !.end = IF @ = "direct" THEN @ ELSE "channel"]
         [] o.at = "regroup" -> [c EXCEPT !.at = "fetch", !.ends = <<"group", "user">>, !.last = "raise"]
         [] o.at = "next" -> [c EXCEPT !.at = IF call.text THEN "store" ELSE "file", !.ends = Tail(@)]
         [] OTHER -> [c EXCEPT !.at = o.at]

Answer(a) ==
  /\ call.at # "returned" /\ CanAnswer(a)
  /\ posted' = IF Posts /\ a \in Arrives THEN posted + 1 ELSE posted
  /\ doubt' = (doubt \/ (Posts /\ a \in Arrives \ {"done"}))
  /\ \/ Repeats(a) /\ call' = [call EXCEPT !.tried = TRUE, !.ctx = FALSE] /\ UNCHANGED told
     \/ (~Repeats(a) \/ call.p \in {"feishu", "qq"}) /\ Proceed(Handle(a))
  /\ UNCHANGED calls

SendsNext == Begin \/ \E a \in Answers : Answer(a)

SendsTypeOK ==
  /\ call.p \in DOMAIN Ops /\ call.op \in Ops[call.p] /\ call.reply \in {"none", "ok", "fail", "err"}
  /\ posted \in Nat /\ told \in {"none", "sent", "failed"} /\ doubt \in BOOLEAN /\ calls \in 0 .. MaxCalls

-----------------------------------------------------------------------------
\* A call leaves its message in the chat at most once, whatever is repeated on
\* the way (rate limit, refused access token, expired context token, the three
\* end points of QQ); only a QQ file whose answer was lost or unreadable may be
\* there again, because the next way is then taken.
AtMostOneDelivery == posted <= 1 \/ (call.p = "qq" /\ call.op = "media" /\ doubt)

\* A message sent by send or send_interactive is announced on the bus once, as it
\* was answered; media is never announced as sent unless the reply says so; and
\* a successful reply means that the message is in the chat.
ToldAsItWent ==
  call.at = "returned" =>
    /\ call.op \in Texts2 => told = IF call.reply = "ok" THEN "sent" ELSE "failed"
    /\ told = "sent" => call.reply = "ok" /\ (calls > 0 => posted > 0)

\* A repeated request does not repeat the message, and neither the caller nor the
\* subscribers of the bus are told of a delivery that did not happen.
RepliesMatchTheChat == AtMostOneDelivery /\ ToldAsItWent
=============================================================================
