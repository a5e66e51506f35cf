-------------------------- MODULE TelegramPolling ---------------------------
(* The inbound side of the Telegram adapter, adapter-telegram/src/lib.rs: long  *)
(* polling of getUpdates with an offset that tells the platform what it may     *)
(* forget, tasks that publish messages after they have looked up the sender's   *)
(* role, and the cache of a group's administrators. Reconnecting starts a new   *)
(* loop while the cancelled one may still be at work. An update is named by its *)
(* id, its position in tgStream; one group chat is modelled.                    *)
EXTENDS Integers, Sequences, FiniteSets, SequencesExt

CONSTANTS
  TgUsers,            \* members of the group
  NoList,             \* the cache has no entry for the chat
  TgPermits,          \* msg_semaphore, 5
  MaxTgUpdates,       \* bound: updates the platform has
  MaxTgFaults,        \* bound: failing calls of getUpdates, getMe and getChatAdministrators
  MaxTgStarts,        \* bound: connects, transport retries and replacements
  MaxTgExits,         \* bound: exits of the process
  MaxTgEvents         \* bound: all of these together

ASSUME TelegramAssumption ==
  /\ TgPermits \in Nat \ {0} /\ MaxTgUpdates \in Nat /\ MaxTgFaults \in Nat
  /\ MaxTgStarts \in Nat /\ MaxTgExits \in Nat /\ MaxTgEvents \in Nat

\* A loop that was cancelled and the one that took its place; a third is not
\* started before the first has ended.
Loops == {1, 2}

VARIABLES
  tgStream,           \* the platform's updates, in order
  confirmed,          \* the platform forgets updates below this id
  groupAdmins,        \* administrators of the group, at the platform
  loop,               \* polling loops
  lastOffset,         \* offset the next loop starts with
  tgUp, authFailed,   \* state is Connected; getUpdates was answered 401 or 403
  tgTasks,            \* spawned message tasks: position -> stage
  listSeen,           \* the list a task's getChatAdministrators returned
  adminCache,
  tgPublished,        \* events on the bus, by update
  handed,             \* ghost: updates a loop has handled
  tgLost,             \* ghost: updates whose task an exit ended
  overlapped,         \* ghost: a change of role that overlapped a lookup, was
                      \* handled twice or by an old adapter, or began the list
  tgFaults, tgStarts, tgExits

telegramVars == <<tgStream, confirmed, groupAdmins, loop, lastOffset, tgUp, authFailed,
                  tgTasks, listSeen, adminCache, tgPublished, handed, tgLost, overlapped,
                  tgFaults, tgStarts, tgExits>>

TgUpdates == [kind : {"private", "group", "callback"}, user : TgUsers, admin : {FALSE}]
             \cup [kind : {"chat_member"}, user : TgUsers, admin : BOOLEAN]
LoopStates == [at : {"off", "poll", "handle", "pause"}, offset : 0 .. MaxTgUpdates + 1,
               batch : Seq(1 .. MaxTgUpdates), cancelled : BOOLEAN, own : BOOLEAN]
Off == [at |-> "off", offset |-> 0, batch |-> <<>>, cancelled |-> FALSE, own |-> FALSE]

TelegramTypeOK ==
  /\ tgStream \in Seq(TgUpdates) /\ Len(tgStream) <= MaxTgUpdates
  /\ confirmed \in 0 .. MaxTgUpdates + 1 /\ lastOffset \in 0 .. MaxTgUpdates + 1
  /\ groupAdmins \subseteq TgUsers /\ overlapped \in BOOLEAN
  /\ loop \in [Loops -> LoopStates] /\ tgUp \in BOOLEAN /\ authFailed \in BOOLEAN
  /\ DOMAIN tgTasks \subseteq 1 .. MaxTgUpdates /\ Range(tgTasks) \subseteq {"queued", "list", "old"}
  /\ listSeen \in [1 .. MaxTgUpdates -> SUBSET TgUsers]
  /\ adminCache = NoList \/ adminCache \subseteq TgUsers
  /\ tgPublished \subseteq 1 .. MaxTgUpdates /\ handed \subseteq 1 .. MaxTgUpdates
  /\ tgLost \subseteq 1 .. MaxTgUpdates
  /\ tgFaults \in 0 .. MaxTgFaults /\ tgStarts \in 0 .. MaxTgStarts /\ tgExits \in 0 .. MaxTgExits

NoTasks == [p \in {} |-> "queued"]

TelegramInit ==
  /\ tgStream = <<>> /\ confirmed = 0 /\ groupAdmins \in SUBSET TgUsers
  /\ loop = [l \in Loops |-> Off] /\ lastOffset = 0
  /\ tgUp = FALSE /\ authFailed = FALSE
  /\ tgTasks = NoTasks /\ listSeen = [p \in 1 .. MaxTgUpdates |-> {}]
  /\ adminCache = NoList
  /\ tgPublished = {} /\ handed = {} /\ tgLost = {} /\ overlapped = FALSE
  /\ tgFaults = 0 /\ tgStarts = 0 /\ tgExits = 0

platform == <<tgStream, confirmed, groupAdmins>>
roles == <<tgTasks, listSeen, adminCache, tgPublished, overlapped>>
polling == <<loop, lastOffset, tgUp, authFailed, handed, tgLost>>
tgBounds == <<tgFaults, tgStarts, tgExits>>

TgRoom == Len(tgStream) + tgFaults + tgStarts + tgExits < MaxTgEvents
Fault == TgRoom /\ tgFaults < MaxTgFaults /\ tgFaults' = tgFaults + 1

-----------------------------------------------------------------------------
\* The platform queues an update; a chat_member update tells a change of role.
PlatformUpdate ==
  /\ TgRoom /\ Len(tgStream) < MaxTgUpdates
  /\ \E u \in TgUpdates :
       /\ u.kind = "chat_member" => u.admin # (u.user \in groupAdmins)
       /\ tgStream' = Append(tgStream, u)
       /\ groupAdmins' = IF u.kind # "chat_member" THEN groupAdmins
                         ELSE IF u.admin THEN groupAdmins \cup {u.user}
                         ELSE groupAdmins \ {u.user}
       /\ overlapped' = (overlapped \/ (u.kind = "chat_member" /\ "list" \in Range(tgTasks)))
  /\ UNCHANGED <<confirmed, tgTasks, listSeen, adminCache, tgPublished, polling, tgBounds>>

\* spawn_polling_task: the present loop is cancelled and a new one starts at the
\* offset the last finished batch left.
SpawnLoop(ls, from) ==
  \E l \in Loops :
    /\ loop[l].at = "off"
    /\ loop' = [m \in Loops |->
         IF m = l THEN [at |-> "poll", offset |-> from, batch |-> <<>>,
                        cancelled |-> FALSE, own |-> TRUE]
         ELSE ls[m]]
    /\ authFailed' = FALSE

Cancelled(own) ==
  [l \in Loops |-> IF loop[l].at = "off" THEN Off
                   ELSE [loop[l] EXCEPT !.cancelled = TRUE, !.own = @ /\ own]]

\* connect asks getMe first; a failure leaves the loops alone.
Connect ==
  /\ TgRoom /\ tgStarts < MaxTgStarts /\ tgStarts' = tgStarts + 1
  /\ \/ SpawnLoop(Cancelled(TRUE), lastOffset) /\ tgUp' = TRUE /\ UNCHANGED tgFaults
     \/ Fault /\ UNCHANGED <<loop, authFailed, tgUp>>
  /\ UNCHANGED <<platform, roles, lastOffset, handed, tgLost, tgExits>>

\* retry_transport: the same without getMe, refused after a rejected token.
RetryTransport ==
  /\ tgUp /\ ~authFailed
  /\ TgRoom /\ tgStarts < MaxTgStarts /\ tgStarts' = tgStarts + 1
  /\ SpawnLoop(Cancelled(TRUE), lastOffset)
  /\ UNCHANGED <<platform, roles, lastOffset, tgUp, handed, tgLost, tgFaults, tgExits>>

\* disconnect, and the adapter that replaces a stopped one: it is given the
\* offset of the old (cursor_state, restore_cursor_state); loops and tasks of the
\* old one go on with a cell and a cache nobody else reads.
Replace ==
  /\ tgUp /\ tgUp' = FALSE /\ authFailed' = FALSE
  /\ loop' = Cancelled(FALSE)
  /\ tgTasks' = [p \in DOMAIN tgTasks |-> "old"] /\ listSeen' = [p \in 1 .. MaxTgUpdates |-> {}]
  /\ adminCache' = NoList /\ overlapped' = FALSE
  /\ UNCHANGED <<platform, tgPublished, lastOffset, handed, tgLost, tgBounds>>

\* The loop leaves at the top, where it looks at the cancellation.
Leave(l) ==
  /\ loop[l].at = "poll" /\ loop[l].cancelled
  /\ loop' = [loop EXCEPT ![l] = Off]
  /\ UNCHANGED <<platform, roles, lastOffset, tgUp, authFailed, handed, tgLost, tgBounds>>

-----------------------------------------------------------------------------
\* Mutant: the offset counts as handled when the batch arrives.
PollReturns_StoresEarly(l) ==
  /\ loop[l].at = "poll"
  /\ confirmed' = IF loop[l].offset > confirmed THEN loop[l].offset ELSE confirmed
  /\ LET first == IF confirmed' = 0 THEN 1 ELSE confirmed' IN
       loop' = [loop EXCEPT ![l].at = "handle", ![l].offset = Len(tgStream) + 1,
                  ![l].batch = [i \in 1 .. Len(tgStream) - first + 1 |-> first + i - 1]]
  /\ lastOffset' = Len(tgStream) + 1
  /\ UNCHANGED <<tgStream, groupAdmins, roles, tgUp, authFailed, handed, tgLost, tgBounds>>

\* poll_once returns the updates from the offset on; the request has told the
\* platform to forget what is below it.
PollReturns(l) ==
  /\ loop[l].at = "poll"
  /\ confirmed' = IF loop[l].offset > confirmed THEN loop[l].offset ELSE confirmed
  /\ LET first == IF confirmed' = 0 THEN 1 ELSE confirmed'
         batch == [i \in 1 .. Len(tgStream) - first + 1 |-> first + i - 1] IN
       /\ batch # <<>> \/ confirmed' # confirmed
       /\ loop' = [loop EXCEPT ![l].at = "handle", ![l].batch = batch]
  /\ UNCHANGED <<tgStream, groupAdmins, roles, lastOffset, tgUp, authFailed, handed, tgLost, tgBounds>>

\* poll_once fails: 401 and 403 end the loop for good; a conflict (another
\* getUpdates is under way) and every other error are followed by a pause.
PollFails(l) ==
  /\ loop[l].at = "poll" /\ Fault
  /\ \/ authFailed' = (authFailed \/ loop[l].own) /\ loop' = [loop EXCEPT ![l] = Off]
     \/ loop' = [loop EXCEPT ![l].at = "pause"] /\ UNCHANGED authFailed
  /\ UNCHANGED <<platform, roles, lastOffset, tgUp, handed, tgLost, tgStarts, tgExits>>

PauseEnds(l) ==
  /\ loop[l].at = "pause" /\ loop' = [loop EXCEPT ![l].at = "poll"]
  /\ UNCHANGED <<platform, roles, lastOffset, tgUp, authFailed, handed, tgLost, tgBounds>>

\* update_admin_cache: the member is taken out and, with a role, put back; in a
\* chat without a list the record becomes the list.
ChangeRole(u) ==
  IF adminCache = NoList THEN IF u.admin THEN {u.user} ELSE NoList
  ELSE IF u.admin THEN adminCache \cup {u.user} ELSE adminCache \ {u.user}

\* The loop handles one update of the batch: a callback is published, a role
\* changed, a message given to a task of its own.
HandleUpdate(l) ==
  /\ loop[l].at = "handle" /\ loop[l].batch # <<>>
  /\ LET p == Head(loop[l].batch) u == tgStream[p] IN
       /\ loop' = [loop EXCEPT ![l].batch = Tail(@), ![l].offset = IF p >= @ THEN p + 1 ELSE @]
       /\ handed' = handed \cup {p}
       /\ CASE u.kind = "callback" ->
                 tgPublished' = tgPublished \cup {p} /\ UNCHANGED <<tgTasks, adminCache, overlapped>>
            [] u.kind = "chat_member" ->
                 /\ adminCache' = IF loop[l].own THEN ChangeRole(u) ELSE adminCache
                 /\ overlapped' = (overlapped \/ p \in handed \/ ~loop[l].own
                                  \/ (adminCache = NoList /\ u.admin))
                 /\ UNCHANGED <<tgPublished, tgTasks>>
            [] OTHER ->
                 /\ tgTasks' = IF p \in DOMAIN tgTasks THEN tgTasks
                               ELSE [q \in DOMAIN tgTasks \cup {p} |->
                                       IF q # p THEN tgTasks[q] ELSE IF loop[l].own THEN "queued" ELSE "old"]
                 /\ UNCHANGED <<tgPublished, adminCache, overlapped>>
  /\ UNCHANGED <<platform, listSeen, lastOffset, tgUp, authFailed, tgLost, tgBounds>>

\* The batch is done: the offset is stored for a later loop.
EndBatch(l) ==
  /\ loop[l].at = "handle" /\ loop[l].batch = <<>>
  /\ lastOffset' = IF loop[l].own THEN loop[l].offset ELSE lastOffset
  /\ loop' = [loop EXCEPT ![l].at = "poll"]
  /\ UNCHANGED <<platform, roles, tgUp, authFailed, handed, tgLost, tgBounds>>

-----------------------------------------------------------------------------
\* resolve_sender_role, then publish: nothing to look up in a private chat, the
\* cached list, or the list of the platform, which is cached.
Done(p) == [q \in DOMAIN tgTasks \ {p} |-> tgTasks[q]]
Publish(p) == tgPublished' = tgPublished \cup {p} /\ tgTasks' = Done(p)
\* queued tasks wait for a permit, those that ask for a list hold one
Permit == Cardinality({q \in DOMAIN tgTasks : tgTasks[q] = "list"}) < TgPermits

TaskRuns(p) ==
  /\ p \in DOMAIN tgTasks /\ tgTasks[p] = "queued" /\ Permit
  /\ \/ /\ tgStream[p].kind = "private" \/ adminCache # NoList
        /\ Publish(p) /\ UNCHANGED <<listSeen, overlapped>>
     \/ /\ tgStream[p].kind = "group" /\ adminCache = NoList
        /\ tgTasks' = [tgTasks EXCEPT ![p] = "list"]
        /\ listSeen' = [listSeen EXCEPT ![p] = groupAdmins]
        /\ overlapped' = (overlapped \/ \E q \in DOMAIN tgStream \ handed : tgStream[q].kind = "chat_member")
        /\ UNCHANGED tgPublished
  /\ UNCHANGED <<platform, polling, adminCache, tgBounds>>

\* fetch_admin_list answers, or fails: then nothing is cached and the message
\* is published without a role.
ListReturns(p) ==
  /\ p \in DOMAIN tgTasks /\ tgTasks[p] = "list" /\ Publish(p)
  /\ \/ adminCache' = listSeen[p] /\ UNCHANGED tgFaults
     \/ Fault /\ UNCHANGED adminCache
  /\ listSeen' = [listSeen EXCEPT ![p] = {}]
  /\ UNCHANGED <<platform, polling, overlapped, tgStarts, tgExits>>

\* A task of a replaced adapter publishes as well.
OldTaskRuns(p) ==
  /\ p \in DOMAIN tgTasks /\ tgTasks[p] = "old" /\ Publish(p)
  /\ UNCHANGED <<platform, polling, listSeen, adminCache, overlapped, tgBounds>>

\* The process exits; the next one starts with offset 0.
ExitAdapter ==
  /\ TgRoom /\ tgExits < MaxTgExits /\ tgExits' = tgExits + 1
  /\ tgLost' = tgLost \cup (DOMAIN tgTasks \ tgPublished)
  /\ tgTasks' = NoTasks /\ listSeen' = [p \in 1 .. MaxTgUpdates |-> {}]
  /\ adminCache' = NoList /\ overlapped' = FALSE
  /\ loop' = [l \in Loops |-> Off] /\ lastOffset' = 0 /\ tgUp' = FALSE /\ authFailed' = FALSE
  /\ UNCHANGED <<platform, tgPublished, handed, tgFaults, tgStarts>>

TaskStep(p) == TaskRuns(p) \/ ListReturns(p) \/ OldTaskRuns(p)
LoopStep(l) == PollReturns(l) \/ PauseEnds(l) \/ HandleUpdate(l) \/ EndBatch(l) \/ Leave(l)

TelegramNext ==
  \/ PlatformUpdate \/ Connect \/ RetryTransport \/ Replace \/ ExitAdapter
  \/ \E l \in Loops : LoopStep(l) \/ PollFails(l)
  \/ \E p \in 1 .. MaxTgUpdates : TaskStep(p)

-----------------------------------------------------------------------------
\* The platform is told to forget an update only after a loop has handled it
\* (offset and last_offset in polling_loop), whichever loops run, end or are
\* replaced meanwhile; a handled message is published, with a task, or lost to an exit.
ForgottenWereHandled ==
  /\ 1 .. confirmed - 1 \subseteq handed
  /\ \A p \in handed : tgStream[p].kind = "chat_member"
                       \/ p \in tgPublished \cup DOMAIN tgTasks \cup tgLost

\* The cached list is the platform's (resolve_sender_role, update_admin_cache),
\* once every role change was handled, unless a change overlapped a lookup or
\* the list began as a single record.
CachedAdminsAgree ==
  (~overlapped /\ adminCache # NoList /\ DOMAIN tgStream = handed) => adminCache = groupAdmins

\* Both: whichever loops run, end or are replaced, no update is lost, and the
\* changes of role among them have reached the cache.
UpdatesTakeEffect == ForgottenWereHandled /\ CachedAdminsAgree
=============================================================================
