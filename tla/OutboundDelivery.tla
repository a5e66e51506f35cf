-------------------------- MODULE OutboundDelivery --------------------------
(***************************************************************************)
(* Sending messages through the gateway: the handlers of                   *)
(* POST /messages/send and POST /messages/batch-send, the per-target tasks *)
(* a batch spawns, the external IM platform, the outbox loop that          *)
(* broadcasts message.sent, the operator's reconciliation, the deletion of *)
(* a session, retention, and a crash of the process at any of these points.*)
(*                                                                         *)
(* One action is what the code does between two await points.  A storage   *)
(* call either takes effect or fails without effect; failures, crashes and *)
(* the slow events (24 h expiry, deletions) are bounded.                   *)
(***************************************************************************)
EXTENDS OutboundStore

CONSTANTS
  Requests,      \* contents clients send (a subset of Contents)
  BatchPermits,  \* permits of a batch's semaphore (5)
  OutboxLimit,   \* rows one outbox round takes (100)
  MaxFaults,     \* bound: storage calls that fail
  MaxCrashes,    \* bound: crashes of the process
  MaxExpiries,   \* bound: expiries of each reservation
  MaxPurges      \* bound: session deletions and retention runs

ASSUME DeliveryAssumption ==
  /\ Requests \subseteq Contents
  /\ BatchPermits \in Nat \ {0} /\ OutboxLimit \in Nat \ {0}
  /\ MaxFaults \in Nat /\ MaxCrashes \in Nat
  /\ MaxExpiries \in Nat /\ MaxPurges \in Nat

VARIABLES
  handler,   \* where each handler is, then how it answered
  task,      \* where the sending of each delivery is
  outcome,   \* results[target] of the request the delivery belongs to
  reply,     \* the results the client was told
  platform,  \* what became of the call at the external platform
  outboxPc,  \* the outbox loop: "idle", or about to "publish" or "mark"
  batch,     \* rows the loop selected and has not dealt with
  heard,     \* events broadcast: <<delivery, delivery_state>>
  purging,   \* targets whose messages a deletion removed, journal not yet
  faults, crashes, expiries, purges

callVars  == <<handler, task, outcome, reply, platform>>
outboxVars == <<outboxPc, batch, heard>>
boundVars == <<faults, crashes, expiries, purges>>
vars == <<storeVars, callVars, outboxVars, purging, boundVars>>

Live     == {"reserving", "running", "completing"}
Answered == {"ok", "replayed", "conflict", "in_progress", "error",
             "timeout", "gone"}
TaskSteps == {"off", "queued", "prepare", "call", "calling",
              "won", "lost", "erred", "ended", "dropped"}

\* Steps at which a delivery's task is at work (a batch holds a permit then).
Busy == {"prepare", "call", "calling", "won", "lost", "erred"}

\* The platform executed the message, refused it, or has yet to decide.
PlatformStates == {"none", "wire", "executed", "refused"}

Events == [row : Deliveries, state : Final, at : Nat]

\* A request past admission has its content, one that reserves has a key.
AdmittedOK ==
  \A r \in Reqs : /\ handler[r] # "idle" => req[r] \in Contents
                  /\ handler[r] = "reserving" => Keyed(r)
                  /\ \A t \in Targets :
                       task[<<r, t>>] # "off" => req[r] \in Contents

VarsTypeOK ==
  /\ StoreTypeOK
  /\ handler \in [Reqs -> {"idle"} \cup Live \cup Answered]
  /\ task \in [Deliveries -> TaskSteps]
  /\ outcome \in [Deliveries -> Outcomes]
  /\ reply \in [Reqs -> Replies]
  /\ platform \in [Deliveries -> PlatformStates]
  /\ outboxPc \in {"idle", "publish", "mark"}
  /\ batch \subseteq Events
  /\ heard \subseteq Deliveries \X Final
  /\ purging \subseteq Targets
  /\ faults \in Nat /\ crashes \in Nat /\ purges \in Nat
  /\ expiries \in [Scopes -> Nat]

\* The tables and the volatile state of the handlers have their types, and a
\* request past admission carries what its handler relies on.
TypeOK == VarsTypeOK /\ AdmittedOK

Init ==
  /\ StoreInit
  /\ handler = [r \in Reqs |-> "idle"]
  /\ task = [d \in Deliveries |-> "off"]
  /\ outcome = [d \in Deliveries |-> "none"]
  /\ reply = [r \in Reqs |-> NoReply]
  /\ platform = [d \in Deliveries |-> "none"]
  /\ outboxPc = "idle" /\ batch = {} /\ heard = {}
  /\ purging = {}
  /\ faults = 0 /\ crashes = 0 /\ purges = 0
  /\ expiries = [s \in Scopes |-> 0]

Batch(r)    == req[r].body \in BatchBodies
OwnTasks(r) == {r} \X TargetsOf[req[r].body]

Fault ==
  /\ faults < MaxFaults
  /\ faults' = faults + 1
  /\ UNCHANGED <<crashes, expiries, purges>>

-----------------------------------------------------------------------------
(* Handlers *)

\* send runs its one delivery inline; a batch spawns one task for each target
\* it may send to, the others already have their outcome.
Launch(r, content, known) ==
  task' = [d \in Deliveries |->
             IF d[1] # r \/ d[2] \notin TargetsOf[content.body] THEN task[d]
             ELSE IF content.body \notin BatchBodies THEN "prepare"
             ELSE IF known[d] = "none" THEN "queued" ELSE "ended"]

\* A validated and authorised request; without a key there is no reservation.
Admit(r, content) ==
  /\ handler[r] = "idle"
  /\ req' = [req EXCEPT ![r] = content]
  /\ \/ /\ content.key = NoKey
        /\ handler' = [handler EXCEPT ![r] = "running"]
        /\ Launch(r, content, outcome')
     \/ /\ content.key # NoKey
        /\ handler' = [handler EXCEPT ![r] = "reserving"]
        /\ UNCHANGED task
  /\ UNCHANGED <<idem, journal, history, clock, reply, platform,
                 outboxVars, purging, boundVars>>

SubmitSend(r, content) ==
  /\ content.body \notin BatchBodies
  /\ outcome' = outcome
  /\ Admit(r, content)

\* A batch goes on when the caller may send to one target at least; targets
\* without permission fail, those that could not be checked are indeterminate.
SubmitBatch(r, content) ==
  /\ content.body \in BatchBodies
  /\ \E verdict \in [TargetsOf[content.body] -> {"none", "failed", "indeterminate"}] :
       /\ \E t \in DOMAIN verdict : verdict[t] = "none"
       /\ outcome' = [d \in Deliveries |->
                        IF d[1] = r /\ d[2] \in DOMAIN verdict
                        THEN verdict[d[2]] ELSE outcome[d]]
  /\ Admit(r, content)

ReserveNew(r) ==
  /\ handler[r] = "reserving"
  /\ Acquires(r)
  /\ Acquire(r)
  /\ handler' = [handler EXCEPT ![r] = "running"]
  /\ Launch(r, req[r], outcome)
  /\ UNCHANGED <<req, journal, history, clock, outcome, reply, platform,
                 outboxVars, purging, boundVars>>

\* The key is taken: replay the stored response, or 409 in two ways.
ReserveTaken(r) ==
  /\ handler[r] = "reserving"
  /\ \/ /\ Replays(r)
        /\ handler' = [handler EXCEPT ![r] = "replayed"]
        /\ reply' = [reply EXCEPT ![r] = idem[Scope(r)].reply]
     \/ /\ Conflicts(r)
        /\ handler' = [handler EXCEPT ![r] = "conflict"]
        /\ UNCHANGED reply
     \/ /\ InProgress(r)
        /\ handler' = [handler EXCEPT ![r] = "in_progress"]
        /\ UNCHANGED reply
  /\ idem' = LiveReservations
  /\ UNCHANGED <<req, journal, history, clock, task, outcome, platform,
                 outboxVars, purging, boundVars>>

ReserveFails(r) ==
  /\ handler[r] = "reserving"
  /\ Fault
  /\ handler' = [handler EXCEPT ![r] = "error"]
  /\ UNCHANGED <<storeVars, task, outcome, reply, platform, outboxVars, purging>>

\* join_all returned before the 30 s were over.
BatchJoin(r) ==
  /\ handler[r] = "running" /\ Batch(r)
  /\ \A d \in OwnTasks(r) : task[d] = "ended"
  /\ handler' = [handler EXCEPT ![r] = "completing"]
  /\ UNCHANGED <<storeVars, task, outcome, reply, platform, outboxVars,
                 purging, boundVars>>

\* The 30 s ran out: the client is told, the spawned tasks go on.
BatchTimesOut(r) ==
  /\ handler[r] = "running" /\ Batch(r)
  /\ \E d \in OwnTasks(r) : task[d] # "ended"
  /\ handler' = [handler EXCEPT ![r] = "timeout"]
  /\ UNCHANGED <<storeVars, task, outcome, reply, platform, outboxVars,
                 purging, boundVars>>

ResultsOf(r) == [t \in Targets |-> outcome[<<r, t>>]]

Complete(r) ==
  /\ handler[r] = "completing"
  /\ \/ Keyed(r) /\ CanComplete(r) /\ CompleteRow(r, ResultsOf(r))
     \/ ~Keyed(r) /\ UNCHANGED idem
  /\ handler' = [handler EXCEPT ![r] = "ok"]
  /\ reply' = [reply EXCEPT ![r] = ResultsOf(r)]
  /\ UNCHANGED <<req, journal, history, clock, task, outcome, platform,
                 outboxVars, purging, boundVars>>

\* The reservation was not pending, or the store fails.
CompleteFails(r) ==
  /\ handler[r] = "completing" /\ Keyed(r)
  /\ IF CanComplete(r) THEN Fault ELSE UNCHANGED boundVars
  /\ handler' = [handler EXCEPT ![r] = "error"]
  /\ UNCHANGED <<storeVars, task, outcome, reply, platform, outboxVars, purging>>

\* The client hangs up: the handler's future is dropped where it stands, and
\* with it an inline delivery; a batch's tasks are detached.
ClientGone(r) ==
  /\ handler[r] \in Live
  /\ handler' = [handler EXCEPT ![r] = "gone"]
  /\ task' = [d \in Deliveries |->
                IF d[1] = r /\ ~Batch(r) /\ task[d] \in Busy
                THEN "dropped" ELSE task[d]]
  /\ UNCHANGED <<storeVars, outcome, reply, platform, outboxVars, purging,
                 boundVars>>

-----------------------------------------------------------------------------
(* One delivery, inline (send) or in its own task (batch-send) *)

TakePermit(d) ==
  /\ task[d] = "queued"
  /\ Cardinality({e \in OwnTasks(d[1]) : task[e] \in Busy}) < BatchPermits
  /\ task' = [task EXCEPT ![d] = "prepare"]
  /\ UNCHANGED <<storeVars, handler, outcome, reply, platform, outboxVars,
                 purging, boundVars>>

PrepareIntent(d) ==
  /\ task[d] = "prepare"
  /\ Prepare(d)
  /\ task' = [task EXCEPT ![d] = "call"]
  /\ UNCHANGED <<req, idem, history, clock, handler, outcome, reply, platform,
                 outboxVars, purging, boundVars>>

\* The end of a delivery: a batch task notes the outcome for the response,
\* the send handler goes on to `next`.
EndTask(d, result, next) ==
  /\ task' = [task EXCEPT ![d] = "ended"]
  /\ outcome' = [outcome EXCEPT ![d] = result]
  /\ handler' = IF Batch(d[1]) THEN handler
                ELSE [handler EXCEPT ![d[1]] = next]

\* Mutant: a batch task calls the platform although the insert failed.
PrepareFails_GoesOn(d) ==
  /\ task[d] = "prepare"
  /\ Fault
  /\ task' = [task EXCEPT ![d] = "call"]
  /\ UNCHANGED <<storeVars, handler, outcome, reply, platform, outboxVars, purging>>

PrepareFails(d) ==
  /\ task[d] = "prepare"
  /\ Fault
  /\ EndTask(d, "failed", "error")
  /\ UNCHANGED <<storeVars, reply, platform, outboxVars, purging>>

StartCall(d) ==
  /\ task[d] = "call"
  /\ task' = [task EXCEPT ![d] = "calling"]
  /\ platform' = [platform EXCEPT ![d] = "wire"]
  /\ UNCHANGED <<storeVars, handler, outcome, reply, outboxVars, purging,
                 boundVars>>

\* No adapter is connected for the target's platform.
CallRefused(d) ==
  /\ task[d] = "call"
  /\ task' = [task EXCEPT ![d] = "erred"]
  /\ UNCHANGED <<storeVars, handler, outcome, reply, platform, outboxVars,
                 purging, boundVars>>

\* The external platform acts on the call whether or not anyone still waits.
PlatformActs(d) ==
  /\ platform[d] = "wire"
  /\ \E s \in {"executed", "refused"} : platform' = [platform EXCEPT ![d] = s]
  /\ UNCHANGED <<storeVars, handler, task, outcome, reply, outboxVars, purging,
                 boundVars>>

CallReturns(d) ==
  /\ task[d] = "calling"
  /\ \/ platform[d] = "executed" /\ task' = [task EXCEPT ![d] = "won"]
     \/ platform[d] = "refused" /\ \E s \in {"lost", "erred"} :
                                      task' = [task EXCEPT ![d] = s]
  /\ UNCHANGED <<storeVars, handler, outcome, reply, platform, outboxVars,
                 purging, boundVars>>

\* The connection to the platform breaks before its answer arrives: the
\* adapter reports SendResult::fail ("lost") or an error ("erred").
CallBreaks(d) ==
  /\ task[d] = "calling"
  /\ \E s \in {"lost", "erred"} : task' = [task EXCEPT ![d] = s]
  /\ UNCHANGED <<storeVars, handler, outcome, reply, platform, outboxVars,
                 purging, boundVars>>

\* Mutant: the call is awaited without a time-out.
CallTimesOut_Never(d) == FALSE

\* 15 s without an answer: the journal row stays pending.
CallTimesOut(d) ==
  /\ task[d] = "calling"
  /\ EndTask(d, "indeterminate", "timeout")
  /\ UNCHANGED <<storeVars, reply, platform, outboxVars, purging, boundVars>>

HasResult == {"won", "lost", "erred"}

Finalize(d) ==
  /\ task[d] \in HasResult
  /\ FinalizeRow(d, IF task[d] = "won" THEN "succeeded" ELSE "failed",
                 task[d] # "erred")
  /\ EndTask(d, IF task[d] = "won" THEN "sent" ELSE "failed",
             IF task[d] = "erred" THEN "error" ELSE "completing")
  /\ UNCHANGED <<req, idem, reply, platform, outboxVars, purging, boundVars>>

\* The row is no longer pending (reconciled, deleted) or the store fails.
FinalizeFails(d) ==
  /\ task[d] \in HasResult
  /\ \/ journal[d].state # "pending" /\ UNCHANGED boundVars
     \/ Fault
  /\ EndTask(d, IF task[d] = "erred" THEN "failed" ELSE "indeterminate", "error")
  /\ UNCHANGED <<storeVars, reply, platform, outboxVars, purging>>

-----------------------------------------------------------------------------
(* The outbox loop, every 250 ms; message.sent always has a receiver, the   *)
(* WebSocket fan-out task subscribed before the loop was spawned.          *)

\* Mutant: the rows are acknowledged when they are selected.
OutboxSelect_AckFirst ==
  /\ outboxPc = "idle" /\ Unpublished # {}
  /\ batch' = {[row |-> d, state |-> journal[d].state, at |-> journal[d].at] :
                 d \in Oldest(OutboxLimit)}
  /\ journal' = [d \in Deliveries |->
                   IF d \in Oldest(OutboxLimit)
                   THEN [journal[d] EXCEPT !.told = TRUE] ELSE journal[d]]
  /\ outboxPc' = "publish"
  /\ UNCHANGED <<req, idem, history, clock, callVars, heard, purging, boundVars>>

OutboxSelect ==
  /\ outboxPc = "idle" /\ Unpublished # {}
  /\ batch' = {[row |-> d, state |-> journal[d].state, at |-> journal[d].at] :
                 d \in Oldest(OutboxLimit)}
  /\ outboxPc' = "publish"
  /\ UNCHANGED <<storeVars, callVars, heard, purging, boundVars>>

IsFirst(e) == e \in batch /\ \A f \in batch : e.at <= f.at

OutboxPublish(e) ==
  /\ outboxPc = "publish" /\ IsFirst(e)
  /\ heard' = heard \cup {<<e.row, e.state>>}
  /\ outboxPc' = "mark"
  /\ UNCHANGED <<storeVars, callVars, batch, purging, boundVars>>

OutboxMark(e) ==
  /\ outboxPc = "mark" /\ IsFirst(e)
  /\ MarkPublished(e.row)
  /\ batch' = batch \ {e}
  /\ outboxPc' = IF batch = {e} THEN "idle" ELSE "publish"
  /\ UNCHANGED <<req, idem, history, clock, callVars, heard, purging, boundVars>>

\* The row is gone or the store fails: the rest of the round is abandoned.
OutboxMarkFails(e) ==
  /\ outboxPc = "mark" /\ IsFirst(e)
  /\ \/ journal[e.row].state \notin Final /\ UNCHANGED boundVars
     \/ Fault
  /\ batch' = {} /\ outboxPc' = "idle"
  /\ UNCHANGED <<storeVars, callVars, heard, purging>>

-----------------------------------------------------------------------------
(* Operators, retention, time and crashes *)

Reconcile(d, subject, state) ==
  /\ ReconcileRow(d, subject, state)
  /\ UNCHANGED <<req, idem, history, callVars, outboxVars, purging, boundVars>>

\* DELETE /sessions/{key}: first the messages, in a later statement the journal.
PurgeMessages(t) ==
  /\ t \notin purging /\ purges < MaxPurges
  /\ DeleteMessages(Reqs \X {t})
  /\ purging' = purging \cup {t}
  /\ purges' = purges + 1
  /\ UNCHANGED <<req, idem, journal, clock, callVars, outboxVars,
                 faults, crashes, expiries>>

PurgeJournal(t) ==
  /\ t \in purging
  /\ DeleteRows(Reqs \X {t}, "deleted")
  /\ purging' = purging \ {t}
  /\ UNCHANGED <<req, idem, history, clock, callVars, outboxVars, boundVars>>

\* 90 days later nothing of a delivery is still at work.
Settled(d) == task[d] \notin Busy \cup {"queued"} /\ platform[d] # "wire"

Retention(d) ==
  /\ Settled(d) /\ Present(d) /\ purges < MaxPurges
  /\ DeleteMessages({d})
  /\ DeleteRows({d}, "expired")
  /\ purges' = purges + 1
  /\ UNCHANGED <<req, idem, clock, callVars, outboxVars, purging,
                 faults, crashes, expiries>>

\* 24 h pass: by then its owner's handler and tasks are long over.
Expire(s) ==
  /\ idem[s].state # "absent" /\ ~idem[s].expired
  /\ expiries[s] < MaxExpiries
  /\ handler[idem[s].owner] \notin Live
  /\ \A t \in Targets : Settled(<<idem[s].owner, t>>)
  /\ idem' = [idem EXCEPT ![s].expired = TRUE]
  /\ expiries' = [expiries EXCEPT ![s] = @ + 1]
  /\ UNCHANGED <<req, journal, history, clock, callVars, outboxVars, purging,
                 faults, crashes, purges>>

\* The process dies and restarts: tables and platform stay, the rest is lost.
Crash ==
  /\ crashes < MaxCrashes
  /\ crashes' = crashes + 1
  /\ handler' = [r \in Reqs |-> IF handler[r] \in Live THEN "gone" ELSE handler[r]]
  /\ task' = [d \in Deliveries |->
                IF task[d] \in Busy \cup {"queued"} THEN "dropped" ELSE task[d]]
  /\ outboxPc' = "idle" /\ batch' = {} /\ purging' = {}
  /\ UNCHANGED <<storeVars, outcome, reply, platform, heard,
                 faults, expiries, purges>>

-----------------------------------------------------------------------------
HandlerStep(r) == \/ ReserveNew(r) \/ ReserveTaken(r) \/ ReserveFails(r)
                  \/ BatchJoin(r) \/ BatchTimesOut(r)
                  \/ Complete(r) \/ CompleteFails(r)

TaskStep(d) == \/ TakePermit(d) \/ PrepareIntent(d) \/ PrepareFails(d)
               \/ StartCall(d) \/ CallRefused(d)
               \/ CallReturns(d) \/ CallTimesOut(d)
               \/ Finalize(d) \/ FinalizeFails(d)

OutboxStep == \/ OutboxSelect
              \/ \E e \in batch :
                   OutboxPublish(e) \/ OutboxMark(e) \/ OutboxMarkFails(e)

Next ==
  \/ \E r \in Reqs : \/ \E content \in Requests : SubmitSend(r, content) \/ SubmitBatch(r, content)
                     \/ HandlerStep(r)
                     \/ ClientGone(r)
  \/ \E d \in Deliveries :
       \/ TaskStep(d)
       \/ CallBreaks(d)
       \/ PlatformActs(d)
       \/ \E s \in Subjects, state \in Final : Reconcile(d, s, state)
       \/ Retention(d)
  \/ OutboxStep
  \/ \E t \in Targets : PurgeMessages(t) \/ PurgeJournal(t)
  \/ \E s \in Scopes : Expire(s)
  \/ Crash

Spec == Init /\ [][Next]_vars

\* The runtime polls every task that can run; timers fire.  Nothing is assumed
\* of clients, operators, the platform or crashes.
Fairness ==
  /\ \A r \in Reqs : WF_vars(HandlerStep(r))
  /\ \A d \in Deliveries : WF_vars(TaskStep(d))
  /\ WF_vars(OutboxStep)

FairSpec == Spec /\ Fairness
-----------------------------------------------------------------------------
(* Safety *)

AtWork(r) ==
  \/ handler[r] \in {"running", "completing"}
  \/ \E t \in Targets : task[<<r, t>>] \in Busy \cup {"queued"}

\* Whoever may still call the platform, or store a response, under a key owns
\* the key's pending reservation, whatever crashed, hung up or timed out.
SenderHoldsReservation ==
  \A r \in Reqs :
    AtWork(r) /\ Keyed(r) =>
      /\ idem[Scope(r)].owner = r
      /\ idem[Scope(r)].state = "pending"
      /\ ~idem[Scope(r)].expired

\* How handlers, tasks and the platform keep step; with the invariant above it
\* is inductive.
InStep ==
  \A r \in Reqs, t \in Targets :
    /\ handler[r] \in {"idle", "reserving"} => task[<<r, t>>] = "off"
    /\ handler[r] = "completing" => task[<<r, t>>] \notin Busy \cup {"queued"}
    /\ task[<<r, t>>] # "off" => t \in TargetsOf[req[r].body]
    /\ task[<<r, t>>] \in {"off", "queued", "prepare", "call"}
         => platform[<<r, t>>] = "none"

RowsOK ==
  \A s \in Scopes :
    /\ idem[s].state = "absent" => idem[s].owner = NoReq
    /\ idem[s].state = "absent" => ~idem[s].expired

\* The requests under a scope that reached the platform.
Senders(s) ==
  {r \in Reqs : /\ Keyed(r) /\ Scope(r) = s
                /\ \E t \in Targets : platform[<<r, t>>] # "none"}

\* A key reaches the platform through one request only until its reservation
\* expires: retries, concurrent duplicates, crashes, hang-ups, time-outs and
\* reconciliations never lead to a second call.
OneSenderPerReservation ==
  \A s \in Scopes : Cardinality(Senders(s)) <= expiries[s] + 1

\* A response, first or replayed, that says a target was sent rests on a
\* message the platform executed for the same subject, key and body, and on
\* a journal row its sender finalised as succeeded.
HonestReply ==
  \A r \in Reqs, t \in Targets :
    reply[r][t] = "sent" =>
      \E o \in Reqs :
        /\ o # r => handler[r] = "replayed" /\ Keyed(r)
        /\ req[o] = req[r]
        /\ platform[<<o, t>>] = "executed"
        /\ journal[<<o, t>>].by = "sender"
        /\ journal[<<o, t>>].state \in {"succeeded"} \cup Removed

\* No platform call without a durable intent, not even across a crash.
NoCallWithoutIntent ==
  \A d \in Deliveries : platform[d] # "none" => journal[d].state # "absent"

\* The journal and the message history agree: a message row exists only for
\* a delivery its sender finalised, and a success has its message row as long
\* as nobody deleted data.
HistoryMatchesJournal ==
  \A d \in Deliveries :
    /\ d \in history => journal[d].by = "sender"
    /\ (purges = 0 /\ journal[d].by = "sender" /\ journal[d].state = "succeeded")
         => d \in history

\* Acknowledging an event never outruns broadcasting it, and what was broadcast
\* is the final state of the row.
OutboxSound ==
  /\ \A d \in Deliveries :
       journal[d].told /\ journal[d].state \in Final
         => <<d, journal[d].state>> \in heard
  /\ \A e \in heard : journal[e[1]].state \in {e[2]} \cup Removed

-----------------------------------------------------------------------------
(* Action properties *)

\* pending goes to a final state once, by the sender or by the operator; the
\* loser of that race never overwrites the winner, only deletion follows.
FinalOnce ==
  [][\A d \in Deliveries :
       journal[d].state \in Final =>
         \/ journal'[d].state \in Removed
         \/ /\ journal'[d].state = journal[d].state
            /\ journal'[d].by = journal[d].by
            /\ journal'[d].at = journal[d].at]_vars

\* What was deleted stays deleted: a late platform answer neither brings the
\* journal row back nor adds a message to the history.
RemovedStaysRemoved ==
  [][\A d \in Deliveries :
       journal[d].state \in Removed =>
         /\ journal'[d].state = journal[d].state
         /\ d \in history' => d \in history]_vars

\* A stored response is never replaced: it goes only with its reservation.
ResponseIsStable ==
  [][\A s \in Scopes :
       idem[s].state = "completed" =>
         \/ idem'[s].reply = idem[s].reply /\ idem'[s].owner = idem[s].owner
         \/ idem[s].expired]_vars

-----------------------------------------------------------------------------
(* Liveness *)

\* A request the gateway admitted is answered, whatever the platform does.
EveryRequestAnswered ==
  \A r \in Reqs : handler[r] \in Live ~> handler[r] \in Answered

\* Every task of a batch ends, with as few permits as there may be and even
\* when the client was answered long before: none waits for ever.
EveryTaskEnds ==
  \A d \in Deliveries :
    task[d] \in Busy \cup {"queued"} ~> task[d] \in {"ended", "dropped"}

\* Every delivery that became final is announced, unless its row is deleted
\* first: neither a crash nor a failed or abandoned round loses the event.
EveryFinalAnnounced ==
  \A d \in Deliveries :
    journal[d].state \in Final ~>
      \/ \E s \in Final : <<d, s>> \in heard
      \/ journal[d].state \in Removed

-----------------------------------------------------------------------------
(* Refinement *)

claimBar == [s \in Scopes |-> IF idem[s].expired THEN NoReq ELSE idem[s].owner]
freeBar  == {r \in Reqs : handler[r] # "idle" /\ req[r].key = NoKey}
usedBar  == {r \in Reqs : handler[r] \notin {"idle", "reserving"}}
sentBar  == {d \in Deliveries : platform[d] # "none"}

Contract == INSTANCE AtMostOnceSend
              WITH Nobody <- NoReq, claim <- claimBar, free <- freeBar,
                   used <- usedBar, sent <- sentBar

\* The handlers, whatever fails around them, keep the idempotency contract.
ImplementsContract == Contract!Spec

-----------------------------------------------------------------------------
(* What the documentation says and the code does not do *)

\* A batch with a call that timed out keeps its reservation pending.
IndeterminateStaysReserved ==
  \A s \in Scopes, t \in Targets :
    idem[s].state = "completed" /\ platform[<<idem[s].owner, t>>] # "none"
      => idem[s].reply[t] # "indeterminate"
=============================================================================
