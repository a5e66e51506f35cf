------------------------ MODULE OutboundJournalProofs ------------------------
(***************************************************************************)
(* Proofs about what OutboundDelivery leaves behind: the journal, the      *)
(* message history, the outbox, the number of senders of a key and the     *)
(* responses, and the proof that it implements AtMostOnceSend.             *)
(***************************************************************************)
EXTENDS OutboundDeliveryProofs, FiniteSetTheorems

-----------------------------------------------------------------------------
(* What a step does to the message database *)

Untouched == UNCHANGED <<journal, history, clock>>

Prepared == \E d \in Deliveries : Prepare(d) /\ UNCHANGED <<history, clock>>

\* A row became final; only its sender adds a message, and adds one when the
\* send succeeded.
Closed ==
  \E d \in Deliveries, s \in Final, by \in {"sender", "operator"} :
    /\ SetFinal(d, s, by)
    /\ history' = history \/ (by = "sender" /\ history' = history \cup {d})
    /\ by = "sender" /\ s = "succeeded" => d \in history'

Acknowledged == \E e \in batch : OutboxMark(e)

RowsDeleted ==
  \E ds \in SUBSET Deliveries, why \in Removed :
    /\ DeleteRows(ds, why) /\ clock' = clock
    /\ history' = history \/ (history' \subseteq history /\ purges' # 0)

MessagesDeleted ==
  journal' = journal /\ clock' = clock /\ history' \subseteq history /\ purges' # 0

TablesStep ==
  \/ Untouched \/ Prepared \/ Closed \/ Acknowledged
  \/ RowsDeleted \/ MessagesDeleted

\* Every step changes the message database in one of these six ways.
LEMMA TablesStepped ==
  ASSUME TypeOK, [Next]_vars
  PROVE  TablesStep /\ (purges' = 0 => purges = 0)
  <1> USE DEF storeVars, boundVars, TablesStep, Untouched
  <1> DEFINE Goal == TablesStep /\ (purges' = 0 => purges = 0)
  <1>1. ASSUME NEW r \in Reqs, NEW content \in Requests, Admit(r, content)
        PROVE  Goal
    BY <1>1 DEF Admit
  <1>2. ASSUME NEW r \in Reqs, HandlerStep(r) \/ ClientGone(r) PROVE Goal
    BY <1>2 DEF HandlerStep, ReserveNew, ReserveTaken, ReserveFails, BatchJoin,
                BatchTimesOut, Complete, CompleteFails, ClientGone, Fault
  <1>3. ASSUME NEW d \in Deliveries, Finalize(d) PROVE Goal
    <2>1. PICK s \in Final :
            /\ SetFinal(d, s, "sender")
            /\ history' = history \/ history' = history \cup {d}
            /\ s = "succeeded" => d \in history'
      <3>1. CASE task[d] = "won"
        BY <1>3, <3>1 DEF Finalize, FinalizeRow, Final
      <3>2. CASE task[d] # "won"
        BY <1>3, <3>2 DEF Finalize, FinalizeRow, Final
      <3>3. QED
        BY <3>1, <3>2
    <2>2. Closed
      BY <2>1 DEF Closed
    <2>3. QED
      BY <1>3, <2>2 DEF Finalize
  <1>4. ASSUME NEW d \in Deliveries, PrepareIntent(d) PROVE Goal
    BY <1>4 DEF PrepareIntent, Prepared
  <1>5. ASSUME NEW d \in Deliveries,
               TaskStep(d) \/ CallBreaks(d) \/ PlatformActs(d),
               ~Finalize(d), ~PrepareIntent(d)
        PROVE  Goal
    BY <1>5 DEF TaskStep, TakePermit, PrepareFails, StartCall, CallRefused,
                CallReturns, CallTimesOut, FinalizeFails, CallBreaks,
                PlatformActs, Fault
  <1>6. ASSUME NEW d \in Deliveries, NEW s \in Subjects, NEW state \in Final,
               Reconcile(d, s, state)
        PROVE  Goal
    <2>1. SetFinal(d, state, "operator") /\ history' = history
      BY <1>6 DEF Reconcile, ReconcileRow
    <2>2. Closed
      BY <2>1 DEF Closed
    <2>3. QED
      BY <1>6, <2>2 DEF Reconcile
  <1>7. ASSUME NEW d \in Deliveries, Retention(d) PROVE Goal
    <2>1. purges' # 0
      BY <1>7 DEF Retention, TypeOK, VarsTypeOK
    <2>2. QED
      BY <1>7, <2>1 DEF Retention, DeleteMessages, RowsDeleted, Removed
  <1>8. ASSUME NEW t \in Targets, PurgeMessages(t) PROVE Goal
    <2>1. purges' # 0
      BY <1>8 DEF PurgeMessages, TypeOK, VarsTypeOK
    <2>2. QED
      BY <1>8, <2>1 DEF PurgeMessages, DeleteMessages, MessagesDeleted
  <1>9. ASSUME NEW t \in Targets, PurgeJournal(t) PROVE Goal
    <2>1. Reqs \X {t} \in SUBSET Deliveries
      BY DEF Deliveries
    <2>2. QED
      BY <1>9, <2>1 DEF PurgeJournal, RowsDeleted, Removed
  <1>10. CASE OutboxStep
    BY <1>10 DEF OutboxStep, OutboxSelect, OutboxPublish, OutboxMark,
                 OutboxMarkFails, Acknowledged, Fault
  <1>11. ASSUME Crash \/ UNCHANGED vars \/ \E s \in Scopes : Expire(s) PROVE Goal
    BY <1>11 DEF Crash, Expire, vars
  <1>12. QED
    BY <1>1, <1>2, <1>3, <1>4, <1>5, <1>6, <1>7, <1>8, <1>9, <1>10, <1>11
       DEF Next, SubmitSend, SubmitBatch

\* What the statements do to one row.
LEMMA RowStep ==
  ASSUME TypeOK, TablesStep, NEW d \in Deliveries
  PROVE  \/ /\ journal'[d].state = journal[d].state
            /\ journal'[d].by = journal[d].by
            /\ journal'[d].at = journal[d].at
            /\ journal'[d].told = journal[d].told \/ Acknowledged
            /\ d \in history' => d \in history
            /\ d \in history => d \in history' \/ purges' # 0
         \/ /\ journal[d].state = "absent" /\ journal'[d].state = "pending"
            /\ journal'[d].by = journal[d].by
            /\ history' = history
         \/ /\ journal[d].state = "pending" /\ journal'[d].state \in Final
            /\ journal'[d].by \in {"sender", "operator"}
            /\ ~journal'[d].told
            /\ journal'[d].at = clock /\ clock' = clock + 1
            /\ d \in history' => d \in history \/ journal'[d].by = "sender"
            /\ journal'[d].by = "sender" /\ journal'[d].state = "succeeded"
                 => d \in history'
         \/ /\ journal[d].state \in {"pending"} \cup Final
            /\ journal'[d].state \in Removed
            /\ journal'[d].by = journal[d].by
            /\ journal'[d].at = journal[d].at
            /\ d \in history' => d \in history
  <1> USE DEF TypeOK, VarsTypeOK, StoreTypeOK, Rows
  <1>1. CASE Untouched
    BY <1>1 DEF Untouched
  <1>2. ASSUME NEW e \in Deliveries, Prepare(e), UNCHANGED <<history, clock>>
        PROVE  \/ journal'[d] = journal[d] /\ history' = history
               \/ /\ journal[d].state = "absent" /\ journal'[d].state = "pending"
                  /\ journal'[d].by = journal[d].by
                  /\ history' = history
    BY <1>2 DEF Prepare
  <1>3. ASSUME NEW e \in Deliveries, NEW s \in Final, NEW by \in {"sender", "operator"},
               SetFinal(e, s, by),
               history' = history \/ (by = "sender" /\ history' = history \cup {e}),
               by = "sender" /\ s = "succeeded" => e \in history'
        PROVE  \/ /\ journal'[d] = journal[d]
                  /\ d \in history' <=> d \in history
               \/ /\ journal[d].state = "pending" /\ journal'[d].state \in Final
                  /\ journal'[d].by \in {"sender", "operator"}
                  /\ ~journal'[d].told
                  /\ journal'[d].at = clock /\ clock' = clock + 1
                  /\ d \in history' => d \in history \/ journal'[d].by = "sender"
                  /\ journal'[d].by = "sender" /\ journal'[d].state = "succeeded"
                       => d \in history'
    <2>1. CASE e = d
      BY <1>3, <2>1 DEF SetFinal
    <2>2. CASE e # d
      BY <1>3, <2>2 DEF SetFinal
    <2>3. QED
      BY <2>1, <2>2
  <1>4. ASSUME Acknowledged
        PROVE  /\ journal'[d].state = journal[d].state
               /\ journal'[d].by = journal[d].by
               /\ journal'[d].at = journal[d].at
               /\ history' = history
    BY <1>4 DEF Acknowledged, OutboxMark, MarkPublished, Events
  <1>5. ASSUME NEW ds \in SUBSET Deliveries, NEW why \in Removed, DeleteRows(ds, why)
        PROVE  \/ journal'[d] = journal[d]
               \/ /\ journal[d].state \in {"pending"} \cup Final
                  /\ journal'[d].state \in Removed
                  /\ journal'[d].by = journal[d].by
                  /\ journal'[d].at = journal[d].at
    BY <1>5 DEF DeleteRows, Present
  <1>6. CASE RowsDeleted
    BY <1>5, <1>6 DEF RowsDeleted
  <1>7. CASE MessagesDeleted
    BY <1>7 DEF MessagesDeleted
  <1>8. CASE Prepared
    BY <1>2, <1>8 DEF Prepared
  <1>9. CASE Closed
    BY <1>3, <1>9 DEF Closed
  <1>10. QED
    BY <1>1, <1>4, <1>6, <1>7, <1>8, <1>9 DEF TablesStep

-----------------------------------------------------------------------------
(* Deletion is final *)

\* A row that was deleted keeps its tombstone, and no later answer of the
\* platform adds a message for it.
THEOREM DeletionIsFinal == Spec => RemovedStaysRemoved
  <1>1. ASSUME TypeOK, [Next]_vars
        PROVE  \A d \in Deliveries :
                 journal[d].state \in Removed =>
                   /\ journal'[d].state = journal[d].state
                   /\ d \in history' => d \in history
    BY <1>1, TablesStepped, RowStep DEF Removed, Final
  <1>2. QED
    BY <1>1, TypeCorrect, PTL DEF Spec, RemovedStaysRemoved

-----------------------------------------------------------------------------
(* A platform call rests on a durable intent *)

\* What a step does to the sending of one delivery: nothing; its request
\* starts it; its own task or the platform acts; or it is dropped.
Started(d) ==
  /\ task[d] = "off" /\ handler[d[1]] \in {"idle", "reserving"}
  /\ task'[d] \in {"off", "queued", "prepare", "ended"}
  /\ outcome'[d] = outcome[d] \/ outcome'[d] \in {"none", "failed", "indeterminate"}
  /\ platform'[d] = platform[d]

LeftAlone(d) ==
  task'[d] = task[d] /\ outcome'[d] = outcome[d] /\ platform'[d] = platform[d]

Dropped(d) ==
  /\ task[d] \in Busy \cup {"queued"} /\ task'[d] = "dropped"
  /\ outcome'[d] = outcome[d] /\ platform'[d] = platform[d]

LEMMA CallStepped ==
  ASSUME TypeOK, InStep, [Next]_vars, NEW d \in Deliveries
  PROVE  \/ LeftAlone(d) \/ Started(d) \/ Dropped(d)
         \/ TaskStep(d) \/ CallBreaks(d) \/ PlatformActs(d)
  <1> USE DEF TypeOK, VarsTypeOK, StoreTypeOK, Deliveries, storeVars, callVars
  <1> DEFINE Quiet == LeftAlone(d) \/ Started(d) \/ Dropped(d)
  <1>0. PICK q \in Reqs, u \in Targets : d = <<q, u>>
    OBVIOUS
  <1>1. ASSUME NEW r \in Reqs, NEW content \in Requests,
               SubmitSend(r, content) \/ SubmitBatch(r, content)
        PROVE  Quiet
    <2>1. Admit(r, content)
      BY <1>1 DEF SubmitSend, SubmitBatch
    <2>2. CASE r = q
      <3>1. task[d] = "off" /\ handler[q] = "idle"
        BY <1>0, <2>1, <2>2 DEF Admit, InStep
      <3>2. task'[d] \in {"off", "queued", "prepare", "ended"} /\ platform'[d] = platform[d]
        BY <2>1, <3>1 DEF Admit, Launch
      <3>3. outcome'[d] = outcome[d] \/ outcome'[d] \in {"none", "failed", "indeterminate"}
        BY <1>1 DEF SubmitSend, SubmitBatch
      <3>4. QED
        BY <1>0, <3>1, <3>2, <3>3 DEF Started
    <2>3. CASE r # q
      <3>1. task'[d] = task[d] /\ platform'[d] = platform[d]
        BY <1>0, <2>1, <2>3 DEF Admit, Launch
      <3>2. outcome'[d] = outcome[d]
        BY <1>0, <1>1, <2>3 DEF SubmitSend, SubmitBatch
      <3>3. QED
        BY <3>1, <3>2 DEF LeftAlone
    <2>4. QED
      BY <2>2, <2>3
  <1>2. ASSUME NEW r \in Reqs, ReserveNew(r) PROVE Quiet
    <2>1. CASE r = q
      BY <1>0, <1>2, <2>1 DEF ReserveNew, Launch, InStep, Started
    <2>2. CASE r # q
      BY <1>0, <1>2, <2>2 DEF ReserveNew, Launch, LeftAlone
    <2>3. QED
      BY <2>1, <2>2
  <1>3. ASSUME NEW r \in Reqs,
               \/ ReserveTaken(r) \/ ReserveFails(r) \/ BatchJoin(r)
               \/ BatchTimesOut(r) \/ Complete(r) \/ CompleteFails(r)
        PROVE  Quiet
    BY <1>3 DEF ReserveTaken, ReserveFails, BatchJoin, BatchTimesOut, Complete,
                CompleteFails, LeftAlone
  <1>4. ASSUME NEW r \in Reqs, ClientGone(r) PROVE Quiet
    BY <1>4 DEF ClientGone, LeftAlone, Dropped
  <1>5. ASSUME NEW e \in Deliveries, e # d,
               TaskStep(e) \/ CallBreaks(e) \/ PlatformActs(e)
        PROVE  Quiet
    BY <1>5 DEF TaskStep, TakePermit, PrepareIntent, PrepareFails, StartCall,
                CallRefused, CallReturns, CallTimesOut, Finalize, FinalizeFails,
                CallBreaks, PlatformActs, EndTask, LeftAlone
  <1>6. CASE Elsewhere
    <2>1. outcome' = outcome
      BY <1>6 DEF Elsewhere, OutboxStep, OutboxSelect, OutboxPublish, OutboxMark,
                  OutboxMarkFails, Reconcile, Retention, PurgeMessages,
                  PurgeJournal, Expire, vars
    <2>2. QED
      BY <1>6, <2>1, ElsewhereLeavesCalls DEF LeftAlone
  <1>7. CASE Crash
    BY <1>7 DEF Crash, LeftAlone, Dropped
  <1>8. QED
    BY <1>1, <1>2, <1>3, <1>4, <1>5, <1>6, <1>7 DEF Next, HandlerStep, Elsewhere

\* The tasks past the insert of the journal row.
Calling == {"call", "calling", "won", "lost", "erred"}

IntentKept ==
  \A d \in Deliveries :
    task[d] \in Calling \/ platform[d] # "none" => journal[d].state # "absent"

LEMMA IntentPreserved ==
  ASSUME TypeOK, InStep, IntentKept, [Next]_vars PROVE IntentKept'
  <1> SUFFICES ASSUME NEW d \in Deliveries,
                      task'[d] \in Calling \/ platform'[d] # "none"
               PROVE  journal'[d].state # "absent"
    BY DEF IntentKept
  <1> USE DEF TypeOK, VarsTypeOK, StoreTypeOK
  <1>1. journal[d].state # "absent" => journal'[d].state # "absent"
    BY TablesStepped, RowStep DEF Removed, Final
  <1>2. CASE task[d] \in Calling \/ platform[d] # "none"
    BY <1>1, <1>2 DEF IntentKept
  <1>3. CASE ~(task[d] \in Calling \/ platform[d] # "none")
    <2>1. ~LeftAlone(d) /\ ~Started(d) /\ ~Dropped(d)
      BY <1>3 DEF LeftAlone, Started, Dropped, Calling
    <2>2. PrepareIntent(d)
      BY <1>3, <2>1, CallStepped
         DEF Calling, TaskStep, TakePermit, PrepareFails, StartCall, CallRefused,
             CallReturns, CallTimesOut, Finalize, FinalizeFails, CallBreaks,
             PlatformActs, EndTask, HasResult
    <2>3. QED
      BY <2>2 DEF PrepareIntent, Prepare, Rows
  <1>4. QED
    BY <1>2, <1>3

\* No call reaches the platform before its intent is in the journal, and the
\* journal never forgets that it was.
THEOREM IntentBeforeCall == Spec => []NoCallWithoutIntent
  <1>1. Init => IntentKept
    BY DEF Init, IntentKept, Calling
  <1>2. ASSUME IInv, IntentKept, [Next]_vars PROVE IntentKept'
    BY <1>2, IntentPreserved DEF IInv
  <1>3. IntentKept => NoCallWithoutIntent
    BY DEF IntentKept, NoCallWithoutIntent
  <1>4. QED
    BY <1>1, <1>2, <1>3, ReservationsInductive, PTL DEF Spec

-----------------------------------------------------------------------------
(* Journal and history agree *)

\* A row has an author from the moment it is final, and never before.
AuthorOK ==
  \A d \in Deliveries :
    /\ journal[d].state \in {"absent", "pending"} => journal[d].by = "none"
    /\ journal[d].state \in Final => journal[d].by # "none"

LEMMA AuthorPreserved == ASSUME TypeOK, AuthorOK, [Next]_vars PROVE AuthorOK'
  <1> SUFFICES ASSUME NEW d \in Deliveries
               PROVE  /\ journal'[d].state \in {"absent", "pending"} => journal'[d].by = "none"
                      /\ journal'[d].state \in Final => journal'[d].by # "none"
    BY DEF AuthorOK
  <1>1. QED
    BY TablesStepped, RowStep DEF AuthorOK, Final, Removed

HistoryInv == AuthorOK /\ HistoryMatchesJournal

LEMMA HistoryPreserved ==
  ASSUME TypeOK, HistoryInv, [Next]_vars PROVE HistoryMatchesJournal'
  <1> SUFFICES ASSUME NEW d \in Deliveries
               PROVE  /\ d \in history' => journal'[d].by = "sender"
                      /\ (/\ purges' = 0 /\ journal'[d].by = "sender"
                          /\ journal'[d].state = "succeeded") => d \in history'
    BY DEF HistoryMatchesJournal
  <1>1. purges' = 0 => purges = 0
    BY TablesStepped
  <1>2. QED
    BY <1>1, TablesStepped, RowStep
       DEF HistoryInv, AuthorOK, HistoryMatchesJournal, Final, Removed

\* A message row belongs to a delivery its sender finalised, and a success
\* has its message row until somebody deletes data.
THEOREM HistoryAgrees == Spec => []HistoryMatchesJournal
  <1>1. Init => HistoryInv
    BY DEF Init, StoreInit, HistoryInv, AuthorOK, HistoryMatchesJournal, NoRow, Final
  <1>2. ASSUME TypeOK, HistoryInv, [Next]_vars PROVE HistoryInv'
    BY <1>2, AuthorPreserved, HistoryPreserved DEF HistoryInv
  <1>3. HistoryInv => HistoryMatchesJournal
    BY DEF HistoryInv
  <1>4. QED
    BY <1>1, <1>2, <1>3, TypeCorrect, PTL DEF Spec

-----------------------------------------------------------------------------
(* The outbox *)

\* completed_at is drawn from a clock that never repeats, so it orders the rows
\* that were finalised.
Dated(d) == journal[d].by # "none"

TimesOK ==
  /\ \A d \in Deliveries : Dated(d) => journal[d].at < clock
  /\ \A d, e \in Deliveries :
       Dated(d) /\ Dated(e) /\ journal[d].at = journal[e].at => d = e

LEMMA TimesPreserved ==
  ASSUME TypeOK, AuthorOK, TimesOK, [Next]_vars PROVE TimesOK'
  <1> USE DEF TypeOK, VarsTypeOK, StoreTypeOK, Rows
  <1>1. CASE Closed
    <2>1. PICK c \in Deliveries, s \in Final, by \in {"sender", "operator"} :
            SetFinal(c, s, by)
      BY <1>1 DEF Closed
    <2>2. /\ clock' = clock + 1 /\ Dated(c)' /\ journal'[c].at = clock
          /\ \A d \in Deliveries : d # c => journal'[d] = journal[d]
      BY <2>1 DEF SetFinal, Dated
    <2>3. \A d \in Deliveries : Dated(d)' => journal'[d].at < clock'
      BY <2>2 DEF TimesOK, Dated
    <2>4. \A d, e \in Deliveries :
            Dated(d)' /\ Dated(e)' /\ journal'[d].at = journal'[e].at => d = e
      BY <2>2 DEF TimesOK, Dated
    <2>5. QED
      BY <2>3, <2>4 DEF TimesOK
  <1>2. CASE ~Closed
    <2>1. clock' = clock
      BY <1>2, TablesStepped
         DEF TablesStep, Untouched, Prepared, Acknowledged, OutboxMark,
             RowsDeleted, MessagesDeleted
    <2>2. \A d \in Deliveries : /\ journal'[d].by = journal[d].by
                               /\ journal'[d].at = journal[d].at
      <3>1. CASE Prepared
        BY <3>1 DEF Prepared, Prepare
      <3>2. CASE ~Prepared
        <4>1. TablesStep
          BY TablesStepped
        <4>2. CASE RowsDeleted
          BY <4>2 DEF RowsDeleted, DeleteRows
        <4>3. CASE Acknowledged
          BY <4>3 DEF Acknowledged, OutboxMark, MarkPublished
        <4>4. QED
          BY <1>2, <3>2, <4>1, <4>2, <4>3
             DEF TablesStep, Untouched, MessagesDeleted
      <3>3. QED
        BY <3>1, <3>2
    <2>3. QED
      BY <2>1, <2>2 DEF TimesOK, Dated
  <1>3. QED
    BY <1>1, <1>2

\* What the loop has selected is what the rows said, and still say unless they
\* were deleted; before it acknowledges a row it has broadcast its event.
BatchOK ==
  /\ \A e \in batch : /\ journal[e.row].state \in {e.state} \cup Removed
                      /\ journal[e.row].at = e.at
                      /\ Dated(e.row)
  /\ \A e, f \in batch : e.row = f.row => e = f
  /\ outboxPc = "mark" =>
       \A e \in batch : IsFirst(e) => <<e.row, e.state>> \in heard

OutboxInv == AuthorOK /\ TimesOK /\ BatchOK /\ OutboxSound

\* A final or removed row changes only its told mark, or is removed.
LEMMA DatedRowStep ==
  ASSUME TypeOK, AuthorOK, [Next]_vars, NEW d \in Deliveries, Dated(d)
  PROVE  /\ journal'[d].state \in {journal[d].state} \cup Removed
         /\ journal'[d].at = journal[d].at
         /\ Dated(d)'
  BY TablesStepped, RowStep DEF Dated, AuthorOK, Removed, Final

\* Steps outside the loop move neither it nor the told marks of final rows.
LEMMA OutboxLeft ==
  ASSUME TypeOK, [Next]_vars
  PROVE  OutboxStep \/ Crash \/ (UNCHANGED outboxVars /\ ~Acknowledged)
  <1>1. Acknowledged => ~UNCHANGED outboxVars
    BY DEF Acknowledged, OutboxMark, outboxVars
  <1> HIDE DEF Acknowledged
  <1> USE DEF outboxVars, storeVars, callVars, boundVars
  <1>2. ASSUME NEW r \in Reqs, NEW content \in Requests, Admit(r, content)
        PROVE  UNCHANGED outboxVars
    BY <1>2 DEF Admit
  <1>3. ASSUME NEW r \in Reqs, HandlerStep(r) \/ ClientGone(r)
        PROVE  UNCHANGED outboxVars
    BY <1>3 DEF HandlerStep, ReserveNew, ReserveTaken, ReserveFails, BatchJoin,
                BatchTimesOut, Complete, CompleteFails, ClientGone
  <1>4. ASSUME NEW d \in Deliveries,
               TaskStep(d) \/ CallBreaks(d) \/ PlatformActs(d)
        PROVE  UNCHANGED outboxVars
    BY <1>4 DEF TaskStep, TakePermit, PrepareIntent, PrepareFails, StartCall,
                CallRefused, CallReturns, CallTimesOut, Finalize, FinalizeFails,
                CallBreaks, PlatformActs
  <1>5. ASSUME NEW d \in Deliveries,
               \/ \E s \in Subjects, state \in Final : Reconcile(d, s, state)
               \/ Retention(d)
        PROVE  UNCHANGED outboxVars
    BY <1>5 DEF Reconcile, Retention
  <1>6. ASSUME \/ \E t \in Targets : PurgeMessages(t) \/ PurgeJournal(t)
               \/ \E s \in Scopes : Expire(s)
               \/ UNCHANGED vars
        PROVE  UNCHANGED outboxVars
    BY <1>6 DEF PurgeMessages, PurgeJournal, Expire, vars
  <1>7. QED
    BY <1>1, <1>2, <1>3, <1>4, <1>5, <1>6 DEF Next, SubmitSend, SubmitBatch

LEMMA BatchPreserved ==
  ASSUME TypeOK, OutboxInv, [Next]_vars PROVE BatchOK'
  <1> USE DEF OutboxInv, TypeOK, VarsTypeOK, Events
  <1>1. \A e \in batch : /\ journal'[e.row].state \in {e.state} \cup Removed
                         /\ journal'[e.row].at = e.at
                         /\ Dated(e.row)'
    BY DatedRowStep DEF BatchOK, Removed
  <1>2. CASE UNCHANGED outboxVars
    <2>1. UNCHANGED <<batch, heard, outboxPc>>
      BY <1>2 DEF outboxVars
    <2>2. QED
      BY <1>1, <2>1 DEF BatchOK, IsFirst
  <1>3. CASE Crash
    BY <1>3 DEF Crash, BatchOK
  <1>4. CASE OutboxSelect
    <2>1. journal' = journal /\ outboxPc' # "mark"
      BY <1>4 DEF OutboxSelect, storeVars
    <2>2. \A e \in batch' : /\ e.row \in Unpublished
                            /\ e.state = journal[e.row].state
                            /\ e.at = journal[e.row].at
      <3>1. Oldest(OutboxLimit) \subseteq Unpublished
        BY DEF Oldest
      <3>2. \A e \in batch' : \E d \in Oldest(OutboxLimit) :
               e = [row |-> d, state |-> journal[d].state, at |-> journal[d].at]
        BY <1>4 DEF OutboxSelect
      <3>3. QED
        BY <3>1, <3>2
    <2>3. \A e \in batch' : Dated(e.row)
      BY <2>2 DEF Unpublished, AuthorOK, Dated
    <2>4. \A e, f \in batch' : e.row = f.row => e = f
      BY <1>4 DEF OutboxSelect
    <2>5. QED
      BY <2>1, <2>2, <2>3, <2>4 DEF BatchOK, Dated
  <1>5. ASSUME NEW e \in batch, OutboxPublish(e) PROVE BatchOK'
    <2>1. batch' = batch /\ <<e.row, e.state>> \in heard'
      BY <1>5 DEF OutboxPublish
    <2>2. ASSUME NEW f \in batch, IsFirst(f) PROVE f = e
      <3>1. f.at = e.at
        BY <1>5, <2>2 DEF OutboxPublish, IsFirst
      <3>2. f.row = e.row
        BY <3>1 DEF BatchOK, TimesOK
      <3>3. QED
        BY <3>2 DEF BatchOK
    <2>3. QED
      BY <1>1, <2>1, <2>2 DEF BatchOK, IsFirst
  <1>6. ASSUME NEW e \in batch, OutboxMark(e) PROVE BatchOK'
    BY <1>1, <1>6 DEF OutboxMark, BatchOK
  <1>7. ASSUME NEW e \in batch, OutboxMarkFails(e) PROVE BatchOK'
    BY <1>7 DEF OutboxMarkFails, BatchOK
  <1>8. QED
    BY <1>2, <1>3, <1>4, <1>5, <1>6, <1>7, OutboxLeft DEF OutboxStep

LEMMA OutboxPreserved ==
  ASSUME TypeOK, OutboxInv, [Next]_vars PROVE OutboxSound'
  <1> USE DEF OutboxInv, TypeOK, VarsTypeOK, StoreTypeOK, Events
  <1>1. heard \subseteq heard'
    BY OutboxLeft DEF outboxVars, Crash, OutboxStep, OutboxSelect, OutboxPublish,
                      OutboxMark, OutboxMarkFails
  <1>2. ASSUME NEW d \in Deliveries, journal'[d].told, journal'[d].state \in Final
        PROVE  <<d, journal'[d].state>> \in heard'
    <2>1. CASE journal[d].told /\ journal[d].state = journal'[d].state
      BY <1>1, <1>2, <2>1 DEF OutboxSound
    <2>2. CASE ~(journal[d].told /\ journal[d].state = journal'[d].state)
      <3>1. /\ journal'[d].state = journal[d].state
            /\ Acknowledged /\ ~journal[d].told
        BY <1>2, <2>2, TablesStepped, RowStep DEF Final, Removed, Rows
      <3>2. PICK e \in batch : OutboxMark(e)
        BY <3>1 DEF Acknowledged
      <3>3. e.row = d
        BY <1>2, <3>1, <3>2 DEF OutboxMark, MarkPublished
      <3>4. <<e.row, e.state>> \in heard /\ journal[e.row].state = e.state
        BY <1>2, <3>1, <3>2, <3>3 DEF OutboxMark, BatchOK, Final, Removed
      <3>5. QED
        BY <1>1, <3>1, <3>3, <3>4
    <2>3. QED
      BY <2>1, <2>2
  <1>3. ASSUME NEW h \in heard' PROVE journal'[h[1]].state \in {h[2]} \cup Removed
    <2>1. CASE h \in heard
      <3>1. h[1] \in Deliveries /\ h[2] \in Final /\ journal[h[1]].state \in {h[2]} \cup Removed
        BY <2>1 DEF OutboxSound
      <3>2. QED
        BY <3>1, TablesStepped, RowStep DEF Removed, Final
    <2>2. CASE h \notin heard
      <3>1. PICK e \in batch : OutboxPublish(e)
        BY <1>3, <2>2, OutboxLeft
           DEF outboxVars, Crash, OutboxStep, OutboxSelect, OutboxMark, OutboxMarkFails
      <3>2. h = <<e.row, e.state>> /\ journal' = journal
        BY <1>3, <2>2, <3>1 DEF OutboxPublish, storeVars
      <3>3. QED
        BY <3>2 DEF BatchOK
    <2>3. QED
      BY <2>1, <2>2
  <1>4. QED
    BY <1>2, <1>3 DEF OutboxSound

\* An event is acknowledged only after it was broadcast, and what was broadcast
\* is what the row still says unless it was deleted.
THEOREM OutboxIsSound == Spec => []OutboxSound
  <1>1. Init => OutboxInv
    BY DEF Init, StoreInit, OutboxInv, AuthorOK, TimesOK, BatchOK, OutboxSound,
           Dated, NoRow, Final
  <1>2. ASSUME TypeOK, OutboxInv, [Next]_vars PROVE OutboxInv'
    BY <1>2, AuthorPreserved, TimesPreserved, BatchPreserved, OutboxPreserved
       DEF OutboxInv
  <1>3. OutboxInv => OutboxSound
    BY DEF OutboxInv
  <1>4. QED
    BY <1>1, <1>2, <1>3, TypeCorrect, PTL DEF Spec

-----------------------------------------------------------------------------
(* Reservations and their responses *)

\* A stored response stays what it is, with its owner, until it expires.
THEOREM ResponseStays == Spec => ResponseIsStable
  <1>1. ASSUME TypeOK, [Next]_vars
        PROVE  \A s \in Scopes :
                 idem[s].state = "completed" =>
                   \/ idem'[s].reply = idem[s].reply /\ idem'[s].owner = idem[s].owner
                   \/ idem[s].expired
    <2> SUFFICES ASSUME NEW s \in Scopes, idem[s].state = "completed", ~idem[s].expired
                 PROVE  /\ idem'[s].reply = idem[s].reply
                        /\ idem'[s].owner = idem[s].owner
      OBVIOUS
    <2> USE DEF TypeOK, VarsTypeOK, StoreTypeOK, AdmittedOK
    <2>1. CASE idem' = LiveReservations
      BY <2>1 DEF LiveReservations
    <2>2. ASSUME NEW r \in Reqs, ReserveNew(r) PROVE idem'[s] = idem[s]
      <3>1. Scope(r) # s
        BY <2>2 DEF ReserveNew, Acquires, LiveReservations
      <3>2. QED
        BY <2>2, <3>1 DEF ReserveNew, Acquire, LiveReservations
    <2>3. ASSUME NEW r \in Reqs, Complete(r) PROVE idem'[s] = idem[s]
      <3>1. CASE idem' = idem
        BY <3>1
      <3>2. CASE CanComplete(r) /\ CompleteRow(r, ResultsOf(r))
        <4>1. Scope(r) # s
          BY <3>2 DEF CanComplete
        <4>2. QED
          BY <1>1, <3>2, <4>1 DEF CompleteRow
      <3>3. QED
        BY <2>3, <3>1, <3>2 DEF Complete
    <2>4. ASSUME NEW e \in Scopes, Expire(e)
          PROVE  /\ idem'[s].reply = idem[s].reply
                 /\ idem'[s].owner = idem[s].owner
      BY <2>4 DEF Expire, Reservations
    <2>5. QED
      BY <1>1, <2>1, <2>2, <2>3, <2>4, ReservationStepped DEF ReservationStep
  <1>2. QED
    BY <1>1, TypeCorrect, PTL DEF Spec, ResponseIsStable

\* One more element adds one at most, and a subset has no more elements.
LEMMA OneMore ==
  ASSUME NEW S, NEW x, NEW T, IsFiniteSet(S), T \subseteq S \cup {x}
  PROVE  /\ IsFiniteSet(T)
         /\ Cardinality(T) \in Nat /\ Cardinality(S) \in Nat
         /\ Cardinality(T) <= Cardinality(S) + 1
  <1>0. /\ IsFiniteSet(S \cup {x}) /\ Cardinality(S) \in Nat
        /\ \/ Cardinality(S \cup {x}) = Cardinality(S)
           \/ Cardinality(S \cup {x}) = Cardinality(S) + 1
    BY FS_AddElement, FS_CardinalityType
  <1>1. IsFiniteSet(S \cup {x}) /\ Cardinality(S \cup {x}) <= Cardinality(S) + 1
    BY <1>0
  <1>2. IsFiniteSet(T) /\ Cardinality(T) <= Cardinality(S \cup {x})
    BY <1>1, FS_Subset
  <1>3. /\ Cardinality(T) \in Nat /\ Cardinality(S) \in Nat
        /\ Cardinality(S \cup {x}) \in Nat
    BY <1>1, <1>2, FS_CardinalityType
  <1>4. QED
    BY <1>1, <1>2, <1>3

\* The request that may use a scope now, and the ones that used it before.
Holder(s) == IF idem[s].expired THEN {} ELSE {idem[s].owner}
Spent(s)  == Senders(s) \ Holder(s)

\* Each of the former senders cost an expiry.
SpentOK ==
  \A s \in Scopes : IsFiniteSet(Spent(s)) /\ Cardinality(Spent(s)) <= expiries[s]

\* A request is new among the senders of a scope only by calling the platform,
\* and then it holds the scope.
LEMMA NewSenderHolds ==
  ASSUME IInv, [Next]_vars, NEW s \in Scopes, NEW r \in Reqs,
         r \in Senders(s)', r \notin Senders(s)
  PROVE  idem' = idem /\ r \in Holder(s)
  <1> USE DEF IInv, TypeOK, VarsTypeOK, StoreTypeOK, Deliveries
  <1>1. PICK t \in Targets : platform'[<<r, t>>] # "none"
    BY DEF Senders
  <1> DEFINE d == <<r, t>>
  <1>2. CASE req'[r] = req[r]
    <2>1. Keyed(r) /\ Scope(r) = s
      BY <1>2 DEF Senders, Keyed, Scope
    <2>2. platform[d] = "none"
      BY <2>1 DEF Senders
    <2>3. StartCall(d)
      <3>1. d \in Deliveries /\ platform'[d] # platform[d]
        BY <1>1, <2>2
      <3>2. TaskStep(d) \/ CallBreaks(d) \/ PlatformActs(d)
        BY <3>1, CallStepped DEF LeftAlone, Started, Dropped
      <3>3. QED
        BY <2>2, <3>1, <3>2
           DEF TaskStep, TakePermit, PrepareIntent, PrepareFails, CallRefused,
               CallReturns, CallTimesOut, Finalize, FinalizeFails, CallBreaks,
               PlatformActs
    <2>4. AtWork(r) /\ idem' = idem
      BY <2>3 DEF StartCall, AtWork, Busy, storeVars
    <2>5. QED
      BY <2>1, <2>4 DEF SenderHoldsReservation, Holder
  <1>3. CASE req'[r] # req[r]
    <2>1. PICK q \in Reqs, content \in Requests : Admit(q, content)
      <3>1. ~MovesOn
        BY <1>3 DEF MovesOn
      <3>2. \E q \in Reqs, content \in Requests :
               SubmitSend(q, content) \/ SubmitBatch(q, content)
        BY <3>1, HandlerMovesOn, DeliveryMovesOn, CrashMovesOn, OthersMoveOn DEF Next
      <3>3. QED
        BY <3>2 DEF SubmitSend, SubmitBatch
    <2>2. platform' = platform /\ platform[d] = "none"
      BY <1>3, <2>1 DEF Admit, InStep
    <2>3. QED
      BY <1>1, <2>2
  <1>4. QED
    BY <1>2, <1>3

LEMMA SendersGrow ==
  ASSUME IInv, [Next]_vars, NEW s \in Scopes
  PROVE  \/ Senders(s)' \subseteq Senders(s)
         \/ idem' = idem /\ Senders(s)' \subseteq Senders(s) \cup Holder(s)
  <1>1. Senders(s)' \subseteq Reqs
    BY DEF Senders
  <1>2. QED
    BY <1>1, NewSenderHolds

\* Only an expiry adds to the spent senders, and then one at most.
LEMMA SpentStep ==
  ASSUME IInv, [Next]_vars, NEW s \in Scopes
  PROVE  \/ Spent(s)' \subseteq Spent(s) /\ expiries'[s] = expiries[s]
         \/ /\ Spent(s)' \subseteq Spent(s) \cup {idem[s].owner}
            /\ expiries'[s] = expiries[s] + 1
  <1> USE DEF IInv, TypeOK, VarsTypeOK, StoreTypeOK, AdmittedOK, Spent, Holder
  <1> DEFINE Settles == Spent(s)' \subseteq Spent(s)
  <1>0. Senders(s) \subseteq Reqs /\ Senders(s)' \subseteq Reqs /\ NoReq \notin Reqs
    BY StoreAssumption DEF Senders
  <1>1. ASSUME idem' = idem PROVE Settles
    <2>1. Holder(s)' = Holder(s) /\ Senders(s)' \subseteq Senders(s) \cup Holder(s)
      BY <1>1, SendersGrow
    <2>2. QED
      BY <2>1
  <1>2. ASSUME idem' # idem PROVE Senders(s)' \subseteq Senders(s)
    BY <1>2, SendersGrow
  <1>3. ASSUME idem' = LiveReservations PROVE Settles
    <2>1. CASE idem[s].expired
      <3>1. Spent(s) = Senders(s)
        BY <2>1
      <3>2. QED
        BY <1>1, <1>2, <3>1
    <2>2. CASE ~idem[s].expired
      <3>1. Holder(s)' = Holder(s)
        BY <1>3, <2>2 DEF LiveReservations
      <3>2. QED
        BY <1>1, <1>2, <3>1
    <2>3. QED
      BY <2>1, <2>2
  <1>4. ASSUME NEW r \in Reqs, ReserveNew(r) PROVE Settles
    <2>1. Scope(r) \in Scopes
      BY <1>4, ScopeType DEF ReserveNew
    <2>2. CASE Scope(r) = s
      <3>1. Senders(s) \subseteq Spent(s)
        BY <1>0, <1>4, <2>2 DEF ReserveNew, Acquires, LiveReservations, RowsOK
      <3>2. QED
        BY <1>1, <1>2, <3>1
    <2>3. CASE Scope(r) # s
      <3>1. idem'[s] = LiveReservations[s]
        BY <1>4, <2>1, <2>3 DEF ReserveNew, Acquire, LiveReservations
      <3>2. CASE idem[s].expired
        <4>1. Spent(s) = Senders(s)
          BY <3>2
        <4>2. QED
          BY <1>1, <1>2, <4>1
      <3>3. CASE ~idem[s].expired
        <4>1. Holder(s)' = Holder(s)
          BY <3>1, <3>3 DEF LiveReservations
        <4>2. QED
          BY <1>1, <1>2, <4>1
      <3>4. QED
        BY <3>2, <3>3
    <2>4. QED
      BY <2>2, <2>3
  <1>5. ASSUME NEW r \in Reqs, Complete(r) PROVE Settles
    <2>1. idem'[s].owner = idem[s].owner /\ idem'[s].expired = idem[s].expired
      BY <1>5 DEF Complete, CompleteRow, Reservations
    <2>2. Holder(s)' = Holder(s)
      BY <2>1
    <2>3. QED
      BY <1>1, <1>2, <2>2
  <1>6. ASSUME NEW e \in Scopes, Expire(e)
        PROVE  \/ Settles /\ expiries'[s] = expiries[s]
               \/ /\ Spent(s)' \subseteq Spent(s) \cup {idem[s].owner}
                  /\ expiries'[s] = expiries[s] + 1
    <2>1. Senders(s)' \subseteq Senders(s)
      BY <1>6 DEF Expire, Senders, callVars, Keyed, Scope
    <2>2. CASE e = s
      BY <1>6, <2>1, <2>2 DEF Expire
    <2>3. CASE e # s
      BY <1>6, <2>1, <2>3 DEF Expire
    <2>4. QED
      BY <2>2, <2>3
  <1>7. ASSUME ~\E e \in Scopes : Expire(e) PROVE expiries' = expiries
    BY <1>7 DEF Next, SubmitSend, SubmitBatch, Admit, HandlerStep, ReserveNew,
                ReserveTaken, ReserveFails, BatchJoin, BatchTimesOut, Complete,
                CompleteFails, ClientGone, TaskStep, TakePermit, PrepareIntent,
                PrepareFails, StartCall, CallRefused, CallReturns, CallTimesOut,
                Finalize, FinalizeFails, CallBreaks, PlatformActs, Reconcile,
                Retention, OutboxStep, OutboxSelect, OutboxPublish, OutboxMark,
                OutboxMarkFails, PurgeMessages, PurgeJournal, Crash, Fault,
                boundVars, vars
  <1>8. Settles \/ \E e \in Scopes : Expire(e)
    <2> HIDE DEF Settles
    <2>1. QED
      BY <1>1, <1>3, <1>4, <1>5, ReservationStepped DEF ReservationStep
  <1>9. QED
    BY <1>6, <1>7, <1>8

LEMMA SpentPreserved == ASSUME IInv, SpentOK, [Next]_vars PROVE SpentOK'
  <1> SUFFICES ASSUME NEW s \in Scopes
               PROVE  IsFiniteSet(Spent(s)') /\ Cardinality(Spent(s)') <= expiries'[s]
    BY DEF SpentOK
  <1>1. expiries[s] \in Nat
    BY DEF IInv, TypeOK, VarsTypeOK
  <1>2. IsFiniteSet(Spent(s)) /\ Cardinality(Spent(s)) <= expiries[s]
    BY DEF SpentOK
  <1>3. CASE Spent(s)' \subseteq Spent(s) /\ expiries'[s] = expiries[s]
    <2>1. /\ IsFiniteSet(Spent(s)') /\ Cardinality(Spent(s)') \in Nat
          /\ Cardinality(Spent(s)) \in Nat
          /\ Cardinality(Spent(s)') <= Cardinality(Spent(s))
      BY <1>2, <1>3, FS_Subset, FS_CardinalityType
    <2>2. QED
      BY <1>1, <1>2, <1>3, <2>1
  <1>4. CASE /\ Spent(s)' \subseteq Spent(s) \cup {idem[s].owner}
             /\ expiries'[s] = expiries[s] + 1
    <2>1. /\ IsFiniteSet(Spent(s)')
          /\ Cardinality(Spent(s)') \in Nat /\ Cardinality(Spent(s)) \in Nat
          /\ Cardinality(Spent(s)') <= Cardinality(Spent(s)) + 1
      BY <1>2, <1>4, OneMore
    <2>2. QED
      BY <1>1, <1>2, <1>4, <2>1
  <1>5. QED
    BY <1>3, <1>4, SpentStep

\* A key reaches the platform through one request, plus one for each time its
\* reservation expired.
THEOREM OneSender == Spec => []OneSenderPerReservation
  <1>1. Init => SpentOK
    <2>1. ASSUME Init, NEW s \in Scopes PROVE Spent(s) = {} /\ expiries[s] = 0
      BY <2>1 DEF Init, Spent, Senders, Deliveries
    <2>2. QED
      BY <2>1, FS_EmptySet DEF SpentOK
  <1>2. ASSUME IInv, SpentOK, [Next]_vars PROVE SpentOK'
    BY <1>2, SpentPreserved
  <1>3. ASSUME IInv, SpentOK, NEW s \in Scopes
        PROVE  Cardinality(Senders(s)) <= expiries[s] + 1
    <2>1. Senders(s) \subseteq Spent(s) \cup {idem[s].owner}
      BY DEF Spent, Holder
    <2>2. IsFiniteSet(Spent(s)) /\ Cardinality(Spent(s)) <= expiries[s]
      BY <1>3 DEF SpentOK
    <2>3. expiries[s] \in Nat
      BY <1>3 DEF IInv, TypeOK, VarsTypeOK
    <2>4. /\ Cardinality(Senders(s)) \in Nat /\ Cardinality(Spent(s)) \in Nat
          /\ Cardinality(Senders(s)) <= Cardinality(Spent(s)) + 1
      BY <2>1, <2>2, OneMore
    <2>5. QED
      BY <2>2, <2>3, <2>4
  <1>4. IInv /\ SpentOK => OneSenderPerReservation
    BY <1>3 DEF OneSenderPerReservation
  <1>5. QED
    BY <1>1, <1>2, <1>4, ReservationsInductive, PTL DEF Spec

-----------------------------------------------------------------------------
(* The owner of a reservation *)

Past(r) == handler[r] \notin {"idle", "reserving"}

\* A request past its reservation stays past it, and its content is fixed.
LEMMA PastStays ==
  ASSUME TypeOK, InStep, [Next]_vars, NEW r \in Reqs, Past(r)
  PROVE  Past(r)' /\ req'[r] = req[r]
  <1> USE DEF TypeOK, VarsTypeOK, Past
  <1>1. CASE MovesOn
    <2>1. handler'[r] # "reserving"
      BY <1>1 DEF MovesOn
    <2>2. handler'[r] # "idle"
      <3>1. ASSUME NEW q \in Reqs, NEW content \in Requests, Admit(q, content)
            PROVE  handler'[r] # "idle"
        BY <3>1 DEF Admit
      <3>2. ASSUME NEW q \in Reqs, HandlerStep(q) \/ ClientGone(q)
            PROVE  handler'[r] # "idle"
        BY <3>2 DEF HandlerStep, ReserveNew, ReserveTaken, ReserveFails, BatchJoin,
                    BatchTimesOut, Complete, CompleteFails, ClientGone
      <3>3. ASSUME NEW d \in Deliveries,
                   TaskStep(d) \/ CallBreaks(d) \/ PlatformActs(d)
            PROVE  handler'[r] # "idle"
        <4>1. d[1] \in Reqs
          BY DEF Deliveries
        <4>2. QED
          BY <3>3, <4>1
             DEF TaskStep, TakePermit, PrepareIntent, PrepareFails, StartCall,
                 CallRefused, CallReturns, CallTimesOut, Finalize, FinalizeFails,
                 CallBreaks, PlatformActs, EndTask
      <3>4. CASE Elsewhere
        BY <3>4, ElsewhereLeavesCalls
      <3>5. CASE Crash
        BY <3>5 DEF Crash
      <3>6. QED
        BY <3>1, <3>2, <3>3, <3>4, <3>5
           DEF Next, Elsewhere, SubmitSend, SubmitBatch
    <2>3. QED
      BY <1>1, <2>1, <2>2 DEF MovesOn
  <1>2. ASSUME NEW q \in Reqs, NEW content \in Requests, Admit(q, content)
        PROVE  Past(r)' /\ req'[r] = req[r]
    BY <1>2 DEF Admit, StoreTypeOK
  <1>3. QED
    BY <1>1, <1>2, HandlerMovesOn, DeliveryMovesOn, CrashMovesOn, OthersMoveOn
       DEF Next, SubmitSend, SubmitBatch

\* The owner of a reservation went through it with that key and subject.
OwnersOK ==
  \A s \in Scopes :
    idem[s].state # "absent" =>
      /\ idem[s].owner \in Reqs /\ Past(idem[s].owner)
      /\ Keyed(idem[s].owner) /\ Scope(idem[s].owner) = s

\* A reservation is released, or keeps its owner, or is given to the request
\* that has just reserved it.
LEMMA OwnerStep ==
  ASSUME TypeOK, [Next]_vars, NEW s \in Scopes
  PROVE  \/ idem'[s].state = "absent"
         \/ /\ idem'[s].owner = idem[s].owner /\ idem[s].state # "absent"
            /\ idem[s].state = idem'[s].state => idem'[s].reply = idem[s].reply
         \/ \E r \in Reqs : ReserveNew(r) /\ Scope(r) = s
  <1> USE DEF TypeOK, VarsTypeOK, StoreTypeOK, AdmittedOK
  <1>1. CASE idem' = idem
    BY <1>1
  <1>2. CASE idem' = LiveReservations
    BY <1>2 DEF LiveReservations, NoReservation
  <1>3. ASSUME NEW r \in Reqs, ReserveNew(r), Scope(r) # s
        PROVE  idem'[s] = LiveReservations[s]
    BY <1>3 DEF ReserveNew, Acquire, LiveReservations
  <1>4. ASSUME NEW r \in Reqs, Complete(r)
        PROVE  \/ idem'[s] = idem[s]
               \/ /\ idem'[s].owner = idem[s].owner
                  /\ idem[s].state = "pending" /\ idem'[s].state = "completed"
    <2>1. CASE CanComplete(r) /\ CompleteRow(r, ResultsOf(r))
      BY <2>1 DEF CanComplete, CompleteRow, Reservations
    <2>2. QED
      BY <1>4, <2>1 DEF Complete
  <1>5. ASSUME NEW e \in Scopes, Expire(e)
        PROVE  /\ idem'[s].owner = idem[s].owner /\ idem'[s].state = idem[s].state
               /\ idem'[s].reply = idem[s].reply
    BY <1>5 DEF Expire, Reservations
  <1>6. QED
    BY <1>1, <1>2, <1>3, <1>4, <1>5, ReservationStepped
       DEF ReservationStep, LiveReservations, NoReservation

LEMMA OwnersPreserved ==
  ASSUME IInv, OwnersOK, [Next]_vars PROVE OwnersOK'
  <1> USE DEF IInv
  <1> SUFFICES ASSUME NEW s \in Scopes, idem'[s].state # "absent"
               PROVE  /\ idem'[s].owner \in Reqs /\ Past(idem[s].owner)'
                      /\ Keyed(idem[s].owner)' /\ Scope(idem[s].owner)' = s
    BY DEF OwnersOK
  <1>1. CASE idem'[s].owner = idem[s].owner /\ idem[s].state # "absent"
    <2>1. PICK o \in Reqs : o = idem[s].owner /\ o = idem'[s].owner
      BY <1>1 DEF OwnersOK
    <2>2. Past(o) /\ Keyed(o) /\ Scope(o) = s
      BY <1>1, <2>1 DEF OwnersOK
    <2>3. Past(o)' /\ req'[o] = req[o]
      BY <2>2, PastStays
    <2>4. QED
      BY <2>1, <2>2, <2>3 DEF Past, Keyed, Scope
  <1>2. ASSUME NEW r \in Reqs, ReserveNew(r), Scope(r) = s
        PROVE  /\ idem'[s].owner \in Reqs /\ Past(idem[s].owner)'
               /\ Keyed(idem[s].owner)' /\ Scope(idem[s].owner)' = s
    <2>1. idem'[s].owner = r
      BY <1>2, LiveReservationsType DEF ReserveNew, Acquire, TypeOK, VarsTypeOK
    <2>2. req' = req /\ handler'[r] = "running" /\ Keyed(r)
      BY <1>2 DEF ReserveNew, TypeOK, VarsTypeOK, AdmittedOK
    <2>3. QED
      BY <1>2, <2>1, <2>2 DEF Past, Keyed, Scope
  <1>3. QED
    BY <1>1, <1>2, OwnerStep

LEMMA OwnersInductive == Spec => []OwnersOK
  <1>1. Init => OwnersOK
    BY DEF Init, StoreInit, OwnersOK, NoReservation
  <1>2. ASSUME IInv, OwnersOK, [Next]_vars PROVE OwnersOK'
    BY <1>2, OwnersPreserved
  <1>3. QED
    BY <1>1, <1>2, ReservationsInductive, PTL DEF Spec

-----------------------------------------------------------------------------
(* Implementation of the contract *)

BarsStay == UNCHANGED <<claimBar, freeBar, usedBar, sentBar>>

MapsToContract == Contract!Next \/ BarsStay

\* The abstract variables follow from these four of the program.
LEMMA SameCallsSameBars ==
  ASSUME idem' = idem, req' = req, handler' = handler, platform' = platform
  PROVE  BarsStay
  BY DEF BarsStay, claimBar, freeBar, usedBar, sentBar

LEMMA SubmitMaps ==
  ASSUME IInv, NEW r \in Reqs, NEW content \in Requests, Admit(r, content)
  PROVE  MapsToContract
  <1> USE DEF IInv, TypeOK, VarsTypeOK, StoreTypeOK
  <1>1. handler[r] = "idle" /\ req' = [req EXCEPT ![r] = content]
    BY DEF Admit
  <1>2. claimBar' = claimBar /\ sentBar' = sentBar
    BY DEF Admit, claimBar, sentBar
  <1>3. CASE content.key = NoKey
    <2>1. handler' = [handler EXCEPT ![r] = "running"]
      BY <1>3 DEF Admit
    <2>2. r \notin usedBar /\ usedBar' = usedBar \cup {r}
      BY <1>1, <2>1 DEF usedBar
    <2>3. freeBar' = freeBar \cup {r}
      BY <1>1, <1>3, <2>1 DEF freeBar
    <2>4. Contract!Admit(r)
      BY <1>2, <2>2, <2>3 DEF Contract!Admit
    <2>5. QED
      BY <2>4 DEF MapsToContract, Contract!Next
  <1>4. CASE content.key # NoKey
    <2>1. handler' = [handler EXCEPT ![r] = "reserving"]
      BY <1>4 DEF Admit
    <2>2. usedBar' = usedBar
      BY <1>1, <2>1 DEF usedBar
    <2>3. freeBar' = freeBar
      BY <1>1, <1>4, <2>1 DEF freeBar
    <2>4. QED
      BY <1>2, <2>2, <2>3 DEF MapsToContract, BarsStay
  <1>5. QED
    BY <1>3, <1>4

\* Requests that leave the reservation without it.
LEMMA RefusalMaps ==
  ASSUME TypeOK, req' = req, claimBar' = claimBar, sentBar' = sentBar,
         \A r \in Reqs : handler'[r] = "idle" <=> handler[r] = "idle",
         \A r \in Reqs : Past(r) => Past(r)'
  PROVE  MapsToContract
  <1> DEFINE rs == {r \in Reqs : Past(r)' /\ ~Past(r)}
  <1>1. freeBar' = freeBar
    BY DEF freeBar
  <1>2. rs \cap usedBar = {} /\ usedBar' = usedBar \cup rs /\ rs \in SUBSET Reqs
    BY DEF usedBar, Past
  <1>3. Contract!Refuse(rs)
    BY <1>1, <1>2 DEF Contract!Refuse
  <1>4. QED
    BY <1>2, <1>3 DEF MapsToContract, Contract!Next

LEMMA DroppedClaims ==
  ASSUME TypeOK, RowsOK, idem' = LiveReservations PROVE claimBar' = claimBar
  BY DEF LiveReservations, NoReservation, claimBar

LEMMA HandlerMaps ==
  ASSUME IInv, NEW r \in Reqs, HandlerStep(r) \/ ClientGone(r)
  PROVE  MapsToContract
  <1> USE DEF IInv, TypeOK, VarsTypeOK, StoreTypeOK, AdmittedOK, storeVars
  <1>1. CASE ReserveNew(r)
    <2>1. Scope(r) \in Scopes /\ r # NoReq
      BY <1>1, ScopeType, StoreAssumption DEF ReserveNew
    <2>2. claimBar[Scope(r)] = NoReq
      BY <1>1, <2>1 DEF ReserveNew, Acquires, LiveReservations, claimBar, RowsOK
    <2>3. claimBar' = [claimBar EXCEPT ![Scope(r)] = r]
      <3>1. ASSUME NEW s \in Scopes
            PROVE  claimBar'[s] = IF s = Scope(r) THEN r ELSE claimBar[s]
        BY <1>1, <2>1, LiveReservationsType
           DEF ReserveNew, Acquire, claimBar, LiveReservations, NoReservation
      <3>2. QED
        BY <2>1, <3>1 DEF claimBar
    <2>4. r \notin usedBar /\ usedBar' = usedBar \cup {r}
      BY <1>1 DEF ReserveNew, usedBar
    <2>5. freeBar' = freeBar /\ sentBar' = sentBar
      BY <1>1 DEF ReserveNew, freeBar, sentBar
    <2>6. Contract!Claim(Scope(r), r)
      BY <2>2, <2>3, <2>4, <2>5 DEF Contract!Claim
    <2>7. QED
      BY <2>1, <2>6 DEF MapsToContract, Contract!Next
  <1>2. CASE ReserveTaken(r)
    <2>1. claimBar' = claimBar /\ sentBar' = sentBar /\ req' = req
      BY <1>2, DroppedClaims DEF ReserveTaken, sentBar
    <2>2. \A q \in Reqs : /\ handler'[q] = "idle" <=> handler[q] = "idle"
                          /\ Past(q) => Past(q)'
      BY <1>2 DEF ReserveTaken, Past
    <2>3. QED
      BY <2>1, <2>2, RefusalMaps
  <1>3. CASE ReserveFails(r) \/ ClientGone(r)
    <2>1. claimBar' = claimBar /\ sentBar' = sentBar /\ req' = req
      BY <1>3 DEF ReserveFails, ClientGone, claimBar, sentBar
    <2>2. \A q \in Reqs : /\ handler'[q] = "idle" <=> handler[q] = "idle"
                          /\ Past(q) => Past(q)'
      BY <1>3 DEF ReserveFails, ClientGone, Past, Live
    <2>3. QED
      BY <2>1, <2>2, RefusalMaps
  <1>4. CASE BatchJoin(r) \/ BatchTimesOut(r) \/ CompleteFails(r)
    <2>1. claimBar' = claimBar /\ sentBar' = sentBar /\ req' = req
      BY <1>4 DEF BatchJoin, BatchTimesOut, CompleteFails, claimBar, sentBar
    <2>2. \A q \in Reqs : /\ handler'[q] = "idle" <=> handler[q] = "idle"
                          /\ Past(q) => Past(q)'
      BY <1>4 DEF BatchJoin, BatchTimesOut, CompleteFails, Past
    <2>3. QED
      BY <2>1, <2>2, RefusalMaps
  <1>5. CASE Complete(r)
    <2>1. sentBar' = sentBar /\ req' = req
      BY <1>5 DEF Complete, sentBar
    <2>2. claimBar' = claimBar
      <3>1. \A s \in Scopes : /\ idem'[s].owner = idem[s].owner
                              /\ idem'[s].expired = idem[s].expired
        BY <1>5 DEF Complete, CompleteRow, Reservations
      <3>2. QED
        BY <3>1 DEF claimBar
    <2>3. \A q \in Reqs : /\ handler'[q] = "idle" <=> handler[q] = "idle"
                          /\ Past(q) => Past(q)'
      BY <1>5 DEF Complete, Past
    <2>4. QED
      BY <2>1, <2>2, <2>3, RefusalMaps
  <1>6. QED
    BY <1>1, <1>2, <1>3, <1>4, <1>5 DEF HandlerStep

LEMMA StartCallMaps ==
  ASSUME IInv, NEW d \in Deliveries, StartCall(d) PROVE MapsToContract
  <1> USE DEF IInv, TypeOK, VarsTypeOK, StoreTypeOK, AdmittedOK, storeVars
  <1>1. PICK r \in Reqs, t \in Targets : d = <<r, t>>
    BY DEF Deliveries
  <1>2. /\ task[<<r, t>>] = "call" /\ platform[<<r, t>>] = "none"
        /\ handler[r] \notin {"idle", "reserving"} /\ req[r] \in Contents
    BY <1>1 DEF StartCall, InStep
  <1>3. <<r, t>> \notin sentBar /\ sentBar' = sentBar \cup {<<r, t>>}
    BY <1>1, <1>2 DEF StartCall, sentBar
  <1>4. r \in freeBar \/ \E s \in Scopes : claimBar[s] = r
    <2>1. CASE Keyed(r)
      <3>1. AtWork(r) /\ Scope(r) \in Scopes
        BY <1>2, <2>1, ScopeType DEF AtWork, Busy
      <3>2. claimBar[Scope(r)] = r
        BY <2>1, <3>1 DEF SenderHoldsReservation, claimBar
      <3>3. QED
        BY <3>1, <3>2
    <2>2. CASE ~Keyed(r)
      BY <1>2, <2>2 DEF freeBar, Keyed, Contents
    <2>3. QED
      BY <2>1, <2>2
  <1>5. UNCHANGED <<claimBar, freeBar, usedBar>>
    BY DEF StartCall, claimBar, freeBar, usedBar
  <1>6. Contract!Send(r, t)
    BY <1>3, <1>4, <1>5 DEF Contract!Send
  <1>7. QED
    BY <1>6 DEF MapsToContract, Contract!Next

LEMMA DeliveryMaps ==
  ASSUME IInv, NEW d \in Deliveries,
         TaskStep(d) \/ CallBreaks(d) \/ PlatformActs(d)
  PROVE  MapsToContract
  <1> USE DEF IInv, TypeOK, VarsTypeOK, StoreTypeOK, AdmittedOK, storeVars
  <1>1. PICK r \in Reqs, t \in Targets : d = <<r, t>>
    BY DEF Deliveries
  <1>2. CASE StartCall(d)
    BY <1>2, StartCallMaps
  <1>3. CASE PlatformActs(d)
    <2>1. sentBar' = sentBar
      BY <1>3 DEF PlatformActs, sentBar
    <2>2. UNCHANGED <<claimBar, freeBar, usedBar>>
      BY <1>3 DEF PlatformActs, claimBar, freeBar, usedBar
    <2>3. QED
      BY <2>1, <2>2 DEF MapsToContract, BarsStay
  <1>4. CASE ~StartCall(d) /\ ~PlatformActs(d)
    <2>1. req' = req /\ idem' = idem /\ platform' = platform
      BY <1>4 DEF TaskStep, TakePermit, PrepareIntent, PrepareFails, CallRefused,
                  CallReturns, CallTimesOut, Finalize, FinalizeFails, CallBreaks
    <2>2. /\ handler[r] \notin {"idle", "reserving"} \/ handler' = handler
          /\ \A q \in Reqs : q # r => handler'[q] = handler[q]
          /\ handler'[r] = handler[r] \/ handler'[r] \notin {"idle", "reserving"}
      BY <1>1, <1>4
         DEF TaskStep, TakePermit, PrepareIntent, PrepareFails, CallRefused,
             CallReturns, CallTimesOut, Finalize, FinalizeFails, CallBreaks,
             EndTask, HasResult, InStep
    <2>3. claimBar' = claimBar /\ sentBar' = sentBar
      BY <2>1 DEF claimBar, sentBar
    <2>4. \A q \in Reqs : /\ handler'[q] = "idle" <=> handler[q] = "idle"
                          /\ Past(q) => Past(q)'
      BY <2>2 DEF Past
    <2>5. QED
      BY <2>1, <2>3, <2>4, RefusalMaps
  <1>5. QED
    BY <1>2, <1>3, <1>4

LEMMA ExpireMaps ==
  ASSUME IInv, OwnersOK, NEW s \in Scopes, Expire(s) PROVE MapsToContract
  <1> USE DEF IInv, TypeOK, VarsTypeOK, StoreTypeOK
  <1>1. claimBar[s] # NoReq
    BY StoreAssumption DEF Expire, OwnersOK, claimBar
  <1>2. claimBar' = [claimBar EXCEPT ![s] = NoReq]
    <2>1. ASSUME NEW u \in Scopes
          PROVE  claimBar'[u] = IF u = s THEN NoReq ELSE claimBar[u]
      BY DEF Expire, claimBar, Reservations
    <2>2. QED
      BY <2>1 DEF claimBar
  <1>3. UNCHANGED <<freeBar, usedBar, sentBar>>
    BY DEF Expire, callVars, freeBar, usedBar, sentBar
  <1>4. Contract!Release(s)
    BY <1>1, <1>2, <1>3 DEF Contract!Release
  <1>5. QED
    BY <1>4 DEF MapsToContract, Contract!Next

LEMMA CrashMaps == ASSUME IInv, Crash PROVE MapsToContract
  <1> USE DEF IInv, TypeOK, VarsTypeOK
  <1>1. claimBar' = claimBar /\ sentBar' = sentBar /\ req' = req
    BY DEF Crash, storeVars, claimBar, sentBar
  <1>2. \A q \in Reqs : /\ handler'[q] = "idle" <=> handler[q] = "idle"
                        /\ Past(q) => Past(q)'
    BY DEF Crash, Past, Live
  <1>3. QED
    BY <1>1, <1>2, RefusalMaps

LEMMA StepMaps == ASSUME IInv, OwnersOK, [Next]_vars PROVE MapsToContract
  <1>1. CASE \/ OutboxStep \/ UNCHANGED vars
             \/ \E d \in Deliveries :
                  \/ \E s \in Subjects, state \in Final : Reconcile(d, s, state)
                  \/ Retention(d)
             \/ \E t \in Targets : PurgeMessages(t) \/ PurgeJournal(t)
    <2>1. req' = req /\ idem' = idem /\ handler' = handler /\ platform' = platform
      BY <1>1 DEF OutboxStep, OutboxSelect, OutboxPublish, OutboxMark,
                  OutboxMarkFails, Reconcile, Retention, PurgeMessages,
                  PurgeJournal, vars, storeVars, callVars
    <2>2. QED
      BY <2>1, SameCallsSameBars DEF MapsToContract
  <1>2. QED
    BY <1>1, SubmitMaps, HandlerMaps, DeliveryMaps, ExpireMaps, CrashMaps
       DEF Next, SubmitSend, SubmitBatch

\* The handlers implement the idempotency contract: every step claims or
\* releases a scope, admits or refuses requests, makes one call that is allowed,
\* or changes nothing the contract speaks of.
THEOREM KeepsContract == Spec => ImplementsContract
  <1>1. Init => Contract!Init
    <2>1. ASSUME Init PROVE claimBar = [s \in Scopes |-> NoReq]
      BY <2>1 DEF Init, StoreInit, NoReservation, claimBar
    <2>2. ASSUME Init PROVE freeBar = {} /\ usedBar = {} /\ sentBar = {}
      BY <2>2 DEF Init, freeBar, usedBar, sentBar
    <2>3. QED
      BY <2>1, <2>2 DEF Contract!Init
  <1>2. ASSUME IInv, OwnersOK, [Next]_vars
        PROVE  [Contract!Next]_Contract!abstractVars
    BY <1>2, StepMaps DEF MapsToContract, BarsStay, Contract!abstractVars
  <1>3. QED
    BY <1>1, <1>2, ReservationsInductive, OwnersInductive, PTL
       DEF Spec, ImplementsContract, Contract!Spec

-----------------------------------------------------------------------------
(* Responses *)

\* What a "sent" in results[target] rests on.
Delivered(d) ==
  /\ task[d] = "ended" /\ platform[d] = "executed"
  /\ journal[d].by = "sender"
  /\ journal[d].state \in {"succeeded"} \cup Removed

WonOK  == \A d \in Deliveries : task[d] = "won" => platform[d] = "executed"
SentOK == \A d \in Deliveries : outcome[d] = "sent" => Delivered(d)

LEMMA WonPreserved ==
  ASSUME TypeOK, InStep, WonOK, [Next]_vars PROVE WonOK'
  <1> SUFFICES ASSUME NEW d \in Deliveries, task'[d] = "won"
               PROVE  platform'[d] = "executed"
    BY DEF WonOK
  <1> USE DEF TypeOK, VarsTypeOK, storeVars
  <1>1. CASE LeftAlone(d) \/ Started(d) \/ Dropped(d)
    BY <1>1 DEF LeftAlone, Started, Dropped, WonOK
  <1>2. CASE PlatformActs(d)
    BY <1>2 DEF PlatformActs, WonOK
  <1>3. CASE CallBreaks(d)
    BY <1>3 DEF CallBreaks
  <1>4. CASE TaskStep(d)
    <2>1. CallReturns(d)
      BY <1>4 DEF TaskStep, TakePermit, PrepareIntent, PrepareFails, StartCall,
                  CallRefused, CallTimesOut, Finalize, FinalizeFails, EndTask
    <2>2. QED
      BY <2>1 DEF CallReturns
  <1>5. QED
    BY <1>1, <1>2, <1>3, <1>4, CallStepped

\* An outcome "sent" comes from a finalised success and is never taken back.
LEMMA SentStays ==
  ASSUME TypeOK, InStep, SentOK, [Next]_vars, NEW d \in Deliveries,
         outcome[d] = "sent"
  PROVE  outcome'[d] = "sent" /\ Delivered(d)'
  <1> USE DEF TypeOK, VarsTypeOK
  <1>1. Delivered(d)
    BY DEF SentOK
  <1>2. LeftAlone(d)
    BY <1>1, CallStepped
       DEF Delivered, Started, Dropped, Busy, TaskStep, TakePermit, PrepareIntent,
           PrepareFails, StartCall, CallRefused, CallReturns, CallTimesOut,
           Finalize, FinalizeFails, CallBreaks, PlatformActs, HasResult
  <1>3. /\ journal'[d].by = "sender"
        /\ journal'[d].state \in {"succeeded"} \cup Removed
    BY <1>1, TablesStepped, RowStep DEF Delivered, Removed
  <1>4. QED
    BY <1>1, <1>2, <1>3 DEF Delivered, LeftAlone

LEMMA SentPreserved ==
  ASSUME TypeOK, InStep, WonOK, SentOK, [Next]_vars PROVE SentOK'
  <1> SUFFICES ASSUME NEW d \in Deliveries, outcome'[d] = "sent"
               PROVE  Delivered(d)'
    BY DEF SentOK
  <1> USE DEF TypeOK, VarsTypeOK, StoreTypeOK
  <1>1. CASE outcome[d] = "sent"
    BY <1>1, SentStays
  <1>2. CASE outcome[d] # "sent"
    <2>1. TaskStep(d) \/ CallBreaks(d) \/ PlatformActs(d)
      BY <1>2, CallStepped DEF LeftAlone, Started, Dropped
    <2>2. Finalize(d) /\ task[d] = "won"
      BY <1>2, <2>1
         DEF TaskStep, TakePermit, PrepareIntent, PrepareFails, StartCall,
             CallRefused, CallReturns, CallTimesOut, Finalize, FinalizeFails,
             CallBreaks, PlatformActs, EndTask
    <2>3. task'[d] = "ended" /\ platform'[d] = "executed"
      BY <2>2 DEF Finalize, EndTask, WonOK
    <2>4. SetFinal(d, "succeeded", "sender")
      BY <2>2 DEF Finalize, FinalizeRow
    <2>5. journal'[d].by = "sender" /\ journal'[d].state = "succeeded"
      BY <2>4 DEF SetFinal
    <2>6. QED
      BY <2>3, <2>5 DEF Delivered
  <1>3. QED
    BY <1>1, <1>2

\* A request that was given a stored response sends nothing itself.
ReplayedOK ==
  \A r \in Reqs : handler[r] = "replayed" =>
                    Keyed(r) /\ \A t \in Targets : task[<<r, t>>] = "off"

LEMMA ReplayedPreserved ==
  ASSUME TypeOK, InStep, ReplayedOK, [Next]_vars PROVE ReplayedOK'
  <1> USE DEF TypeOK, VarsTypeOK, AdmittedOK
  <1> SUFFICES ASSUME NEW r \in Reqs, handler'[r] = "replayed"
               PROVE  Keyed(r)' /\ \A t \in Targets : task'[<<r, t>>] = "off"
    BY DEF ReplayedOK
  <1>1. CASE handler[r] = "replayed"
    <2>1. req'[r] = req[r]
      BY <1>1, PastStays DEF Past
    <2>2. ASSUME NEW t \in Targets PROVE task'[<<r, t>>] = "off"
      <3>1. <<r, t>> \in Deliveries /\ task[<<r, t>>] = "off"
        BY <1>1 DEF ReplayedOK, Deliveries
      <3>2. ~Started(<<r, t>>) /\ ~Dropped(<<r, t>>)
        BY <1>1, <3>1 DEF Started, Dropped, Busy
      <3>3. QED
        BY <3>1, <3>2, CallStepped
           DEF LeftAlone, TaskStep, TakePermit, PrepareIntent, PrepareFails,
               StartCall, CallRefused, CallReturns, CallTimesOut, Finalize,
               FinalizeFails, CallBreaks, PlatformActs, HasResult
    <2>3. QED
      BY <1>1, <2>1, <2>2 DEF ReplayedOK, Keyed
  <1>2. CASE handler[r] # "replayed"
    <2>1. ReserveTaken(r)
      <3>1. ASSUME NEW q \in Reqs, NEW content \in Requests, Admit(q, content)
            PROVE  FALSE
        BY <1>2, <3>1 DEF Admit
      <3>2. ASSUME NEW q \in Reqs, HandlerStep(q) \/ ClientGone(q)
            PROVE  ReserveTaken(r)
        BY <1>2, <3>2 DEF HandlerStep, ReserveNew, ReserveTaken, ReserveFails,
             BatchJoin, BatchTimesOut, Complete, CompleteFails, ClientGone
      <3>3. ASSUME NEW d \in Deliveries,
                   TaskStep(d) \/ CallBreaks(d) \/ PlatformActs(d)
            PROVE  FALSE
        <4>1. d[1] \in Reqs
          BY DEF Deliveries
        <4>2. QED
          BY <1>2, <3>3, <4>1
             DEF TaskStep, TakePermit, PrepareIntent, PrepareFails, StartCall,
                 CallRefused, CallReturns, CallTimesOut, Finalize, FinalizeFails,
                 CallBreaks, PlatformActs, EndTask
      <3>4. ~Elsewhere
        BY <1>2, ElsewhereLeavesCalls
      <3>5. ~Crash
        BY <1>2 DEF Crash
      <3>6. QED
        BY <3>1, <3>2, <3>3, <3>4, <3>5
           DEF Next, Elsewhere, SubmitSend, SubmitBatch
    <2>2. \A t \in Targets : task'[<<r, t>>] = "off"
      BY <2>1 DEF ReserveTaken, InStep
    <2>3. QED
      BY <2>1, <2>2 DEF ReserveTaken, Keyed
  <1>3. QED
    BY <1>1, <1>2

\* A stored response says "sent" only of what its owner sent.
StoredOK ==
  \A s \in Scopes, t \in Targets :
    idem[s].state = "completed" /\ idem[s].reply[t] = "sent"
      => outcome[<<idem[s].owner, t>>] = "sent"

CallsInv == /\ IInv /\ OwnersOK /\ WonOK /\ SentOK /\ ReplayedOK /\ StoredOK

LEMMA StoredPreserved == ASSUME CallsInv, [Next]_vars PROVE StoredOK'
  <1> USE DEF CallsInv, IInv, TypeOK, VarsTypeOK, StoreTypeOK
  <1> SUFFICES ASSUME NEW s \in Scopes, NEW t \in Targets,
                      idem'[s].state = "completed", idem'[s].reply[t] = "sent"
               PROVE  outcome'[<<idem'[s].owner, t>>] = "sent"
    BY DEF StoredOK
  <1>0. \A r \in Reqs : ReserveNew(r) /\ Scope(r) = s => idem'[s].state = "pending"
    BY LiveReservationsType DEF ReserveNew, Acquire
  <1>1. /\ idem'[s].owner = idem[s].owner /\ idem[s].state # "absent"
        /\ idem[s].state = idem'[s].state => idem'[s].reply = idem[s].reply
    BY <1>0, OwnerStep
  <1>2. PICK o \in Reqs : o = idem[s].owner /\ <<o, t>> \in Deliveries
    BY <1>1 DEF OwnersOK, Deliveries
  <1>3. outcome[<<o, t>>] = "sent"
    <2>1. CASE idem[s].state = "completed"
      BY <1>1, <1>2, <2>1 DEF StoredOK
    <2>2. CASE idem[s].state # "completed"
      <3>1. PICK r \in Reqs : Complete(r) /\ CompleteRow(r, ResultsOf(r)) /\ Keyed(r)
        <4>1. idem' # idem /\ idem' # LiveReservations
          BY <2>2 DEF LiveReservations, NoReservation
        <4>2. \A r \in Reqs : ReserveNew(r) => Scope(r) = s
          BY <2>2 DEF ReserveNew, Acquire, LiveReservations, NoReservation
        <4>3. \A e \in Scopes : ~Expire(e)
          BY <2>2 DEF Expire, Reservations
        <4>4. PICK r \in Reqs : Complete(r)
          BY <1>0, <4>1, <4>2, <4>3, ReservationStepped DEF ReservationStep
        <4>5. QED
          BY <4>1, <4>4 DEF Complete
      <3>2. Scope(r) = s
        BY <2>2, <3>1 DEF CompleteRow
      <3>3. o = r
        BY <1>2, <3>1, <3>2 DEF Complete, AtWork, SenderHoldsReservation
      <3>4. idem'[s].reply = ResultsOf(r)
        BY <3>1, <3>2 DEF CompleteRow, Reservations
      <3>5. QED
        BY <3>3, <3>4 DEF ResultsOf
    <2>3. QED
      BY <2>1, <2>2
  <1>4. QED
    BY <1>1, <1>2, <1>3, SentStays

LEMMA CallsInductive == Spec => []CallsInv
  <1>1. Init => WonOK /\ SentOK /\ ReplayedOK /\ StoredOK
    BY DEF Init, StoreInit, NoReservation, WonOK, SentOK, ReplayedOK, StoredOK
  <1>2. ASSUME CallsInv, IInv', OwnersOK', [Next]_vars PROVE CallsInv'
    <2>1. WonOK' /\ SentOK' /\ ReplayedOK'
      BY <1>2, WonPreserved, SentPreserved, ReplayedPreserved DEF CallsInv, IInv
    <2>2. StoredOK'
      BY <1>2, StoredPreserved
    <2>3. QED
      BY <1>2, <2>1, <2>2 DEF CallsInv
  <1>3. QED
    BY <1>1, <1>2, ReservationsInductive, OwnersInductive, PTL DEF Spec, CallsInv

\* Request o vouches for a "sent" that request r was told of target t.
Vouches(o, r, t) ==
  /\ o # r => handler[r] = "replayed"
  /\ req[o] = req[r] /\ Past(o) /\ outcome[<<o, t>>] = "sent"

RepliesOK ==
  \A r \in Reqs, t \in Targets :
    reply[r][t] = "sent" => Past(r) /\ \E o \in Reqs : Vouches(o, r, t)

LEMMA ReplayedStays ==
  ASSUME TypeOK, InStep, ReplayedOK, [Next]_vars,
         NEW r \in Reqs, handler[r] = "replayed"
  PROVE  handler'[r] = "replayed"
  <1> USE DEF TypeOK, VarsTypeOK
  <1>1. ASSUME NEW q \in Reqs, NEW content \in Requests, Admit(q, content)
        PROVE  handler'[r] = "replayed"
    BY <1>1 DEF Admit
  <1>2. ASSUME NEW q \in Reqs, HandlerStep(q) \/ ClientGone(q)
        PROVE  handler'[r] = "replayed"
    BY <1>2 DEF HandlerStep, ReserveNew, ReserveTaken, ReserveFails, BatchJoin,
                BatchTimesOut, Complete, CompleteFails, ClientGone, Live
  <1>3. ASSUME NEW d \in Deliveries,
               TaskStep(d) \/ CallBreaks(d) \/ PlatformActs(d)
        PROVE  handler'[r] = "replayed"
    <2>1. PICK q \in Reqs, u \in Targets : d = <<q, u>>
      BY DEF Deliveries
    <2>2. handler' = handler \/ (q # r /\ handler'[r] = handler[r])
      BY <1>3, <2>1
         DEF TaskStep, TakePermit, PrepareIntent, PrepareFails, StartCall,
             CallRefused, CallReturns, CallTimesOut, Finalize, FinalizeFails,
             CallBreaks, PlatformActs, EndTask, HasResult, ReplayedOK
    <2>3. QED
      BY <2>2
  <1>4. CASE Elsewhere
    BY <1>4, ElsewhereLeavesCalls
  <1>5. CASE Crash
    BY <1>5 DEF Crash, Live
  <1>6. QED
    BY <1>1, <1>2, <1>3, <1>4, <1>5 DEF Next, Elsewhere, SubmitSend, SubmitBatch

LEMMA VouchesStays ==
  ASSUME CallsInv, [Next]_vars, NEW r \in Reqs, NEW o \in Reqs, NEW t \in Targets,
         Past(r), Vouches(o, r, t)
  PROVE  Past(r)' /\ Vouches(o, r, t)'
  <1> USE DEF CallsInv, IInv
  <1>1. Past(r)' /\ req'[r] = req[r] /\ Past(o)' /\ req'[o] = req[o]
    BY PastStays DEF Vouches
  <1>2. outcome'[<<o, t>>] = "sent"
    BY SentStays DEF Vouches, Deliveries
  <1>3. o # r => handler'[r] = "replayed"
    BY ReplayedStays DEF Vouches
  <1>4. QED
    BY <1>1, <1>2, <1>3 DEF Vouches

\* A client is told its own results once, or those of the stored response.
LEMMA ReplyStep ==
  ASSUME TypeOK, [Next]_vars, NEW r \in Reqs
  PROVE  \/ reply'[r] = reply[r]
         \/ Complete(r) /\ reply'[r] = ResultsOf(r)
         \/ ReserveTaken(r) /\ Replays(r) /\ reply'[r] = idem[Scope(r)].reply
  <1> USE DEF TypeOK, VarsTypeOK
  <1>1. ASSUME NEW q \in Reqs, NEW content \in Requests, Admit(q, content)
        PROVE  reply' = reply
    BY <1>1 DEF Admit
  <1>2. ASSUME NEW q \in Reqs, HandlerStep(q) \/ ClientGone(q), q # r
        PROVE  reply'[r] = reply[r]
    BY <1>2 DEF HandlerStep, ReserveNew, ReserveTaken, ReserveFails, BatchJoin,
                BatchTimesOut, Complete, CompleteFails, ClientGone
  <1>3. ASSUME HandlerStep(r) \/ ClientGone(r)
        PROVE  \/ reply'[r] = reply[r]
               \/ Complete(r) /\ reply'[r] = ResultsOf(r)
               \/ ReserveTaken(r) /\ Replays(r) /\ reply'[r] = idem[Scope(r)].reply
    <2>1. CASE ReserveTaken(r)
      BY <2>1 DEF ReserveTaken
    <2>2. CASE Complete(r)
      BY <2>2 DEF Complete
    <2>3. QED
      BY <1>3, <2>1, <2>2
         DEF HandlerStep, ReserveNew, ReserveFails, BatchJoin, BatchTimesOut,
             CompleteFails, ClientGone
  <1>4. ASSUME NEW d \in Deliveries,
               TaskStep(d) \/ CallBreaks(d) \/ PlatformActs(d)
        PROVE  reply' = reply
    BY <1>4 DEF TaskStep, TakePermit, PrepareIntent, PrepareFails, StartCall,
                CallRefused, CallReturns, CallTimesOut, Finalize, FinalizeFails,
                CallBreaks, PlatformActs
  <1>5. ASSUME Elsewhere \/ Crash PROVE reply' = reply
    BY <1>5 DEF Elsewhere, OutboxStep, OutboxSelect, OutboxPublish, OutboxMark,
                OutboxMarkFails, Reconcile, Retention, PurgeMessages,
                PurgeJournal, Expire, Crash, vars, callVars
  <1>6. QED
    BY <1>1, <1>2, <1>3, <1>4, <1>5 DEF Next, Elsewhere, SubmitSend, SubmitBatch

LEMMA RepliesPreserved == ASSUME CallsInv, RepliesOK, [Next]_vars PROVE RepliesOK'
  <1> USE DEF CallsInv, IInv, TypeOK, VarsTypeOK, StoreTypeOK, AdmittedOK
  <1> SUFFICES ASSUME NEW r \in Reqs, NEW t \in Targets, reply'[r][t] = "sent"
               PROVE  Past(r)' /\ \E o \in Reqs : Vouches(o, r, t)'
    BY DEF RepliesOK
  <1>1. CASE reply'[r] = reply[r]
    <2>1. PICK o \in Reqs : Past(r) /\ Vouches(o, r, t)
      BY <1>1 DEF RepliesOK
    <2>2. QED
      BY <2>1, VouchesStays
  <1>2. CASE Complete(r) /\ reply'[r] = ResultsOf(r)
    <2>1. outcome[<<r, t>>] = "sent" /\ Past(r)
      BY <1>2 DEF ResultsOf, Complete, Past
    <2>2. Vouches(r, r, t)
      BY <2>1 DEF Vouches
    <2>3. QED
      BY <2>1, <2>2, VouchesStays
  <1>3. CASE ReserveTaken(r) /\ Replays(r) /\ reply'[r] = idem[Scope(r)].reply
    <2>1. Scope(r) \in Scopes /\ Keyed(r)
      BY <1>3, ScopeType DEF ReserveTaken
    <2>2. PICK o \in Reqs : o = idem[Scope(r)].owner
      BY <1>3, <2>1 DEF Replays, OwnersOK
    <2>3. /\ Past(o) /\ Keyed(o) /\ Scope(o) = Scope(r)
          /\ req[o].body = req[r].body
      BY <1>3, <2>1, <2>2 DEF Replays, SameBody, OwnersOK
    <2>4. req[o] \in Contents /\ req[r] \in Contents
      BY <1>3, <2>3 DEF ReserveTaken, Past
    <2>5. req[o] = req[r]
      BY <2>3, <2>4 DEF Contents, Scope
    <2>6. outcome[<<o, t>>] = "sent"
      BY <1>3, <2>1, <2>2 DEF Replays, StoredOK
    <2>7. req' = req /\ outcome' = outcome /\ handler'[r] = "replayed" /\ Past(o)'
      <3>1. ~Conflicts(r) /\ ~InProgress(r)
        BY <1>3 DEF Replays, Conflicts, InProgress
      <3>2. handler' = [handler EXCEPT ![r] = "replayed"]
        BY <1>3, <3>1 DEF ReserveTaken
      <3>3. QED
        BY <1>3, <2>3, <3>2 DEF ReserveTaken, Past
    <2>8. Past(r)' /\ Vouches(o, r, t)'
      BY <2>5, <2>6, <2>7 DEF Vouches, Past
    <2>9. QED
      BY <2>8
  <1>4. QED
    BY <1>1, <1>2, <1>3, ReplyStep

\* A response that says a target was sent rests on a message the platform
\* executed and the sender finalised, for the same subject, key and body.
THEOREM RepliesAreHonest == Spec => []HonestReply
  <1>1. Init => RepliesOK
    BY DEF Init, RepliesOK, NoReply
  <1>2. ASSUME CallsInv, RepliesOK, [Next]_vars PROVE RepliesOK'
    BY <1>2, RepliesPreserved
  <1>3. ASSUME CallsInv, RepliesOK PROVE HonestReply
    <2> SUFFICES ASSUME NEW r \in Reqs, NEW t \in Targets, reply[r][t] = "sent"
                 PROVE  \E o \in Reqs :
                          /\ o # r => handler[r] = "replayed" /\ Keyed(r)
                          /\ req[o] = req[r]
                          /\ platform[<<o, t>>] = "executed"
                          /\ journal[<<o, t>>].by = "sender"
                          /\ journal[<<o, t>>].state \in {"succeeded"} \cup Removed
      BY DEF HonestReply
    <2>1. PICK o \in Reqs : Vouches(o, r, t)
      BY <1>3 DEF RepliesOK
    <2>2. Delivered(<<o, t>>)
      BY <1>3, <2>1 DEF Vouches, CallsInv, SentOK, Deliveries
    <2>3. o # r => handler[r] = "replayed" /\ Keyed(r)
      BY <1>3, <2>1 DEF Vouches, CallsInv, ReplayedOK
    <2>4. QED
      BY <2>1, <2>2, <2>3 DEF Vouches, Delivered
  <1>4. QED
    BY <1>1, <1>2, <1>3, CallsInductive, PTL DEF Spec
=============================================================================
