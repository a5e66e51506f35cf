----------------------- MODULE OutboundDeliveryProofs -----------------------
(***************************************************************************)
(* Proofs about OutboundDelivery, for every number of requests, targets,   *)
(* keys, faults and crashes.                                               *)
(***************************************************************************)
EXTENDS OutboundDelivery, TLAPS

-----------------------------------------------------------------------------
(* The statements of the store preserve its types. *)

LEMMA NoReplyType == NoReply \in Replies
  BY DEF NoReply, Replies, Outcomes

LEMMA LiveReservationsType ==
  ASSUME StoreTypeOK PROVE LiveReservations \in [Scopes -> Reservations]
  BY NoReplyType DEF StoreTypeOK, LiveReservations, NoReservation, Reservations

LEMMA ScopeType ==
  ASSUME StoreTypeOK, NEW r \in Reqs, Keyed(r) PROVE Scope(r) \in Scopes
  BY StoreAssumption DEF StoreTypeOK, Keyed, Scope, Scopes, Contents, NoContent

LEMMA AcquireType ==
  ASSUME StoreTypeOK, NEW r \in Reqs, Acquire(r)
  PROVE  idem' \in [Scopes -> Reservations]
  <1> DEFINE new == [state |-> "pending", owner |-> r,
                     reply |-> NoReply, expired |-> FALSE]
  <1>1. new \in Reservations
    BY NoReplyType DEF Reservations
  <1>2. QED
    BY <1>1, LiveReservationsType DEF Acquire

LEMMA CompleteRowType ==
  ASSUME StoreTypeOK, NEW r \in Reqs, NEW results \in Replies,
         CompleteRow(r, results)
  PROVE  idem' \in [Scopes -> Reservations]
  BY DEF CompleteRow, StoreTypeOK, Reservations

LEMMA PrepareType ==
  ASSUME StoreTypeOK, NEW d \in Deliveries, Prepare(d)
  PROVE  journal' \in [Deliveries -> Rows]
  BY DEF Prepare, StoreTypeOK, Rows, RowStates

LEMMA SetFinalType ==
  ASSUME StoreTypeOK, NEW d \in Deliveries, NEW s \in Final,
         NEW by \in {"sender", "operator"}, SetFinal(d, s, by)
  PROVE  journal' \in [Deliveries -> Rows] /\ clock' \in Nat
  <1> DEFINE new == [state |-> s, by |-> by, at |-> clock, told |-> FALSE]
  <1>1. new \in Rows
    BY DEF Rows, RowStates, StoreTypeOK
  <1>2. QED
    BY <1>1 DEF SetFinal, StoreTypeOK

LEMMA DeleteRowsType ==
  ASSUME StoreTypeOK, NEW ds, NEW why \in Removed, DeleteRows(ds, why)
  PROVE  journal' \in [Deliveries -> Rows]
  BY DEF DeleteRows, StoreTypeOK, Rows, RowStates

LEMMA MarkPublishedType ==
  ASSUME StoreTypeOK, NEW d \in Deliveries, MarkPublished(d)
  PROVE  journal' \in [Deliveries -> Rows]
  BY DEF MarkPublished, StoreTypeOK, Rows

-----------------------------------------------------------------------------
(* Type correctness *)

LEMMA OwnTasksAreDeliveries ==
  ASSUME StoreTypeOK, NEW r \in Reqs, req[r] \in Contents
  PROVE  OwnTasks(r) \subseteq Deliveries
  BY StoreAssumption DEF OwnTasks, Deliveries, Contents

LEMMA ResultsType ==
  ASSUME TypeOK, NEW r \in Reqs PROVE ResultsOf(r) \in Replies
  BY DEF TypeOK, VarsTypeOK, ResultsOf, Replies, Deliveries

LEMMA SubmitType ==
  ASSUME TypeOK, NEW r \in Reqs, NEW content \in Requests,
         SubmitSend(r, content) \/ SubmitBatch(r, content)
  PROVE  VarsTypeOK'
  <1>1. content \in Contents
    BY DeliveryAssumption
  <1>2. outcome' \in [Deliveries -> Outcomes]
    BY DEF SubmitSend, SubmitBatch, TypeOK, VarsTypeOK, Outcomes
  <1>3. Admit(r, content)
    BY DEF SubmitSend, SubmitBatch
  <1>4. task' \in [Deliveries -> TaskSteps]
    BY <1>3 DEF Admit, Launch, TypeOK, VarsTypeOK, TaskSteps
  <1>5. req' \in [Reqs -> Contents \cup {NoContent}]
    BY <1>1, <1>3 DEF Admit, TypeOK, VarsTypeOK, StoreTypeOK
  <1>6. handler' \in [Reqs -> {"idle"} \cup Live \cup Answered]
    BY <1>3 DEF Admit, TypeOK, VarsTypeOK, Live
  <1>7. QED
    BY <1>2, <1>3, <1>4, <1>5, <1>6
       DEF Admit, TypeOK, VarsTypeOK, StoreTypeOK, outboxVars, boundVars

LEMMA HandlerType ==
  ASSUME TypeOK, NEW r \in Reqs, HandlerStep(r) \/ ClientGone(r)
  PROVE  VarsTypeOK'
  <1>1. CASE ReserveNew(r)
    <2>1. idem' \in [Scopes -> Reservations]
      BY <1>1, AcquireType DEF ReserveNew, TypeOK, VarsTypeOK
    <2>2. task' \in [Deliveries -> TaskSteps]
      BY <1>1 DEF ReserveNew, Launch, TypeOK, VarsTypeOK, TaskSteps
    <2>3. handler' \in [Reqs -> {"idle"} \cup Live \cup Answered]
      BY <1>1 DEF ReserveNew, TypeOK, VarsTypeOK, Live
    <2>4. QED
      BY <1>1, <2>1, <2>2, <2>3
         DEF ReserveNew, TypeOK, VarsTypeOK, StoreTypeOK, outboxVars, boundVars
  <1>2. CASE ReserveTaken(r)
    <2>1. idem' \in [Scopes -> Reservations]
      BY <1>2, LiveReservationsType DEF ReserveTaken, TypeOK, VarsTypeOK
    <2>2. reply' \in [Reqs -> Replies]
      <3>1. CASE Replays(r)
        <4>1. Scope(r) \in Scopes
          BY <1>2, ScopeType DEF ReserveTaken, TypeOK, VarsTypeOK, AdmittedOK
        <4>2. QED
          BY <1>2, <4>1 DEF ReserveTaken, TypeOK, VarsTypeOK, StoreTypeOK, Reservations
      <3>2. QED
        BY <1>2, <3>1 DEF ReserveTaken, TypeOK, VarsTypeOK
    <2>3. handler' \in [Reqs -> {"idle"} \cup Live \cup Answered]
      BY <1>2 DEF ReserveTaken, TypeOK, VarsTypeOK, Answered
    <2>4. QED
      BY <1>2, <2>1, <2>2, <2>3
         DEF ReserveTaken, TypeOK, VarsTypeOK, StoreTypeOK, outboxVars, boundVars
  <1>3. CASE ReserveFails(r)
    BY <1>3 DEF ReserveFails, Fault, TypeOK, VarsTypeOK, StoreTypeOK, storeVars,
                outboxVars, Answered
  <1>4. CASE BatchJoin(r) \/ BatchTimesOut(r)
    BY <1>4 DEF BatchJoin, BatchTimesOut, TypeOK, VarsTypeOK, StoreTypeOK, storeVars,
                outboxVars, boundVars, Answered, Live
  <1>5. CASE Complete(r)
    <2>1. idem' \in [Scopes -> Reservations]
      BY <1>5, CompleteRowType, ResultsType DEF Complete, TypeOK, VarsTypeOK, StoreTypeOK
    <2>2. QED
      BY <1>5, <2>1, ResultsType
         DEF Complete, TypeOK, VarsTypeOK, StoreTypeOK, outboxVars, boundVars, Answered
  <1>6. CASE CompleteFails(r)
    BY <1>6 DEF CompleteFails, Fault, TypeOK, VarsTypeOK, StoreTypeOK, storeVars,
                outboxVars, boundVars, Answered
  <1>7. CASE ClientGone(r)
    BY <1>7 DEF ClientGone, TypeOK, VarsTypeOK, StoreTypeOK, storeVars, outboxVars,
                boundVars, Answered, TaskSteps
  <1>8. QED
    BY <1>1, <1>2, <1>3, <1>4, <1>5, <1>6, <1>7 DEF HandlerStep

LEMMA DeliveryType ==
  ASSUME TypeOK, NEW d \in Deliveries,
         TaskStep(d) \/ CallBreaks(d) \/ PlatformActs(d)
  PROVE  VarsTypeOK'
  <1> USE DEF storeVars, outboxVars, boundVars
  <1>a. d[1] \in Reqs
    BY DEF Deliveries
  <1>b. ASSUME NEW result \in Outcomes, NEW next \in Live \cup Answered,
               EndTask(d, result, next)
        PROVE  /\ task' \in [Deliveries -> TaskSteps]
               /\ outcome' \in [Deliveries -> Outcomes]
               /\ handler' \in [Reqs -> {"idle"} \cup Live \cup Answered]
    BY <1>a, <1>b DEF EndTask, TypeOK, VarsTypeOK, TaskSteps
  <1>1. CASE TakePermit(d) \/ CallRefused(d) \/ CallReturns(d) \/ CallBreaks(d)
    BY <1>1 DEF TakePermit, CallRefused, CallReturns, CallBreaks, TypeOK, VarsTypeOK,
                StoreTypeOK, TaskSteps
  <1>2. CASE PrepareIntent(d)
    BY <1>2, PrepareType DEF PrepareIntent, TypeOK, VarsTypeOK, StoreTypeOK, TaskSteps
  <1>3. CASE PrepareFails(d)
    BY <1>3, <1>b DEF PrepareFails, Fault, TypeOK, VarsTypeOK, StoreTypeOK, Outcomes,
                      Answered
  <1>4. CASE StartCall(d)
    BY <1>4 DEF StartCall, TypeOK, VarsTypeOK, StoreTypeOK, TaskSteps, PlatformStates
  <1>5. CASE PlatformActs(d)
    BY <1>5 DEF PlatformActs, TypeOK, VarsTypeOK, StoreTypeOK, PlatformStates
  <1>6. CASE CallTimesOut(d)
    BY <1>6, <1>b DEF CallTimesOut, TypeOK, VarsTypeOK, StoreTypeOK, Outcomes, Answered
  <1>7. CASE Finalize(d)
    <2>1. \E s \in Final : SetFinal(d, s, "sender")
      BY <1>7 DEF Finalize, FinalizeRow, Final
    <2>2. journal' \in [Deliveries -> Rows] /\ clock' \in Nat
      BY <2>1, SetFinalType DEF TypeOK, VarsTypeOK
    <2>3. history' \subseteq Deliveries
      BY <1>7 DEF Finalize, FinalizeRow, TypeOK, VarsTypeOK, StoreTypeOK
    <2>4. \E result \in Outcomes, next \in Live \cup Answered :
            EndTask(d, result, next)
      BY <1>7 DEF Finalize, Outcomes, Live, Answered
    <2>5. QED
      BY <1>7, <1>b, <2>2, <2>3, <2>4 DEF Finalize, TypeOK, VarsTypeOK, StoreTypeOK
  <1>8. CASE FinalizeFails(d)
    <2>1. \E result \in Outcomes : EndTask(d, result, "error")
      BY <1>8 DEF FinalizeFails, Outcomes
    <2>2. faults' \in Nat /\ UNCHANGED <<crashes, expiries, purges>>
      BY <1>8 DEF FinalizeFails, Fault, TypeOK, VarsTypeOK
    <2>3. "error" \in Live \cup Answered
      BY DEF Answered
    <2>4. QED
      BY <1>8, <1>b, <2>1, <2>2, <2>3 DEF FinalizeFails, TypeOK, VarsTypeOK, StoreTypeOK
  <1>9. QED
    BY <1>1, <1>2, <1>3, <1>4, <1>5, <1>6, <1>7, <1>8 DEF TaskStep

LEMMA OutboxType == ASSUME TypeOK, OutboxStep PROVE VarsTypeOK'
  <1> USE DEF storeVars, callVars, boundVars
  <1>1. CASE OutboxSelect
    <2>1. \A d \in Oldest(OutboxLimit) :
             [row |-> d, state |-> journal[d].state, at |-> journal[d].at] \in Events
      BY DEF Oldest, Unpublished, Events, TypeOK, VarsTypeOK, StoreTypeOK, Rows
    <2>. batch' \subseteq Events
      BY <1>1, <2>1 DEF OutboxSelect
    <2>2. QED
      BY <1>1, <2>1 DEF OutboxSelect, TypeOK, VarsTypeOK, StoreTypeOK
  <1>2. ASSUME NEW e \in batch, OutboxPublish(e) PROVE VarsTypeOK'
    BY <1>2 DEF OutboxPublish, TypeOK, VarsTypeOK, StoreTypeOK, Events
  <1>3. ASSUME NEW e \in batch, OutboxMark(e) PROVE VarsTypeOK'
    <2>1. journal' \in [Deliveries -> Rows]
      BY <1>3, MarkPublishedType DEF OutboxMark, TypeOK, VarsTypeOK, Events
    <2>2. QED
      BY <1>3, <2>1 DEF OutboxMark, TypeOK, VarsTypeOK, StoreTypeOK
  <1>4. ASSUME NEW e \in batch, OutboxMarkFails(e) PROVE VarsTypeOK'
    BY <1>4 DEF OutboxMarkFails, Fault, TypeOK, VarsTypeOK, StoreTypeOK
  <1>5. QED
    BY <1>1, <1>2, <1>3, <1>4 DEF OutboxStep

LEMMA OperatorType ==
  ASSUME TypeOK,
         \/ \E d \in Deliveries :
              \/ \E s \in Subjects, state \in Final : Reconcile(d, s, state)
              \/ Retention(d)
         \/ \E t \in Targets : PurgeMessages(t) \/ PurgeJournal(t)
         \/ \E s \in Scopes : Expire(s)
         \/ Crash
  PROVE  VarsTypeOK'
  <1> USE DEF callVars, outboxVars, boundVars
  <1>1. ASSUME NEW d \in Deliveries, NEW s \in Subjects, NEW state \in Final,
               Reconcile(d, s, state)
        PROVE  VarsTypeOK'
    BY <1>1, SetFinalType DEF Reconcile, ReconcileRow, TypeOK, VarsTypeOK, StoreTypeOK
  <1>2. ASSUME NEW d \in Deliveries, Retention(d) PROVE VarsTypeOK'
    <2>1. journal' \in [Deliveries -> Rows]
      BY <1>2, DeleteRowsType DEF Retention, TypeOK, VarsTypeOK, Removed
    <2>2. QED
      BY <1>2, <2>1 DEF Retention, DeleteMessages, TypeOK, VarsTypeOK, StoreTypeOK
  <1>3. ASSUME NEW t \in Targets, PurgeMessages(t) PROVE VarsTypeOK'
    BY <1>3 DEF PurgeMessages, DeleteMessages, TypeOK, VarsTypeOK, StoreTypeOK
  <1>4. ASSUME NEW t \in Targets, PurgeJournal(t) PROVE VarsTypeOK'
    <2>1. journal' \in [Deliveries -> Rows]
      BY <1>4, DeleteRowsType DEF PurgeJournal, TypeOK, VarsTypeOK, Removed
    <2>2. QED
      BY <1>4, <2>1 DEF PurgeJournal, TypeOK, VarsTypeOK, StoreTypeOK
  <1>5. ASSUME NEW s \in Scopes, Expire(s) PROVE VarsTypeOK'
    <2>1. idem' \in [Scopes -> Reservations]
      BY <1>5 DEF Expire, TypeOK, VarsTypeOK, StoreTypeOK, Reservations
    <2>2. QED
      BY <1>5, <2>1 DEF Expire, TypeOK, VarsTypeOK, StoreTypeOK
  <1>6. CASE Crash
    BY <1>6 DEF Crash, TypeOK, VarsTypeOK, StoreTypeOK, storeVars, Answered, TaskSteps
  <1>7. QED
    BY <1>1, <1>2, <1>3, <1>4, <1>5, <1>6

\* Apart from the two submissions a step leaves req alone, and moves only
\* requests that have their content, none of them to reserving.
MovesOn ==
  /\ req' = req
  /\ \A r \in Reqs :
       handler'[r] # handler[r] =>
         req[r] \in Contents /\ handler'[r] # "reserving"
  /\ \A r \in Reqs, t \in Targets :
       task'[<<r, t>>] # task[<<r, t>>] => req[r] \in Contents

LEMMA HandlerMovesOn ==
  ASSUME TypeOK, NEW r \in Reqs, HandlerStep(r) \/ ClientGone(r)
  PROVE  MovesOn
  <1> USE DEF MovesOn, TypeOK, VarsTypeOK, AdmittedOK, storeVars, Live, Deliveries
  <1>1. CASE ReserveNew(r)
    BY <1>1 DEF ReserveNew, Launch
  <1>2. CASE ReserveTaken(r) \/ ReserveFails(r)
    BY <1>2 DEF ReserveTaken, ReserveFails
  <1>3. CASE BatchJoin(r) \/ BatchTimesOut(r)
    BY <1>3 DEF BatchJoin, BatchTimesOut
  <1>4. CASE Complete(r) \/ CompleteFails(r)
    BY <1>4 DEF Complete, CompleteFails
  <1>5. CASE ClientGone(r)
    BY <1>5 DEF ClientGone, Busy
  <1>6. QED
    BY <1>1, <1>2, <1>3, <1>4, <1>5 DEF HandlerStep

LEMMA DeliveryMovesOn ==
  ASSUME TypeOK, NEW d \in Deliveries,
         TaskStep(d) \/ CallBreaks(d) \/ PlatformActs(d)
  PROVE  MovesOn
  <1> USE DEF storeVars
  <1>1. PICK r \in Reqs, t \in Targets : d = <<r, t>>
    BY DEF Deliveries
  <1>2. task[d] # "off" => req[r] \in Contents
    BY <1>1 DEF TypeOK, AdmittedOK
  <1>3. req' = req
    BY DEF TaskStep, TakePermit, PrepareIntent, PrepareFails, StartCall,
           CallRefused, CallReturns, CallTimesOut, Finalize, FinalizeFails,
           CallBreaks, PlatformActs
  <1>4. \A q \in Reqs : handler'[q] # handler[q] =>
                        q = r /\ task[d] # "off" /\ handler'[q] # "reserving"
    BY <1>1 DEF TaskStep, TakePermit, PrepareIntent, PrepareFails, StartCall,
           CallRefused, CallReturns, CallTimesOut, Finalize, FinalizeFails,
           CallBreaks, PlatformActs, EndTask, HasResult, TypeOK, VarsTypeOK
  <1>5. \A e \in Deliveries : task'[e] # task[e] => e = d /\ task[d] # "off"
    BY DEF TaskStep, TakePermit, PrepareIntent, PrepareFails, StartCall,
           CallRefused, CallReturns, CallTimesOut, Finalize, FinalizeFails,
           CallBreaks, PlatformActs, EndTask, HasResult, TypeOK, VarsTypeOK
  <1>6. QED
    BY <1>1, <1>2, <1>3, <1>4, <1>5 DEF MovesOn, Deliveries

LEMMA CrashMovesOn == ASSUME TypeOK, Crash PROVE MovesOn
  BY DEF Crash, MovesOn, TypeOK, VarsTypeOK, AdmittedOK, storeVars, Live, Busy,
         Deliveries

LEMMA OthersMoveOn ==
  ASSUME \/ OutboxStep
         \/ \E d \in Deliveries :
              \/ \E s \in Subjects, state \in Final : Reconcile(d, s, state)
              \/ Retention(d)
         \/ \E t \in Targets : PurgeMessages(t) \/ PurgeJournal(t)
         \/ \E s \in Scopes : Expire(s)
         \/ UNCHANGED vars
  PROVE  MovesOn
  <1>1. req' = req /\ handler' = handler /\ task' = task
    BY DEF OutboxStep, OutboxSelect, OutboxPublish, OutboxMark,
           OutboxMarkFails, Reconcile, Retention, PurgeMessages,
           PurgeJournal, Expire, vars, storeVars, callVars
  <1>2. QED
    BY <1>1 DEF MovesOn

\* A request's content is written once, by its submission.
LEMMA SubmitAdmits ==
  ASSUME TypeOK, VarsTypeOK', NEW r \in Reqs, NEW content \in Requests,
         Admit(r, content)
  PROVE  AdmittedOK'
  <1>1. content \in Contents /\ (content.key # NoKey => content.key \in Keys)
    BY DeliveryAssumption DEF Contents
  <1>2. req' = [req EXCEPT ![r] = content]
    BY DEF Admit
  <1>3. \A q \in Reqs : handler'[q] # handler[q] => q = r
    BY DEF Admit, TypeOK, VarsTypeOK
  <1>4. handler'[r] = "reserving" => content.key # NoKey
    BY DEF Admit, TypeOK, VarsTypeOK
  <1>5. \A q \in Reqs, t \in Targets :
           task'[<<q, t>>] # task[<<q, t>>] => q = r
    BY DEF Admit, Launch, TypeOK, VarsTypeOK, Deliveries
  <1>6. QED
    BY <1>1, <1>2, <1>3, <1>4, <1>5
       DEF AdmittedOK, TypeOK, VarsTypeOK, StoreTypeOK, Keyed

LEMMA AdmittedStep ==
  ASSUME TypeOK, [Next]_vars, VarsTypeOK'
  PROVE  AdmittedOK'
  <1>1. CASE MovesOn
    BY <1>1 DEF MovesOn, AdmittedOK, TypeOK, Keyed
  <1>2. ASSUME NEW r \in Reqs, NEW content \in Requests,
               SubmitSend(r, content) \/ SubmitBatch(r, content)
        PROVE  AdmittedOK'
    BY <1>2, SubmitAdmits DEF SubmitSend, SubmitBatch
  <1>3. QED
    BY <1>1, <1>2, HandlerMovesOn, DeliveryMovesOn, CrashMovesOn, OthersMoveOn
       DEF Next

\* Every variable keeps its type in every reachable state.
THEOREM TypeCorrect == Spec => []TypeOK
  <1>1. Init => TypeOK
    BY NoReplyType
       DEF Init, StoreInit, TypeOK, VarsTypeOK, AdmittedOK, StoreTypeOK,
           NoReservation, Reservations, NoRow, Rows, RowStates, TaskSteps,
           Outcomes, PlatformStates, Deliveries
  <1>2. ASSUME TypeOK, [Next]_vars PROVE TypeOK'
    <2>1. CASE UNCHANGED vars
      BY <1>2, <2>1
         DEF vars, storeVars, callVars, outboxVars, boundVars, TypeOK,
             VarsTypeOK, AdmittedOK, StoreTypeOK, Keyed
    <2>2. CASE Next
      <3>1. VarsTypeOK'
        BY <1>2, <2>2, SubmitType, HandlerType, DeliveryType, OutboxType,
           OperatorType DEF Next
      <3>2. QED
        BY <1>2, <3>1, AdmittedStep DEF TypeOK
    <2>3. QED
      BY <1>2, <2>1, <2>2
  <1>3. QED
    BY <1>1, <1>2, PTL DEF Spec

-----------------------------------------------------------------------------
(* Handlers, tasks and the platform keep step *)

LEMMA InStepSubmit ==
  ASSUME TypeOK, InStep, NEW q \in Reqs, NEW content \in Requests,
         Admit(q, content)
  PROVE  InStep'
  <1> USE DEF TypeOK, VarsTypeOK, StoreTypeOK
  <1> SUFFICES ASSUME NEW r \in Reqs, NEW t \in Targets
               PROVE  /\ handler'[r] \in {"idle", "reserving"} => task'[<<r, t>>] = "off"
                      /\ handler'[r] = "completing" =>
                           task'[<<r, t>>] \notin Busy \cup {"queued"}
                      /\ task'[<<r, t>>] # "off" => t \in TargetsOf[req'[r].body]
                      /\ task'[<<r, t>>] \in {"off", "queued", "prepare", "call"}
                           => platform'[<<r, t>>] = "none"
    BY DEF InStep
  <1>1. CASE r # q
    BY <1>1 DEF Admit, Launch, InStep, Deliveries
  <1>2. CASE r = q
    <2>1. task[<<r, t>>] = "off" /\ platform[<<r, t>>] = "none"
      BY <1>2 DEF Admit, InStep
    <2>2. req'[r] = content /\ platform' = platform
      BY <1>2 DEF Admit
    <2>3. CASE content.key = NoKey
      BY <1>2, <2>1, <2>2, <2>3 DEF Admit, Launch, Deliveries
    <2>4. CASE content.key # NoKey
      BY <1>2, <2>1, <2>2, <2>4 DEF Admit
    <2>5. QED
      BY <2>3, <2>4
  <1>3. QED
    BY <1>1, <1>2

LEMMA InStepHandler ==
  ASSUME TypeOK, InStep, NEW q \in Reqs, HandlerStep(q) \/ ClientGone(q)
  PROVE  InStep'
  <1> USE DEF TypeOK, VarsTypeOK, StoreTypeOK, AdmittedOK, InStep, Deliveries, storeVars
  <1>1. CASE ReserveNew(q)
    BY <1>1 DEF ReserveNew, Launch
  <1>2. CASE ReserveTaken(q) \/ ReserveFails(q)
    BY ZenonT(60), <1>2 DEF ReserveTaken, ReserveFails
  <1>3. CASE BatchJoin(q)
    <2>1. \A t \in Targets : task[<<q, t>>] \in {"off", "ended"}
      BY <1>3 DEF BatchJoin, OwnTasks
    <2>2. QED
      BY <1>3, <2>1 DEF BatchJoin, Busy
  <1>4. CASE BatchTimesOut(q)
    BY <1>4 DEF BatchTimesOut
  <1>5. CASE Complete(q) \/ CompleteFails(q)
    BY ZenonT(60), <1>5 DEF Complete, CompleteFails
  <1>6. CASE ClientGone(q)
    BY <1>6 DEF ClientGone, Busy
  <1>7. QED
    BY <1>1, <1>2, <1>3, <1>4, <1>5, <1>6 DEF HandlerStep

LEMMA InStepDelivery ==
  ASSUME TypeOK, InStep, NEW d \in Deliveries,
         TaskStep(d) \/ CallBreaks(d) \/ PlatformActs(d)
  PROVE  InStep'
  <1> USE DEF TypeOK, VarsTypeOK, StoreTypeOK, AdmittedOK, InStep, Deliveries,
              storeVars, Busy, HasResult
  <1>1. PICK q \in Reqs, u \in Targets : d = <<q, u>>
    OBVIOUS
  <1>2. CASE TakePermit(d)
    BY <1>1, <1>2 DEF TakePermit
  <1>3. CASE PrepareIntent(d)
    BY <1>1, <1>3 DEF PrepareIntent
  <1>4. CASE StartCall(d) \/ CallRefused(d) \/ CallReturns(d) \/ CallBreaks(d)
    <2>1. task[d] \in {"call", "calling"} /\ handler' = handler /\ req' = req
      BY <1>4 DEF StartCall, CallRefused, CallReturns, CallBreaks
    <2>2. PICK x \in Busy \ {"queued", "prepare", "call"} :
            task' = [task EXCEPT ![d] = x]
      BY <1>4 DEF StartCall, CallRefused, CallReturns, CallBreaks
    <2>3. \A e \in Deliveries : e # d => platform'[e] = platform[e]
      BY <1>4 DEF StartCall, CallRefused, CallReturns, CallBreaks
    <2>4. QED
      BY ZenonT(60), <1>1, <2>1, <2>2, <2>3
  <1>5. CASE PlatformActs(d)
    <2>1. task[d] \notin {"off", "queued", "prepare", "call"}
      BY <1>1, <1>5 DEF PlatformActs
    <2>2. req' = req /\ handler' = handler /\ task' = task
      BY <1>5 DEF PlatformActs
    <2>3. \A e \in Deliveries : e # d => platform'[e] = platform[e]
      BY <1>5 DEF PlatformActs
    <2>4. QED
      BY <1>1, <2>1, <2>2, <2>3
  <1>6. ASSUME NEW result, NEW next, EndTask(d, result, next),
               next \in {"error", "timeout", "completing"},
               task[d] \in Busy, req' = req, platform' = platform
        PROVE  InStep'
    <2>1. \A t \in Targets :
            ~Batch(q) /\ t # u => task[<<q, t>>] = "off"
      <3>1. req[q] \in Contents
        BY <1>1, <1>6
      <3>2. req[q].body \in Bodies
        BY <3>1 DEF Contents
      <3>3. QED
        BY <1>1, <1>6, <3>2, StoreAssumption DEF Batch
    <2>2. handler[q] \notin {"idle", "reserving"}
      BY <1>1, <1>6
    <2>3. CASE Batch(q)
      BY <1>1, <1>6, <2>2, <2>3 DEF EndTask
    <2>4. CASE ~Batch(q)
      BY ZenonT(60), <1>1, <1>6, <2>1, <2>2, <2>4 DEF EndTask
    <2>5. QED
      BY <2>3, <2>4
  <1>7. CASE PrepareFails(d) \/ CallTimesOut(d)
    BY <1>6, <1>7 DEF PrepareFails, CallTimesOut
  <1>8. CASE Finalize(d)
    <2>1. PICK next \in {"error", "completing"}, result \in {"sent", "failed"} :
            EndTask(d, result, next)
      BY <1>8 DEF Finalize
    <2>2. task[d] \in Busy /\ req' = req /\ platform' = platform
      BY <1>8 DEF Finalize
    <2>3. QED
      BY <1>6, <2>1, <2>2
  <1>9. CASE FinalizeFails(d)
    <2>1. PICK result \in {"indeterminate", "failed"} : EndTask(d, result, "error")
      BY <1>9 DEF FinalizeFails
    <2>2. task[d] \in Busy /\ req' = req /\ platform' = platform
      BY <1>9 DEF FinalizeFails
    <2>3. QED
      BY <1>6, <2>1, <2>2
  <1>10. QED
    BY <1>2, <1>3, <1>4, <1>5, <1>7, <1>8, <1>9 DEF TaskStep

\* Steps that leave the handlers, the tasks and the platform alone.
Elsewhere ==
  \/ OutboxStep
  \/ \E d \in Deliveries :
       \/ \E s \in Subjects, state \in Final : Reconcile(d, s, state)
       \/ Retention(d)
  \/ \E t \in Targets : PurgeMessages(t) \/ PurgeJournal(t)
  \/ \E s \in Scopes : Expire(s)
  \/ UNCHANGED vars

LEMMA ElsewhereLeavesCalls ==
  ASSUME Elsewhere
  PROVE  req' = req /\ handler' = handler /\ task' = task /\ platform' = platform
  BY DEF Elsewhere, OutboxStep, OutboxSelect, OutboxPublish, OutboxMark,
         OutboxMarkFails, Reconcile, Retention, PurgeMessages, PurgeJournal,
         Expire, vars, storeVars, callVars

LEMMA InStepPreserved == ASSUME TypeOK, InStep, [Next]_vars PROVE InStep'
  <1>1. CASE Elsewhere
    BY <1>1, ElsewhereLeavesCalls DEF InStep
  <1>2. CASE Crash
    BY <1>2 DEF Crash, InStep, TypeOK, VarsTypeOK, Deliveries, Live, Busy, storeVars
  <1>3. ASSUME NEW q \in Reqs, NEW content \in Requests,
               SubmitSend(q, content) \/ SubmitBatch(q, content)
        PROVE  InStep'
    BY <1>3, InStepSubmit DEF SubmitSend, SubmitBatch
  <1>4. QED
    BY <1>1, <1>2, <1>3, InStepHandler, InStepDelivery DEF Next, Elsewhere

-----------------------------------------------------------------------------
(* Whoever may still call the platform holds the reservation *)

IInv == TypeOK /\ InStep /\ RowsOK /\ SenderHoldsReservation

\* What a step does to the reservation table: nothing, a new reservation, the
\* expired rows dropped, a completion or an expiry.
ReservationStep ==
  \/ idem' = idem \/ idem' = LiveReservations
  \/ \E r \in Reqs : ReserveNew(r) \/ Complete(r)
  \/ \E s \in Scopes : Expire(s)

LEMMA ReservationStepped == ASSUME [Next]_vars PROVE ReservationStep
  <1> USE DEF ReservationStep
  <1>1. ASSUME NEW r \in Reqs, NEW content \in Requests, Admit(r, content)
        PROVE  idem' = idem
    BY <1>1 DEF Admit
  <1>2. ASSUME NEW d \in Deliveries,
               TaskStep(d) \/ CallBreaks(d) \/ PlatformActs(d)
        PROVE  idem' = idem
    BY <1>2 DEF TaskStep, TakePermit, PrepareIntent, PrepareFails, StartCall,
           CallRefused, CallReturns, CallTimesOut, Finalize, FinalizeFails,
           CallBreaks, PlatformActs, storeVars
  <1>3. ASSUME OutboxStep \/ Crash \/ UNCHANGED vars PROVE idem' = idem
    BY <1>3 DEF OutboxStep, OutboxSelect, OutboxPublish, OutboxMark,
           OutboxMarkFails, Crash, storeVars, vars
  <1>4. ASSUME NEW d \in Deliveries,
               \/ \E s \in Subjects, state \in Final : Reconcile(d, s, state)
               \/ Retention(d)
        PROVE  idem' = idem
    BY <1>4 DEF Reconcile, Retention
  <1>5. ASSUME NEW t \in Targets, PurgeMessages(t) \/ PurgeJournal(t)
        PROVE  idem' = idem
    BY <1>5 DEF PurgeMessages, PurgeJournal
  <1>6. ASSUME NEW r \in Reqs,
               \/ ReserveFails(r) \/ BatchJoin(r) \/ BatchTimesOut(r)
               \/ CompleteFails(r) \/ ClientGone(r)
        PROVE  idem' = idem
    BY <1>6 DEF ReserveFails, BatchJoin, BatchTimesOut, CompleteFails,
                ClientGone, storeVars
  <1>7. ASSUME NEW r \in Reqs, ReserveTaken(r) PROVE idem' = LiveReservations
    BY <1>7 DEF ReserveTaken
  <1>8. QED
    BY <1>1, <1>2, <1>3, <1>4, <1>5, <1>6, <1>7
       DEF Next, HandlerStep, SubmitSend, SubmitBatch

LEMMA RowsPreserved == ASSUME TypeOK, RowsOK, [Next]_vars PROVE RowsOK'
  <1> USE DEF TypeOK, VarsTypeOK, StoreTypeOK, AdmittedOK, RowsOK
  <1>1. CASE idem' = idem
    BY <1>1
  <1>2. CASE idem' = LiveReservations
    BY <1>2 DEF LiveReservations, NoReservation
  <1>3. ASSUME NEW r \in Reqs, ReserveNew(r) PROVE RowsOK'
    <2>1. Scope(r) \in Scopes
      BY <1>3, ScopeType DEF ReserveNew
    <2>2. idem' = [LiveReservations EXCEPT
                     ![Scope(r)] = [state |-> "pending", owner |-> r,
                                    reply |-> NoReply, expired |-> FALSE]]
      BY <1>3 DEF ReserveNew, Acquire
    <2>3. QED
      BY <2>1, <2>2 DEF LiveReservations, NoReservation
  <1>4. ASSUME NEW r \in Reqs, Complete(r) PROVE RowsOK'
    BY ZenonT(60), <1>4 DEF Complete, CompleteRow, Reservations
  <1>5. ASSUME NEW s \in Scopes, Expire(s) PROVE RowsOK'
    BY <1>5 DEF Expire, Reservations
  <1>6. QED
    BY <1>1, <1>2, <1>3, <1>4, <1>5, ReservationStepped DEF ReservationStep

\* A step that changes no reservation and starts nobody's work is harmless.
LEMMA NobodyStarts ==
  ASSUME TypeOK, SenderHoldsReservation,
         req' = req,
         \A s \in Scopes : ~idem[s].expired => idem'[s] = idem[s],
         \A r \in Reqs : AtWork(r)' => AtWork(r)
  PROVE  SenderHoldsReservation'
  <1> SUFFICES ASSUME NEW r \in Reqs, AtWork(r)', Keyed(r)'
               PROVE  /\ idem'[Scope(r)'].owner = r
                      /\ idem'[Scope(r)'].state = "pending"
                      /\ ~idem'[Scope(r)'].expired
    BY DEF SenderHoldsReservation
  <1>1. Keyed(r) /\ Scope(r)' = Scope(r)
    BY DEF Keyed, Scope
  <1>2. Scope(r) \in Scopes
    BY <1>1, ScopeType DEF TypeOK, VarsTypeOK
  <1>3. QED
    BY <1>1, <1>2 DEF SenderHoldsReservation

LEMMA DeliveryStartsNobody ==
  ASSUME TypeOK, NEW d \in Deliveries,
         TaskStep(d) \/ CallBreaks(d) \/ PlatformActs(d)
  PROVE  /\ req' = req /\ idem' = idem
         /\ \A r \in Reqs : AtWork(r)' => AtWork(r)
  <1> USE DEF TypeOK, VarsTypeOK, Deliveries, Busy, HasResult, storeVars
  <1>1. PICK q \in Reqs, u \in Targets : d = <<q, u>>
    OBVIOUS
  <1>2. req' = req /\ idem' = idem
    BY DEF TaskStep, TakePermit, PrepareIntent, PrepareFails, StartCall,
           CallRefused, CallReturns, CallTimesOut, Finalize, FinalizeFails,
           CallBreaks, PlatformActs
  <1>3. \/ handler' = handler /\ task' = task
        \/ /\ task[d] \in Busy \cup {"queued"}
           /\ \A r \in Reqs : r # q => handler'[r] = handler[r]
           /\ \A e \in Deliveries : e # d => task'[e] = task[e]
    BY <1>1 DEF TaskStep, TakePermit, PrepareIntent, PrepareFails, StartCall,
           CallRefused, CallReturns, CallTimesOut, Finalize, FinalizeFails,
           CallBreaks, PlatformActs, EndTask
  <1>4. ASSUME NEW r \in Reqs, AtWork(r)' PROVE AtWork(r)
    BY <1>1, <1>3, <1>4 DEF AtWork
  <1>5. QED
    BY <1>2, <1>4

LEMMA HandlerKeepsReservation ==
  ASSUME IInv, NEW q \in Reqs, HandlerStep(q) \/ ClientGone(q)
  PROVE  SenderHoldsReservation'
  <1> USE DEF IInv, TypeOK, VarsTypeOK, StoreTypeOK, AdmittedOK, storeVars
  <1>1. CASE ReserveNew(q)
    <2>1. Keyed(q) /\ Scope(q) \in Scopes
      BY <1>1, ScopeType DEF ReserveNew
    <2>2. LiveReservations \in [Scopes -> Reservations]
      BY LiveReservationsType
    <2>3. \A r \in Reqs : r # q => (AtWork(r)' <=> AtWork(r))
      BY <1>1 DEF ReserveNew, Launch, AtWork, Deliveries
    <2>4. SUFFICES ASSUME NEW r \in Reqs, AtWork(r)', Keyed(r)'
                   PROVE  /\ idem'[Scope(r)'].owner = r
                          /\ idem'[Scope(r)'].state = "pending"
                          /\ ~idem'[Scope(r)'].expired
      BY DEF SenderHoldsReservation
    <2>5. Keyed(r) /\ Scope(r)' = Scope(r)
      BY <1>1, <2>4 DEF ReserveNew, Keyed, Scope
    <2>6. Scope(r) \in Scopes
      BY <2>5, ScopeType
    <2>7. CASE r = q
      BY <1>1, <2>1, <2>2, <2>5, <2>7 DEF ReserveNew, Acquire
    <2>8. CASE r # q
      <3>1. /\ idem[Scope(r)].owner = r /\ idem[Scope(r)].state = "pending"
            /\ ~idem[Scope(r)].expired
        BY <2>3, <2>4, <2>5, <2>8 DEF SenderHoldsReservation
      <3>2. Scope(r) # Scope(q)
        BY <1>1, <2>6, <3>1 DEF ReserveNew, Acquires, LiveReservations
      <3>3. QED
        BY <1>1, <2>2, <2>5, <2>6, <3>1, <3>2
           DEF ReserveNew, Acquire, LiveReservations
    <2>9. QED
      BY <2>7, <2>8
  <1>2. CASE ReserveTaken(q)
    <2>1. req' = req /\ idem' = LiveReservations /\ task' = task
      BY <1>2 DEF ReserveTaken
    <2>2. \A r \in Reqs : AtWork(r)' => AtWork(r)
      BY <1>2 DEF ReserveTaken, AtWork
    <2>3. QED
      BY <2>1, <2>2, NobodyStarts DEF LiveReservations
  <1>3. CASE ReserveFails(q) \/ CompleteFails(q)
    <2>1. req' = req /\ idem' = idem /\ \A r \in Reqs : AtWork(r)' => AtWork(r)
      BY <1>3 DEF ReserveFails, CompleteFails, AtWork
    <2>2. QED
      BY <2>1, NobodyStarts
  <1>4. CASE BatchJoin(q) \/ BatchTimesOut(q)
    <2>1. req' = req /\ idem' = idem /\ \A r \in Reqs : AtWork(r)' => AtWork(r)
      BY <1>4 DEF BatchJoin, BatchTimesOut, AtWork
    <2>2. QED
      BY <2>1, NobodyStarts
  <1>5. CASE ClientGone(q)
    <2>1. req' = req /\ idem' = idem /\ \A r \in Reqs : AtWork(r)' => AtWork(r)
      BY <1>5 DEF ClientGone, AtWork, Deliveries
    <2>2. QED
      BY <2>1, NobodyStarts
  <1>6. CASE Complete(q)
    <2>1. req' = req /\ task' = task /\ \A r \in Reqs : AtWork(r)' => AtWork(r)
      BY <1>6 DEF Complete, AtWork
    <2>2. CASE idem' = idem
      BY <2>1, <2>2, NobodyStarts
    <2>3. CASE Keyed(q) /\ CompleteRow(q, ResultsOf(q))
      <3>1. AtWork(q) /\ ~AtWork(q)'
        BY <1>6 DEF Complete, AtWork, InStep
      <3>2. idem[Scope(q)].owner = q
        BY <2>3, <3>1 DEF SenderHoldsReservation
      <3>3. SUFFICES ASSUME NEW r \in Reqs, AtWork(r)', Keyed(r)'
                     PROVE  /\ idem'[Scope(r)'].owner = r
                            /\ idem'[Scope(r)'].state = "pending"
                            /\ ~idem'[Scope(r)'].expired
        BY DEF SenderHoldsReservation
      <3>4. Keyed(r) /\ Scope(r)' = Scope(r) /\ AtWork(r) /\ r # q
        BY <2>1, <3>1, <3>3 DEF Keyed, Scope
      <3>5. Scope(r) \in Scopes /\ Scope(r) # Scope(q)
        BY <3>2, <3>4, ScopeType DEF SenderHoldsReservation
      <3>6. QED
        BY <2>3, <3>4, <3>5 DEF CompleteRow, SenderHoldsReservation
    <2>4. QED
      BY <1>6, <2>2, <2>3 DEF Complete
  <1>7. QED
    BY <1>1, <1>2, <1>3, <1>4, <1>5, <1>6 DEF HandlerStep

LEMMA SubmitKeepsReservation ==
  ASSUME IInv, NEW q \in Reqs, NEW content \in Requests, Admit(q, content)
  PROVE  SenderHoldsReservation'
  <1> USE DEF IInv, TypeOK, VarsTypeOK, StoreTypeOK
  <1> SUFFICES ASSUME NEW r \in Reqs, AtWork(r)', Keyed(r)'
               PROVE  /\ idem'[Scope(r)'].owner = r
                      /\ idem'[Scope(r)'].state = "pending"
                      /\ ~idem'[Scope(r)'].expired
    BY DEF SenderHoldsReservation
  <1>1. idem' = idem
    BY DEF Admit
  <1>2. r # q
    <2>1. \A t \in Targets : task[<<q, t>>] = "off"
      BY DEF Admit, InStep
    <2>2. CASE content.key = NoKey
      BY <2>2, StoreAssumption DEF Admit, Keyed
    <2>3. CASE content.key # NoKey
      BY <2>1, <2>3 DEF Admit, AtWork, Busy
    <2>4. QED
      BY <2>2, <2>3
  <1>3. Keyed(r) /\ Scope(r)' = Scope(r)
    BY <1>2 DEF Admit, Keyed, Scope
  <1>4. AtWork(r)
    BY <1>2 DEF Admit, Launch, AtWork, Deliveries
  <1>5. QED
    BY <1>1, <1>3, <1>4 DEF SenderHoldsReservation

LEMMA ExpireKeepsReservation ==
  ASSUME IInv, NEW s \in Scopes, Expire(s)
  PROVE  SenderHoldsReservation'
  <1> USE DEF IInv, TypeOK, VarsTypeOK, StoreTypeOK
  <1> SUFFICES ASSUME NEW r \in Reqs, AtWork(r)', Keyed(r)'
               PROVE  /\ idem'[Scope(r)'].owner = r
                      /\ idem'[Scope(r)'].state = "pending"
                      /\ ~idem'[Scope(r)'].expired
    BY DEF SenderHoldsReservation
  <1>1. AtWork(r) /\ Keyed(r) /\ Scope(r)' = Scope(r)
    BY DEF Expire, callVars, AtWork, Keyed, Scope
  <1>2. Scope(r) # s
    BY <1>1 DEF Expire, AtWork, Settled, Live, SenderHoldsReservation
  <1>3. QED
    BY <1>1, <1>2, ScopeType DEF Expire, SenderHoldsReservation

\* The four facts together are kept by every step.
LEMMA ReservationsInductive == Spec => []IInv
  <1>1. Init => IInv
    <2>1. Init => InStep /\ RowsOK
      BY DEF Init, StoreInit, InStep, RowsOK, NoReservation, Deliveries
    <2>1a. Init => SenderHoldsReservation
      <3>1. Init => \A r \in Reqs : ~AtWork(r)
        BY DEF Init, AtWork, Busy, Deliveries
      <3>2. QED
        BY <3>1 DEF SenderHoldsReservation
    <2>2. Init => TypeOK
      BY NoReplyType
         DEF Init, StoreInit, TypeOK, VarsTypeOK, AdmittedOK, StoreTypeOK,
             NoReservation, Reservations, NoRow, Rows, RowStates, TaskSteps,
             Outcomes, PlatformStates, Deliveries
    <2>3. QED
      BY <2>1, <2>1a, <2>2 DEF IInv
  <1>2. ASSUME IInv, TypeOK', [Next]_vars PROVE IInv'
    <2>1. InStep' /\ RowsOK'
      BY <1>2, InStepPreserved, RowsPreserved DEF IInv
    <2>2. SenderHoldsReservation'
      <3>1. CASE \/ OutboxStep \/ UNCHANGED vars
                 \/ \E d \in Deliveries :
                      \/ \E s \in Subjects, state \in Final : Reconcile(d, s, state)
                      \/ Retention(d)
                 \/ \E t \in Targets : PurgeMessages(t) \/ PurgeJournal(t)
        <4>1. req' = req /\ idem' = idem /\ handler' = handler /\ task' = task
          BY <3>1 DEF OutboxStep, OutboxSelect, OutboxPublish, OutboxMark,
                      OutboxMarkFails, Reconcile, Retention, PurgeMessages,
                      PurgeJournal, vars, storeVars, callVars
        <4>2. QED
          BY <1>2, <4>1, NobodyStarts DEF IInv, AtWork
      <3>2. CASE Crash
        <4>1. \A r \in Reqs : ~AtWork(r)'
          BY <1>2, <3>2 DEF Crash, AtWork, IInv, TypeOK, VarsTypeOK, Live, Busy,
                            Deliveries
        <4>2. QED
          BY <4>1 DEF SenderHoldsReservation
      <3>3. ASSUME NEW d \in Deliveries,
                   TaskStep(d) \/ CallBreaks(d) \/ PlatformActs(d)
            PROVE  SenderHoldsReservation'
        BY <1>2, <3>3, DeliveryStartsNobody, NobodyStarts DEF IInv
      <3>4. ASSUME NEW r \in Reqs, NEW content \in Requests,
                   SubmitSend(r, content) \/ SubmitBatch(r, content)
            PROVE  SenderHoldsReservation'
        BY <1>2, <3>4, SubmitKeepsReservation DEF SubmitSend, SubmitBatch
      <3>5. ASSUME NEW r \in Reqs, HandlerStep(r) \/ ClientGone(r)
            PROVE  SenderHoldsReservation'
        BY <1>2, <3>5, HandlerKeepsReservation
      <3>6. ASSUME NEW s \in Scopes, Expire(s) PROVE SenderHoldsReservation'
        BY <1>2, <3>6, ExpireKeepsReservation
      <3>7. QED
        BY <1>2, <3>1, <3>2, <3>3, <3>4, <3>5, <3>6 DEF Next
    <2>3. QED
      BY <1>2, <2>1, <2>2 DEF IInv
  <1>3. QED
    BY <1>1, <1>2, TypeCorrect, PTL DEF Spec

\* In every reachable state a request that may still reach the platform, or
\* store a response, under a key owns that key's pending reservation.
THEOREM ReservationHeld == Spec => []SenderHoldsReservation
  <1>1. IInv => SenderHoldsReservation
    BY DEF IInv
  <1>2. QED
    BY <1>1, ReservationsInductive, PTL

-----------------------------------------------------------------------------
(* The journal *)

\* Every change of the journal is one of the store's statements.
LEMMA JournalStep ==
  ASSUME TypeOK, [Next]_vars
  PROVE  \/ journal' = journal
         \/ \E d \in Deliveries : Prepare(d) \/ MarkPublished(d)
         \/ \E d \in Deliveries, s \in Final, by \in {"sender", "operator"} :
              SetFinal(d, s, by)
         \/ \E ds \in SUBSET Deliveries, why \in Removed : DeleteRows(ds, why)
  <1> DEFINE Goal ==
         \/ journal' = journal
         \/ \E d \in Deliveries : Prepare(d) \/ MarkPublished(d)
         \/ \E d \in Deliveries, s \in Final, by \in {"sender", "operator"} :
              SetFinal(d, s, by)
         \/ \E ds \in SUBSET Deliveries, why \in Removed : DeleteRows(ds, why)
  <1> USE DEF storeVars
  <1>1. ASSUME NEW r \in Reqs, NEW content \in Requests, Admit(r, content)
        PROVE  Goal
    BY <1>1 DEF Admit
  <1>2. ASSUME NEW r \in Reqs, HandlerStep(r) \/ ClientGone(r) PROVE Goal
    BY <1>2 DEF HandlerStep, ReserveNew, ReserveTaken, ReserveFails, BatchJoin,
                BatchTimesOut, Complete, CompleteFails, ClientGone
  <1>3. ASSUME NEW d \in Deliveries, Finalize(d) PROVE Goal
    <2>1. \E s \in Final : SetFinal(d, s, "sender")
      BY <1>3 DEF Finalize, FinalizeRow, Final
    <2>2. QED
      BY <2>1
  <1>4. ASSUME NEW d \in Deliveries, PrepareIntent(d) PROVE Goal
    BY <1>4 DEF PrepareIntent
  <1>5. ASSUME NEW d \in Deliveries,
               TaskStep(d) \/ CallBreaks(d) \/ PlatformActs(d),
               ~Finalize(d), ~PrepareIntent(d)
        PROVE  Goal
    BY <1>5 DEF TaskStep, TakePermit, PrepareFails, StartCall, CallRefused,
                CallReturns, CallTimesOut, FinalizeFails, CallBreaks,
                PlatformActs
  <1>6. ASSUME NEW d \in Deliveries, NEW s \in Subjects, NEW state \in Final,
               Reconcile(d, s, state)
        PROVE  Goal
    BY <1>6 DEF Reconcile, ReconcileRow
  <1>7. ASSUME NEW d \in Deliveries, Retention(d) PROVE Goal
    BY <1>7 DEF Retention, Removed
  <1>8. ASSUME NEW t \in Targets, PurgeMessages(t) \/ PurgeJournal(t) PROVE Goal
    <2>1. Reqs \X {t} \in SUBSET Deliveries
      BY DEF Deliveries
    <2>2. QED
      BY <1>8, <2>1 DEF PurgeMessages, PurgeJournal, Removed
  <1>9. CASE OutboxStep
    <2>1. ASSUME NEW e \in batch, OutboxMark(e) PROVE Goal
      BY <2>1 DEF OutboxMark, TypeOK, VarsTypeOK, Events
    <2>2. QED
      BY <1>9, <2>1 DEF OutboxStep, OutboxSelect, OutboxPublish, OutboxMarkFails
  <1>10. ASSUME Crash \/ UNCHANGED vars \/ \E s \in Scopes : Expire(s) PROVE Goal
    BY <1>10 DEF Crash, Expire, vars
  <1>11. QED
    BY <1>1, <1>2, <1>3, <1>4, <1>5, <1>6, <1>7, <1>8, <1>9, <1>10
       DEF Next, SubmitSend, SubmitBatch

LEMMA FinalOnceStep ==
  ASSUME TypeOK, [Next]_vars, NEW d \in Deliveries, journal[d].state \in Final
  PROVE  \/ journal'[d].state \in Removed
         \/ /\ journal'[d].state = journal[d].state
            /\ journal'[d].by = journal[d].by
            /\ journal'[d].at = journal[d].at
  <1> USE DEF TypeOK, VarsTypeOK, StoreTypeOK, Rows, Final
  <1>1. ASSUME NEW e \in Deliveries, Prepare(e) PROVE journal'[d] = journal[d]
    BY <1>1 DEF Prepare
  <1>2. ASSUME NEW e \in Deliveries, NEW s \in Final,
               NEW by \in {"sender", "operator"}, SetFinal(e, s, by)
        PROVE  journal'[d] = journal[d]
    BY <1>2 DEF SetFinal
  <1>3. ASSUME NEW e \in Deliveries, MarkPublished(e)
        PROVE  /\ journal'[d].state = journal[d].state
               /\ journal'[d].by = journal[d].by
               /\ journal'[d].at = journal[d].at
    BY <1>3 DEF MarkPublished
  <1>4. ASSUME NEW ds \in SUBSET Deliveries, NEW why \in Removed, DeleteRows(ds, why)
        PROVE  journal'[d] = journal[d] \/ journal'[d].state \in Removed
    BY <1>4 DEF DeleteRows
  <1>5. QED
    BY <1>1, <1>2, <1>3, <1>4, JournalStep

\* A final row keeps its state, its author and its time until it is removed:
\* sender and operator cannot overwrite one another.
THEOREM FinalHappensOnce == Spec => FinalOnce
  <1>1. ASSUME TypeOK, [Next]_vars
        PROVE  \A d \in Deliveries :
                 journal[d].state \in Final =>
                   \/ journal'[d].state \in Removed
                   \/ /\ journal'[d].state = journal[d].state
                      /\ journal'[d].by = journal[d].by
                      /\ journal'[d].at = journal[d].at
    BY <1>1, FinalOnceStep
  <1>2. QED
    BY <1>1, TypeCorrect, PTL DEF Spec, FinalOnce

=============================================================================
