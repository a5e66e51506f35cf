------------------------------- MODULE Ledgers -------------------------------
(* What authenticated requests leave in auth.db besides messages: the usage      *)
(* ledger, which also decides if requests are served, target grants, and the     *)
(* payment events of the billing bridge.                                         *)
EXTENDS Integers, FiniteSets

CONSTANTS LgRequests,             \* concurrent requests
          LgSubjects, LgEvents,   \* callers, and ids of payment events
          MaxLgRequests, MaxLgFaults   \* bounds: requests; failed writes and dropped requests
ASSUME LedgersAssumption == MaxLgRequests \in Nat /\ MaxLgFaults \in Nat

VARIABLES
  lgReq,                          \* per request: at, whom it is from, what it asks
  lgHealthy,                      \* metering_healthy
  lgUsage, lgMirror, lgTotal,     \* requests per subject, the same in the mirror, and the anchor
  lgGrants,                       \* subjects granted the target
  lgPayments, lgPaymentCount,     \* the content of each payment event (0: none), and the anchor
  lgCount, lgFaults
lgVars == <<lgReq, lgHealthy, lgUsage, lgMirror, lgTotal, lgGrants, lgPayments, lgPaymentCount, lgCount, lgFaults>>
lgBook == <<lgUsage, lgMirror, lgTotal>>
lgTables == <<lgGrants, lgPayments, lgPaymentCount>>

LgOps == {"message", "grant", "ungrant", "pay", "usage", "payments"}
LgIdle == [at |-> "idle", from |-> "none", op |-> "none"]
LedgersInit ==
  /\ lgReq = [r \in LgRequests |-> LgIdle] /\ lgHealthy = TRUE /\ lgTotal = 0 /\ lgGrants = {} /\ lgPaymentCount = 0
  /\ lgUsage = [s \in LgSubjects |-> 0] /\ lgMirror = lgUsage /\ lgPayments = [e \in LgEvents |-> 0] /\ lgCount = 0 /\ lgFaults = 0

LgFault == lgFaults < MaxLgFaults /\ lgFaults' = lgFaults + 1
LgTo(r, at) == lgReq' = [lgReq EXCEPT ![r] = IF at = "idle" THEN LgIdle ELSE [@ EXCEPT !.at = at]]
LgRuns(r, op) == lgReq[r].at = "run" /\ lgReq[r].op = op /\ LgTo(r, "answer") /\ UNCHANGED <<lgHealthy, lgBook, lgCount, lgFaults>>

\* auth_middleware: a request is served only while usage can be recorded; then
\* permission_middleware, whose refusal is an answer too.
LgArrive(r) ==
  /\ lgReq[r].at = "idle" /\ lgHealthy /\ lgCount < MaxLgRequests /\ lgCount' = lgCount + 1
  /\ \E s \in LgSubjects, op \in LgOps, permitted \in BOOLEAN :
       lgReq' = [lgReq EXCEPT ![r] = [at |-> IF permitted THEN "run" ELSE "answer", from |-> s, op |-> op]]
  /\ UNCHANGED <<lgHealthy, lgBook, lgTables, lgFaults>>

\* require_target_action: without a grant for the target there is no message; what
\* is sent otherwise is OutboundDelivery's.
LgMessage(r) == LgRuns(r, "message") /\ UNCHANGED lgTables
LgGrant(r) == LgRuns(r, "grant") /\ (\E s \in LgSubjects : lgGrants' = lgGrants \cup {s}) /\ UNCHANGED <<lgPayments, lgPaymentCount>>
LgUngrant(r) == LgRuns(r, "ungrant") /\ (\E s \in LgSubjects : lgGrants' = lgGrants \ {s}) /\ UNCHANGED <<lgPayments, lgPaymentCount>>
\* record_billing_event: created, a duplicate, or a conflict with what is stored.
StorePayment(e, content) ==
  IF lgPayments[e] = 0 THEN lgPayments' = [lgPayments EXCEPT ![e] = content] /\ lgPaymentCount' = lgPaymentCount + 1
  ELSE UNCHANGED <<lgPayments, lgPaymentCount>>
LgPay(r) == LgRuns(r, "pay") /\ (\E e \in LgEvents, content \in 1 .. 2 : StorePayment(e, content)) /\ UNCHANGED lgGrants
\* The exports verify the whole ledger and then read a page.
UsageVerifies == lgUsage = lgMirror /\ lgTotal = Cardinality(UNION {{s} \X (1 .. lgUsage[s]) : s \in LgSubjects})
PaymentsVerify == lgPaymentCount = Cardinality({e \in LgEvents : lgPayments[e] # 0})
LgListUsage(r) == LgRuns(r, "usage") /\ UsageVerifies /\ UNCHANGED lgTables
LgListPayments(r) == LgRuns(r, "payments") /\ PaymentsVerify /\ UNCHANGED lgTables

\* record_usage: ledger, mirror and anchor in one transaction; the flag tells if
\* it was stored.
LgRecord(r) ==
  LET s == lgReq[r].from
  IN  /\ lgReq[r].at = "answer" /\ LgTo(r, "idle")
      /\ \/ /\ lgUsage' = [lgUsage EXCEPT ![s] = @ + 1] /\ lgMirror' = [lgMirror EXCEPT ![s] = @ + 1] /\ lgTotal' = lgTotal + 1
            /\ lgHealthy' = TRUE /\ UNCHANGED lgFaults
         \/ LgFault /\ lgHealthy' = FALSE /\ UNCHANGED lgBook
      /\ UNCHANGED <<lgTables, lgCount>>
\* probe_metering_ready: the readiness endpoint tries a write.
LgProbe == ~lgHealthy /\ lgHealthy' = TRUE /\ UNCHANGED <<lgReq, lgBook, lgTables, lgCount, lgFaults>>
\* The connection closes before the answer is recorded.
LgDrop(r) == lgReq[r].at # "idle" /\ LgTo(r, "idle") /\ LgFault /\ UNCHANGED <<lgHealthy, lgBook, lgTables, lgCount>>

LedgersNext ==
  \/ \E r \in LgRequests : \/ LgArrive(r) \/ LgMessage(r) \/ LgGrant(r) \/ LgUngrant(r) \/ LgPay(r) \/ LgListUsage(r) \/ LgListPayments(r)
                           \/ LgRecord(r) \/ LgDrop(r)
  \/ LgProbe

\* Types; and both ledgers verify at any time.
LedgersTypeOK ==
  /\ \A r \in LgRequests : lgReq[r].at \in {"idle", "run", "answer"} /\ lgReq[r].op \in LgOps \cup {"none"}
  /\ lgGrants \subseteq LgSubjects /\ UsageVerifies /\ PaymentsVerify
=============================================================================
