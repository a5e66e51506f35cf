---------------------------- MODULE OutboundStore ----------------------------
(***************************************************************************)
(* The durable state behind message sending: the reservation table         *)
(* api_idempotency of auth.db, the journal outbound_deliveries and the     *)
(* table messages of the message database, and the SQL statements that     *)
(* change them.  One operator stands for one statement or transaction; it  *)
(* gives the new value of the tables it writes and nothing else.           *)
(*                                                                         *)
(* A delivery is the pair of the HTTP request that created it and the      *)
(* target it is for: the code draws a fresh UUIDv7 for every such pair.    *)
(***************************************************************************)
EXTENDS Naturals, FiniteSets

CONSTANTS
  Reqs,          \* HTTP requests (one handler each)
  Subjects,      \* stable subjects behind the API keys
  Keys,          \* values of the Idempotency-Key header
  NoKey,         \* the header is absent
  Bodies,        \* request bodies, equal iff their SHA-256 is
  Targets,       \* "platform:chat_id"
  TargetsOf,     \* TargetsOf[b]: the targets body b names
  BatchBodies,   \* the bodies sent to /messages/batch-send
  NoReq

ASSUME StoreAssumption ==
  /\ NoReq \notin Reqs
  /\ NoKey \notin Keys
  /\ BatchBodies \subseteq Bodies
  /\ TargetsOf \in [Bodies -> SUBSET Targets \ {{}}]
  /\ \A b \in Bodies \ BatchBodies : \E t \in Targets : TargetsOf[b] = {t}

Deliveries == Reqs \X Targets
Scopes     == Subjects \X Keys
Contents   == [subject : Subjects, key : Keys \cup {NoKey}, body : Bodies]
NoContent  == [subject |-> NoReq, key |-> NoKey, body |-> NoReq]

\* What a response says of a target; "none": the response does not name it.
Outcomes == {"none", "sent", "failed", "indeterminate"}
Replies  == [Targets -> Outcomes]
NoReply  == [t \in Targets |-> "none"]

Final      == {"succeeded", "failed"}
Removed    == {"deleted", "expired"}
RowStates  == {"absent", "pending"} \cup Final \cup Removed

VARIABLES
  req,        \* req[r]: what request r asked (fixed when it arrives)
  idem,       \* api_idempotency, by scope; owner stands for request_hash
  journal,    \* outbound_deliveries; a deleted row leaves a tombstone
  history,    \* deliveries with a row in table messages
  clock       \* completed_at of the next row to be finalised

storeVars == <<req, idem, journal, history, clock>>

NoReservation == [state |-> "absent", owner |-> NoReq,
                  reply |-> NoReply, expired |-> FALSE]
Reservations  == [state : {"absent", "pending", "completed"},
                  owner : Reqs \cup {NoReq}, reply : Replies,
                  expired : BOOLEAN]

\* "by": who finalised the row; "at": completed_at; "told": event_published.
NoRow == [state |-> "absent", by |-> "none", at |-> 0, told |-> FALSE]
Rows  == [state : RowStates, by : {"none", "sender", "operator"},
          at : Nat, told : BOOLEAN]

StoreTypeOK ==
  /\ req \in [Reqs -> Contents \cup {NoContent}]
  /\ idem \in [Scopes -> Reservations]
  /\ journal \in [Deliveries -> Rows]
  /\ history \subseteq Deliveries
  /\ clock \in Nat

StoreInit ==
  /\ req = [r \in Reqs |-> NoContent]
  /\ idem = [s \in Scopes |-> NoReservation]
  /\ journal = [d \in Deliveries |-> NoRow]
  /\ history = {}
  /\ clock = 0

-----------------------------------------------------------------------------
(* Table api_idempotency *)

\* The primary key (key_id, idempotency_key); key_id is the subject.
\* Mutant: the subject is left out of the primary key.
Scope_KeyOnly(r) == <<CHOOSE s \in Subjects : TRUE, req[r].key>>

Scope(r) == <<req[r].subject, req[r].key>>

Keyed(r) == req[r].key \in Keys

\* DELETE ... WHERE expires_at <= now, first statement of every reservation.
LiveReservations ==
  [s \in Scopes |-> IF idem[s].expired THEN NoReservation ELSE idem[s]]

SameBody(s, r) ==
  /\ idem[s].owner \in Reqs
  /\ req[idem[s].owner].body = req[r].body

\* INSERT OR IGNORE inserted the row.
\* Mutants: the insert replaces a pending row, or a completed one.
Acquires_PendingIsFree(r)   == LiveReservations[Scope(r)].state # "completed"
Acquires_CompletedIsFree(r) == LiveReservations[Scope(r)].state # "pending"

Acquires(r) == LiveReservations[Scope(r)].state = "absent"

Acquire(r) ==
  idem' = [LiveReservations EXCEPT
             ![Scope(r)] = [state |-> "pending", owner |-> r,
                            reply |-> NoReply, expired |-> FALSE]]

\* The row was there: the answer depends on its hash and its state.
Conflicts(r) == ~Acquires(r) /\ ~SameBody(Scope(r), r)
Replays(r)   == /\ ~Acquires(r) /\ SameBody(Scope(r), r)
                /\ idem[Scope(r)].state = "completed"
InProgress(r) == /\ ~Acquires(r) /\ SameBody(Scope(r), r)
                 /\ idem[Scope(r)].state = "pending"

\* UPDATE ... SET state='completed' WHERE ... request_hash=? AND state='pending'
CanComplete(r) == /\ idem[Scope(r)].state = "pending"
                  /\ SameBody(Scope(r), r)

CompleteRow(r, reply) ==
  idem' = [idem EXCEPT ![Scope(r)].state = "completed",
                       ![Scope(r)].reply = reply]

-----------------------------------------------------------------------------
(* Tables outbound_deliveries and messages *)

Present(d) == journal[d].state \in {"pending"} \cup Final

\* INSERT INTO outbound_deliveries ... 'pending'
Prepare(d) ==
  /\ journal[d].state = "absent"
  /\ journal' = [journal EXCEPT ![d].state = "pending"]

\* Mutant: the UPDATE forgets AND state = 'pending'.
SetFinal_NoGuard(d, state, by) ==
  /\ Present(d)
  /\ journal' = [journal EXCEPT
                   ![d] = [state |-> state, by |-> by,
                           at |-> clock, told |-> FALSE]]
  /\ clock' = clock + 1

\* Mutant: the UPDATE has become an upsert and brings a deleted row back.
SetFinal_Upsert(d, state, by) ==
  /\ journal[d].state \in {"pending"} \cup Removed
  /\ journal' = [journal EXCEPT
                   ![d] = [state |-> state, by |-> by,
                           at |-> clock, told |-> FALSE]]
  /\ clock' = clock + 1

\* UPDATE ... SET state, result_json, completed_at WHERE state = 'pending'
SetFinal(d, state, by) ==
  /\ journal[d].state = "pending"
  /\ journal' = [journal EXCEPT
                   ![d] = [state |-> state, by |-> by,
                           at |-> clock, told |-> FALSE]]
  /\ clock' = clock + 1

\* Mutant: the message is inserted on its own, before the UPDATE is tried.
FinalizeRow_NoRollback(d, state, withMessage) ==
  /\ \/ SetFinal(d, state, "sender")
     \/ journal[d].state # "pending" /\ UNCHANGED <<journal, clock>>
  /\ history' = IF withMessage THEN history \cup {d} ELSE history

\* One transaction: the message row, if any, and the final state.  When the
\* UPDATE does not touch exactly one row, the message row is rolled back too.
FinalizeRow(d, state, withMessage) ==
  /\ SetFinal(d, state, "sender")
  /\ history' = IF withMessage THEN history \cup {d} ELSE history

\* The operator's UPDATE: also limited to the subject's own rows.
ReconcileRow(d, subject, state) ==
  /\ req[d[1]].subject = subject
  /\ SetFinal(d, state, "operator")

\* Deleting rows: by session (why = "deleted") or by age (why = "expired").
DeleteRows(ds, why) ==
  journal' = [d \in Deliveries |->
                IF d \in ds /\ Present(d)
                THEN [journal[d] EXCEPT !.state = why] ELSE journal[d]]

DeleteMessages(ds) == history' = history \ ds

(* The outbox is the set of final rows whose event is not yet published.  *)
Unpublished == {d \in Deliveries : journal[d].state \in Final /\ ~journal[d].told}

\* ORDER BY completed_at LIMIT n
Oldest(n) ==
  {d \in Unpublished :
     Cardinality({e \in Unpublished : journal[e].at < journal[d].at}) < n}

\* Mutant: the acknowledgement overwrites the state column.
MarkPublished_AsState(d) ==
  /\ journal[d].state \in Final
  /\ journal' = [journal EXCEPT ![d].state = "published"]

MarkPublished(d) ==
  /\ journal[d].state \in Final
  /\ journal' = [journal EXCEPT ![d].told = TRUE]

=============================================================================
