------------------------ MODULE InboundPersistence --------------------------
(* The message persister, core/session/message_persister.rs: it receives        *)
(* message.inbound events, buffers them and writes them in batches to the table *)
(* messages. A message is named by its position in inbound; two positions with  *)
(* the same id are a platform's redelivery of one message.                      *)
EXTENDS EventBus, SequencesExt

CONSTANTS
  InboundIds,         \* ids of inbound messages
  BatchSize,          \* 50: a buffer of this size is written at once
  WriteRetries,       \* MAX_RETRIES, 3
  MaxInbound,         \* bound: messages the adapters publish
  MaxWriteFaults,     \* bound: failing writes
  MaxExits            \* bound: exits of the process

ASSUME PersisterAssumption ==
  /\ BatchSize \in Nat \ {0}
  /\ WriteRetries \in Nat \ {0}
  /\ MaxInbound \in Nat /\ MaxWriteFaults \in Nat /\ MaxExits \in Nat

VARIABLES
  inbound,            \* what the adapters published, in order
  inCursor,           \* next position the persister receives
  buffer,             \* positions received and not taken by a flush
  batch,              \* positions the current flush has taken
  persister,          \* "receive", "write" (store_messages), "pause" (back-off)
  tries,              \* attempts of the current flush
  history,            \* rows of the table, in the order of insertion
  overrun,            \* ghost: positions the ring dropped before they were received
  gone,               \* ghost: positions in memory when the process exited
  writeFaults, exits  \* bounded environment events

inboundVars == <<inbound, inCursor, buffer, batch, persister, tries, history,
                 overrun, gone, writeFaults, exits>>

InboundTypeOK ==
  /\ inbound \in Seq(InboundIds) /\ Len(inbound) <= MaxInbound
  /\ inCursor \in 1 .. Len(inbound) + 1
  /\ buffer \in Seq(1 .. Len(inbound)) /\ Len(buffer) < BatchSize + MaxInbound
  /\ batch \in Seq(1 .. Len(inbound))
  /\ history \in Seq(1 .. Len(inbound))
  /\ persister \in {"receive", "write", "pause"}
  /\ tries \in 0 .. WriteRetries
  /\ overrun \subseteq 1 .. Len(inbound) /\ gone \subseteq 1 .. Len(inbound)
  /\ writeFaults \in 0 .. MaxWriteFaults /\ exits \in 0 .. MaxExits

InboundInit ==
  /\ inbound = <<>> /\ inCursor = Subscribe(0)
  /\ buffer = <<>> /\ batch = <<>> /\ history = <<>>
  /\ persister = "receive" /\ tries = 0
  /\ overrun = {} /\ gone = {}
  /\ writeFaults = 0 /\ exits = 0

-----------------------------------------------------------------------------
\* An adapter publishes a message; redelivery publishes the same id again.
PublishInbound ==
  /\ Len(inbound) < MaxInbound
  /\ \E m \in InboundIds : inbound' = Append(inbound, m)
  /\ UNCHANGED <<inCursor, buffer, batch, persister, tries, history, overrun, gone,
                 writeFaults, exits>>

\* flush_batch takes the whole buffer.
BeginFlush(b) ==
  /\ batch' = b /\ buffer' = <<>>
  /\ persister' = "write" /\ tries' = 1

\* The stream yields an event: it is buffered, and a full buffer is flushed.
Receive ==
  /\ persister = "receive" /\ Ready(inCursor, Len(inbound))
  /\ ~Overrun(inCursor, Len(inbound))
  /\ LET b == Append(buffer, inCursor) IN
       \/ Len(b) < BatchSize /\ buffer' = b /\ UNCHANGED <<batch, persister, tries>>
       \/ Len(b) >= BatchSize /\ BeginFlush(b)
  /\ inCursor' = inCursor + 1
  /\ UNCHANGED <<inbound, history, overrun, gone, writeFaults, exits>>

\* The ring has overrun the cursor; subscribe_many logs it and goes on.
SkipMissed ==
  /\ persister = "receive" /\ Overrun(inCursor, Len(inbound))
  /\ overrun' = overrun \cup Missed(inCursor, Len(inbound))
  /\ inCursor' = Oldest(Len(inbound))
  /\ UNCHANGED <<inbound, buffer, batch, persister, tries, history, gone, writeFaults, exits>>

\* Mutant: the timer does not flush.
FlushTick_Never == FALSE /\ UNCHANGED inboundVars

\* The timer fires with something in the buffer.
FlushTick ==
  /\ persister = "receive" /\ buffer # <<>>
  /\ BeginFlush(buffer)
  /\ UNCHANGED <<inbound, inCursor, history, overrun, gone, writeFaults, exits>>

\* INSERT OR IGNORE of one batch in one transaction: a known id changes nothing.
InsertBatch(rows, ps) ==
  FoldLeft(LAMBDA done, p : IF \E i \in DOMAIN done : inbound[done[i]] = inbound[p]
                            THEN done ELSE Append(done, p),
           rows, ps)

StoreBatch ==
  /\ persister = "write"
  /\ history' = InsertBatch(history, batch)
  /\ batch' = <<>> /\ persister' = "receive" /\ tries' = 0
  /\ UNCHANGED <<inbound, inCursor, buffer, overrun, gone, writeFaults, exits>>

\* Mutant: a batch is forgotten after its last attempt.
StoreFails_Forgets ==
  /\ persister = "write" /\ writeFaults < MaxWriteFaults
  /\ writeFaults' = writeFaults + 1
  /\ batch' = <<>> /\ persister' = "receive" /\ tries' = 0
  /\ UNCHANGED <<inbound, inCursor, buffer, history, overrun, gone, exits>>

\* store_messages reports an error; the commit may have happened nevertheless.
\* After the last attempt the batch goes back to the head of the buffer.
StoreFails ==
  /\ persister = "write" /\ writeFaults < MaxWriteFaults
  /\ writeFaults' = writeFaults + 1
  /\ history' \in {history, InsertBatch(history, batch)}
  /\ \/ /\ tries < WriteRetries
        /\ tries' = tries + 1 /\ persister' = "pause"
        /\ UNCHANGED <<buffer, batch>>
     \/ /\ tries = WriteRetries
        /\ buffer' = batch \o buffer /\ batch' = <<>>
        /\ persister' = "receive" /\ tries' = 0
  /\ UNCHANGED <<inbound, inCursor, overrun, gone, exits>>

StoreAgain ==
  /\ persister = "pause" /\ persister' = "write"
  /\ UNCHANGED <<inbound, inCursor, buffer, batch, tries, history, overrun, gone,
                 writeFaults, exits>>

\* The process exits, by a crash or an orderly shutdown: nobody closes the bus,
\* so the persister does not flush. The next process subscribes anew.
ExitProcess ==
  /\ exits < MaxExits /\ exits' = exits + 1
  /\ gone' = gone \cup (Range(buffer) \cup Range(batch) \cup (inCursor .. Len(inbound)))
  /\ buffer' = <<>> /\ batch' = <<>> /\ persister' = "receive" /\ tries' = 0
  /\ inCursor' = Subscribe(Len(inbound))
  /\ UNCHANGED <<inbound, history, overrun, writeFaults>>

InboundNext ==
  \/ PublishInbound \/ Receive \/ SkipMissed \/ FlushTick
  \/ StoreBatch \/ StoreFails \/ StoreAgain \/ ExitProcess

\* The task is polled, its timer fires, and a write that does not fail returns.
InboundFair ==
  /\ WF_inboundVars(Receive) /\ WF_inboundVars(SkipMissed) /\ WF_inboundVars(FlushTick)
  /\ WF_inboundVars(StoreBatch) /\ WF_inboundVars(StoreAgain)

-----------------------------------------------------------------------------
Stored(p) == \E i \in DOMAIN history : inbound[history[i]] = inbound[p]

\* The history is a faithful copy of the stream (flush_batch, store_messages):
\* rows follow the order of publication, no id has two rows although writes are
\* repeated after an ambiguous commit and platforms redeliver, and a message the
\* cursor has passed is stored or in memory unless the ring or an exit lost it.
HistoryFollowsStream ==
  /\ \A i, j \in DOMAIN history : i < j =>
       /\ history[i] < history[j]
       /\ inbound[history[i]] # inbound[history[j]]
  /\ \A p \in 1 .. inCursor - 1 :
       Stored(p) \/ p \in Range(buffer) \cup Range(batch) \cup overrun \cup gone

\* Received messages do not stay in memory for ever (the one-second timer of
\* MessagePersister::start, and the writes repeated by it): again and again
\* nothing waits to be stored; HistoryFollowsStream says where it went.
BufferDrains == (Range(buffer) \cup Range(batch) # {}) ~> (Range(buffer) \cup Range(batch) = {})
=============================================================================
