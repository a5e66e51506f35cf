---------------------------- MODULE InboundProofs ----------------------------
(* Proofs about what comes in: the history that the persister writes from the  *)
(* event bus (InboundPersistence) and what the adapters remember of the chats  *)
(* for the answers (InboundMessages).                                          *)
EXTENDS InboundPersistence, InboundMessages, WellFoundedInduction, TLAPS, FiniteSetTheorems

\* Every set of numbers has a least element; induction rests on it.
LEMMA LeastNumber == ASSUME NEW T, T \subseteq Nat, T # {} PROVE \E x \in T : \A y \in T : x <= y
  <1> DEFINE R == OpToRel(<, Nat)
  <1>1. IsWellFoundedOn(R, Nat)
    BY NatLessThanWellFounded
  <1> HIDE DEF R
  <1>2. PICK x \in T : \A y \in T : ~(<<y, x>> \in R)
    BY <1>1, WFMin
  <1>3. \A y \in T : ~(y < x)
    BY <1>2 DEF R, OpToRel
  <1> QED BY <1>3

\* Induction over the numbers, of the set of those that have the property.
LEMMA InductionBySets ==
  ASSUME NEW T, 0 \in T, \A n \in Nat : n \in T => n + 1 \in T
  PROVE  Nat \subseteq T
  <1> SUFFICES ASSUME Nat \ T # {} PROVE FALSE
    OBVIOUS
  <1>1. PICK x \in Nat \ T : \A y \in Nat \ T : x <= y
    BY LeastNumber
  <1>2. x # 0 /\ x - 1 \in Nat /\ x - 1 \in T
    BY <1>1
  <1> QED BY <1>1, <1>2

\* Max of a finite set of positions is in the set and at least every other one.
LEMMA MaxIsGreatest ==
  ASSUME NEW n \in Nat, NEW s \in SUBSET (1 .. n), s # {}
  PROVE  Max(s) \in s /\ \A y \in s : Max(s) >= y
  <1> DEFINE T == {n - x : x \in s}
  <1>1. T \subseteq Nat /\ T # {}
    <2>1. PICK x \in s : TRUE
      OBVIOUS
    <2>2. n - x \in T
      OBVIOUS
    <2>3. \A y \in s : n - y \in Nat
      OBVIOUS
    <2> QED BY <2>2, <2>3
  <1>2. PICK m \in T : \A y \in T : m <= y
    BY <1>1, LeastNumber
  <1>3. PICK x \in s : m = n - x
    BY <1>2
  <1>4. \A y \in s : x >= y
    <2> TAKE y \in s
    <2>1. n - x <= n - y
      BY <1>2, <1>3
    <2> QED BY <2>1
  <1> QED BY <1>4 DEF Max

-----------------------------------------------------------------------------
(* What INSERT OR IGNORE leaves in the table.                                *)

\* One row of a batch: a known id changes nothing.
InsertOne(done, p) == IF \E i \in DOMAIN done : inbound[done[i]] = inbound[p] THEN done ELSE Append(done, p)

\* The body of the recursive function in FoldLeft, over the positions in D.
FoldBody(g, rows, ps, D) == [s \in SUBSET D |-> IF s = {} THEN rows ELSE InsertOne(g[s \ {Max(s)}], ps[Max(s)])]

\* FoldLeft is a recursive function, chosen as the one its body describes.
LEMMA InsertBatchIsFold ==
  ASSUME NEW rows, NEW ps, NEW D, D = DOMAIN ps
  PROVE  InsertBatch(rows, ps) = (CHOOSE g : g = FoldBody(g, rows, ps, D))[D]
  BY DEF InsertBatch, FoldLeft, MapThenFoldSet, FoldBody, InsertOne

\* There is such a function, over any number of positions.
LEMMA FoldExists ==
  ASSUME NEW rows, NEW ps
  PROVE  \A n \in Nat : \E g : g = FoldBody(g, rows, ps, 1 .. n)
  <1> DEFINE T == {n \in Nat : \E g : g = FoldBody(g, rows, ps, 1 .. n)}
  <1>1. 0 \in T
    <2> DEFINE g == [s \in SUBSET (1 .. 0) |-> rows]
    <2>1. g = FoldBody(g, rows, ps, 1 .. 0)
      BY DEF FoldBody
    <2> HIDE DEF g
    <2> QED BY <2>1
  <1>2. ASSUME NEW n \in Nat, n \in T PROVE n + 1 \in T
    <2>1. PICK g : g = FoldBody(g, rows, ps, 1 .. n)
      BY <1>2
    <2> DEFINE h == [s \in SUBSET (1 .. n + 1) |-> IF n + 1 \in s THEN InsertOne(g[s \ {n + 1}], ps[n + 1]) ELSE g[s]]
    <2>2. ASSUME NEW s \in SUBSET (1 .. n + 1)
          PROVE  h[s] = IF s = {} THEN rows ELSE InsertOne(h[s \ {Max(s)}], ps[Max(s)])
      <3>1. CASE n + 1 \in s
        <4>1. Max(s) = n + 1
          <5>1. Max(s) \in s /\ Max(s) >= n + 1
            BY <3>1, MaxIsGreatest, n + 1 \in Nat
          <5>2. Max(s) \in 1 .. n + 1
            BY <5>1
          <5> QED BY <5>1, <5>2
        <4>2. s \ {n + 1} \in SUBSET (1 .. n + 1) /\ n + 1 \notin s \ {n + 1}
          OBVIOUS
        <4>3. h[s \ {n + 1}] = g[s \ {n + 1}]
          BY <4>2
        <4> QED BY <3>1, <4>1, <4>3
      <3>2. CASE n + 1 \notin s
        <4>1. s \in SUBSET (1 .. n)
          BY <3>2
        <4>2. g[s] = IF s = {} THEN rows ELSE InsertOne(g[s \ {Max(s)}], ps[Max(s)])
          BY <2>1, <4>1, Zenon DEF FoldBody
        <4>3. h[s] = g[s]
          BY <3>2
        <4>4. h[s \ {Max(s)}] = g[s \ {Max(s)}]
          BY <3>2
        <4> QED BY <4>2, <4>3, <4>4
      <3> QED BY <3>1, <3>2
    <2>3. h = FoldBody(h, rows, ps, 1 .. n + 1)
      <3> DEFINE f == [s \in SUBSET (1 .. n + 1) |-> IF s = {} THEN rows ELSE InsertOne(h[s \ {Max(s)}], ps[Max(s)])]
      <3>1. \A s \in SUBSET (1 .. n + 1) : h[s] = f[s]
        BY <2>2, Zenon
      <3>2. h = f
        BY <3>1
      <3> QED BY <3>2, Zenon DEF FoldBody
    <2> HIDE DEF h
    <2> QED BY <2>3
  <1> HIDE DEF T
  <1>3. Nat \subseteq T
    BY <1>1, <1>2, InductionBySets
  <1> QED BY <1>3 DEF T

\* The rows of a batch are inserted one after the other, in its order.
Tables(d, rows, ps, n) ==
  /\ d[0] = rows
  /\ \A k \in 0 .. n - 1 : d[k + 1] = InsertOne(d[k], ps[k + 1])
  /\ InsertBatch(rows, ps) = d[n]

\* A batch has such a sequence of tables, from the table before it to the one after.
LEMMA InsertBatchInOrder ==
  ASSUME NEW rows, NEW ps, NEW n \in Nat, DOMAIN ps = 1 .. n
  PROVE  \E d : Tables(d, rows, ps, n)
  <1> DEFINE it == CHOOSE g : g = FoldBody(g, rows, ps, 1 .. n)
  <1>1. it = FoldBody(it, rows, ps, 1 .. n)
    BY FoldExists, Zenon
  <1>2. InsertBatch(rows, ps) = it[1 .. n]
    BY InsertBatchIsFold, Zenon
  <1> HIDE DEF it
  <1> DEFINE d == [k \in 0 .. n |-> it[1 .. k]]
  <1>3. \A s \in SUBSET (1 .. n) : it[s] = IF s = {} THEN rows ELSE InsertOne(it[s \ {Max(s)}], ps[Max(s)])
    BY <1>1, Zenon DEF FoldBody
  <1>4. d[0] = rows
    <2>1. 1 .. 0 = {} /\ {} \in SUBSET (1 .. n) /\ 0 \in 0 .. n
      OBVIOUS
    <2>2. it[{}] = rows
      BY <1>3, <2>1
    <2> QED BY <2>1, <2>2
  <1>5. ASSUME NEW k \in 0 .. n - 1 PROVE d[k + 1] = InsertOne(d[k], ps[k + 1])
    <2>1. 1 .. k + 1 \in SUBSET (1 .. n) /\ k + 1 \in 1 .. k + 1 /\ k + 1 \in Nat
      <3>1. k \in Nat /\ k + 1 <= n
        OBVIOUS
      <3> QED BY <3>1
    <2>2. Max(1 .. k + 1) = k + 1
      <3>1. Max(1 .. k + 1) \in 1 .. k + 1 /\ Max(1 .. k + 1) >= k + 1
        <4> DEFINE s == 1 .. k + 1
        <4>1. s \in SUBSET (1 .. n) /\ k + 1 \in s /\ s # {}
          BY <2>1
        <4> HIDE DEF s
        <4>2. Max(s) \in s /\ \A y \in s : Max(s) >= y
          BY <4>1, MaxIsGreatest
        <4> QED BY <4>1, <4>2 DEF s
      <3> QED BY <3>1
    <2>3. (1 .. k + 1) \ {k + 1} = 1 .. k
      OBVIOUS
    <2>4. it[1 .. k + 1] = InsertOne(it[1 .. k], ps[k + 1])
      BY <1>3, <2>1, <2>2, <2>3, Zenon
    <2> QED BY <2>4
  <1>6. d[n] = it[1 .. n]
    OBVIOUS
  <1> HIDE DEF d
  <1> QED BY <1>2, <1>4, <1>5, <1>6 DEF Tables

-----------------------------------------------------------------------------
(* The message persister (InboundPersistence).                               *)
InboundSpec == InboundInit /\ [][InboundNext]_inboundVars

Ascending(s) == \A i, j \in DOMAIN s : i < j => s[i] < s[j]
Has(rows, p) == \E i \in DOMAIN rows : inbound[rows[i]] = inbound[p]
InOrder(rows) ==
  \A i, j \in DOMAIN rows : i < j => rows[i] < rows[j] /\ inbound[rows[i]] # inbound[rows[j]]

\* A position whose id is not in the table lies behind every row.
HasOrFollows(rows, p) == Has(rows, p) \/ \A i \in DOMAIN rows : rows[i] < p

\* The table after the first k rows of a batch.
InsertedTo(r, rows, ps, k) ==
  /\ r \in Seq(Nat) /\ InOrder(r)
  /\ \A p \in Nat : Has(rows, p) => Has(r, p)
  /\ \A i \in DOMAIN ps : IF i <= k THEN Has(r, ps[i]) ELSE HasOrFollows(r, ps[i])
  /\ \A i \in DOMAIN r : r[i] \in Range(rows) \cup Range(ps)

\* One row keeps the table in order.
LEMMA OneInserted ==
  ASSUME NEW rows, NEW ps \in Seq(Nat), Ascending(ps), NEW r, NEW k \in Nat, k + 1 \in DOMAIN ps, InsertedTo(r, rows, ps, k)
  PROVE  InsertedTo(InsertOne(r, ps[k + 1]), rows, ps, k + 1)
  <1> DEFINE p == ps[k + 1]
  <1>1. r \in Seq(Nat) /\ p \in Nat /\ InOrder(r) /\ \A i \in DOMAIN r : r[i] \in Nat
    BY DEF InsertedTo
  <1>2. CASE Has(r, p)
    <2>1. InsertOne(r, p) = r
      BY <1>2 DEF Has, InsertOne
    <2>2. \A i \in DOMAIN ps : IF i <= k + 1 THEN Has(r, ps[i]) ELSE HasOrFollows(r, ps[i])
      BY <1>2 DEF InsertedTo
    <2> QED BY <2>1, <2>2 DEF InsertedTo
  <1>3. CASE ~Has(r, p)
    <2> DEFINE a == Append(r, p)
    <2>1. InsertOne(r, p) = a
      BY <1>3 DEF Has, InsertOne
    <2>2. a \in Seq(Nat) /\ DOMAIN a = DOMAIN r \cup {Len(r) + 1} /\ a[Len(r) + 1] = p /\ \A i \in DOMAIN r : a[i] = r[i]
      BY SMTT(30), <1>1
    <2>3. \A i \in DOMAIN r : r[i] < p /\ inbound[r[i]] # inbound[p]
      <3>1. HasOrFollows(r, p)
        BY DEF InsertedTo
      <3> QED BY <1>3, <3>1 DEF HasOrFollows, Has
    <2>4. DOMAIN r = 1 .. Len(r) /\ Len(r) \in Nat
      BY <1>1
    <2> HIDE DEF a, p
    <2>5. InOrder(a)
      <3> SUFFICES ASSUME NEW i \in DOMAIN a, NEW j \in DOMAIN a, i < j PROVE a[i] < a[j] /\ inbound[a[i]] # inbound[a[j]]
        BY DEF InOrder
      <3>1. i \in DOMAIN r
        BY <2>2, <2>4
      <3>2. CASE j \in DOMAIN r
        BY <1>1, <2>2, <3>1, <3>2 DEF InOrder
      <3>3. CASE j = Len(r) + 1
        BY <2>2, <2>3, <3>1, <3>3
      <3> QED BY <2>2, <3>2, <3>3
    <2>6. \A q : Has(r, q) => Has(a, q)
      BY <2>2 DEF Has
    <2>7. Has(a, p)
      BY <2>2 DEF Has
    <2>8. ASSUME NEW i \in DOMAIN ps PROVE IF i <= k + 1 THEN Has(a, ps[i]) ELSE HasOrFollows(a, ps[i])
      <3>1. CASE i <= k
        BY <2>6, <3>1 DEF InsertedTo
      <3>2. CASE i = k + 1
        BY <2>7, <3>2 DEF p
      <3>3. CASE i > k + 1
        <4>1. p < ps[i]
          BY <3>3 DEF Ascending, p
        <4>2. HasOrFollows(r, ps[i])
          BY <3>3 DEF InsertedTo
        <4>3. CASE \A j \in DOMAIN r : r[j] < ps[i]
          <5>1. \A j \in DOMAIN a : a[j] < ps[i]
            BY <2>2, <4>1, <4>3
          <5> QED BY <3>3, <5>1 DEF HasOrFollows
        <4> QED BY <2>6, <3>3, <4>2, <4>3 DEF HasOrFollows
      <3> QED BY <3>1, <3>2, <3>3
    <2>9. \A i \in DOMAIN a : a[i] \in Range(rows) \cup Range(ps)
      <3>1. p \in Range(ps)
        BY DEF Range, p
      <3> QED BY <2>2, <3>1 DEF InsertedTo
    <2>10. InsertedTo(a, rows, ps, k + 1)
      BY <2>2, <2>5, <2>6, <2>8, <2>9 DEF InsertedTo
    <2> QED BY <2>1, <2>10 DEF p
  <1> QED BY <1>2, <1>3

\* A batch, however many rows it has.
LEMMA BatchInserted ==
  ASSUME NEW rows \in Seq(Nat), InOrder(rows), NEW ps \in Seq(Nat), Ascending(ps), \A i \in DOMAIN ps : HasOrFollows(rows, ps[i])
  PROVE  InsertedTo(InsertBatch(rows, ps), rows, ps, Len(ps))
  <1>1. PICK n \in Nat : n = Len(ps) /\ DOMAIN ps = 1 .. n
    OBVIOUS
  <1>2. PICK d : Tables(d, rows, ps, n)
    BY <1>1, InsertBatchInOrder, Zenon
  <1> DEFINE T == {k \in Nat : k <= n => InsertedTo(d[k], rows, ps, k)}
  <1>3. 0 \in T
    <2>1. InsertedTo(rows, rows, ps, 0)
      BY <1>1 DEF InsertedTo, Range
    <2> QED BY <1>2, <2>1 DEF Tables
  <1>4. ASSUME NEW k \in Nat, k \in T PROVE k + 1 \in T
    <2> SUFFICES ASSUME k + 1 <= n PROVE InsertedTo(d[k + 1], rows, ps, k + 1)
      OBVIOUS
    <2>1. InsertedTo(d[k], rows, ps, k) /\ k + 1 \in DOMAIN ps /\ k \in 0 .. n - 1
      BY <1>1, <1>4
    <2>2. InsertedTo(InsertOne(d[k], ps[k + 1]), rows, ps, k + 1)
      BY <2>1, OneInserted
    <2> QED BY <1>2, <2>1, <2>2 DEF Tables
  <1> HIDE DEF T
  <1>5. n \in T
    BY <1>1, <1>3, <1>4, InductionBySets
  <1> QED BY <1>1, <1>2, <1>5 DEF T, Tables

\* What waits in memory is in order, behind the cursor and not before the table's
\* rows, but for what an ambiguous commit has stored already; a flush is under way
\* exactly while it has a batch.
MemoryInv ==
  /\ Ascending(batch) /\ Ascending(buffer)
  /\ \A i \in DOMAIN batch, j \in DOMAIN buffer : batch[i] < buffer[j]
  /\ \A i \in DOMAIN batch : batch[i] < inCursor /\ HasOrFollows(history, batch[i])
  /\ \A i \in DOMAIN buffer : buffer[i] < inCursor /\ HasOrFollows(history, buffer[i])
  /\ \A i \in DOMAIN history : history[i] < inCursor
  /\ persister = "receive" => batch = <<>>
  /\ persister # "receive" => tries # 0

\* The inductive invariant: without MemoryInv a batch put back could land before rows
\* that are already in the table.
PersistInv == InboundTypeOK /\ HistoryFollowsStream /\ MemoryInv

\* Positions in ascending order are no more than there are positions.
LEMMA AscendingIsShort ==
  ASSUME NEW n \in Nat, NEW s \in Seq(1 .. n), Ascending(s)
  PROVE  Len(s) <= n
  <1> DEFINE T == {k \in Nat : k + 1 \in DOMAIN s => s[k + 1] >= k + 1}
  <1>1. DOMAIN s = 1 .. Len(s) /\ Len(s) \in Nat /\ \A i \in DOMAIN s : s[i] \in 1 .. n
    OBVIOUS
  <1>2. 0 \in T
    BY <1>1
  <1>3. ASSUME NEW k \in Nat, k \in T PROVE k + 1 \in T
    <2> SUFFICES ASSUME k + 1 + 1 \in DOMAIN s PROVE s[k + 1 + 1] >= k + 1 + 1
      OBVIOUS
    <2>1. k + 1 \in DOMAIN s /\ s[k + 1] >= k + 1
      BY <1>1, <1>3
    <2>2. s[k + 1] < s[k + 1 + 1]
      BY <2>1 DEF Ascending
    <2> QED BY <1>1, <2>1, <2>2
  <1> HIDE DEF T
  <1>4. Nat \subseteq T
    BY <1>2, <1>3, InductionBySets
  <1>5. CASE Len(s) > 0
    <2>1. Len(s) - 1 \in T
      BY <1>1, <1>4, <1>5
    <2>2. s[Len(s) - 1 + 1] >= Len(s) - 1 + 1
      BY <1>1, <1>5, <2>1 DEF T
    <2> QED BY <1>1, <1>5, <2>2
  <1> QED BY <1>1, <1>5

\* The table after the batch, whole, in one transaction.
LEMMA HistoryGrows ==
  ASSUME PersistInv, NEW h, h = InsertBatch(history, batch)
  PROVE  /\ h \in Seq(1 .. Len(inbound)) /\ InOrder(h)
         /\ \A p \in Nat : Has(history, p) => Has(h, p)
         /\ \A i \in DOMAIN batch : Has(h, batch[i])
         /\ \A i \in DOMAIN buffer : HasOrFollows(h, buffer[i])
         /\ \A i \in DOMAIN h : h[i] < inCursor
  <1>1. history \in Seq(Nat) /\ batch \in Seq(Nat) /\ Len(inbound) \in Nat
        /\ history \in Seq(1 .. Len(inbound)) /\ batch \in Seq(1 .. Len(inbound)) /\ buffer \in Seq(1 .. Len(inbound))
    BY DEF PersistInv, InboundTypeOK
  <1>2. InOrder(history) /\ Ascending(batch) /\ \A i \in DOMAIN batch : HasOrFollows(history, batch[i])
    BY DEF PersistInv, MemoryInv, HistoryFollowsStream, InOrder
  <1>3. InsertedTo(h, history, batch, Len(batch))
    BY <1>1, <1>2, BatchInserted
  <1>4. \A i \in DOMAIN h : h[i] \in Range(history) \cup Range(batch)
    BY <1>3 DEF InsertedTo
  <1>5. \A i \in DOMAIN h : h[i] \in 1 .. Len(inbound)
    BY <1>1, <1>4 DEF Range
  <1>6. h \in Seq(1 .. Len(inbound))
    <2>1. h \in Seq(Nat)
      BY <1>3 DEF InsertedTo
    <2> QED BY <1>5, <2>1
  <1>7. \A i \in DOMAIN batch : Has(h, batch[i])
    BY <1>1, <1>3 DEF InsertedTo
  <1>8. \A i \in DOMAIN h : h[i] < inCursor
    BY <1>4 DEF PersistInv, MemoryInv, Range
  <1>9. ASSUME NEW i \in DOMAIN buffer PROVE HasOrFollows(h, buffer[i])
    <2>1. CASE Has(history, buffer[i])
      BY <1>1, <1>3, <2>1 DEF InsertedTo, HasOrFollows
    <2>2. CASE \A j \in DOMAIN history : history[j] < buffer[i]
      <3>1. \A j \in DOMAIN batch : batch[j] < buffer[i]
        BY DEF PersistInv, MemoryInv
      <3>2. \A j \in DOMAIN h : h[j] < buffer[i]
        BY <1>4, <2>2, <3>1 DEF Range
      <3> QED BY <3>2 DEF HasOrFollows
    <2> QED BY <2>1, <2>2 DEF PersistInv, MemoryInv, HasOrFollows
  <1> QED BY <1>3, <1>6, <1>7, <1>8, <1>9 DEF InsertedTo

\* An adapter publishes; positions keep their messages.
LEMMA PublishKeepsPersist == PersistInv /\ PublishInbound => PersistInv'
  <1> SUFFICES ASSUME PersistInv, PublishInbound PROVE PersistInv'
    OBVIOUS
  <1> DEFINE n == Len(inbound)
  <1>1. PICK m \in InboundIds : inbound' = Append(inbound, m)
    BY DEF PublishInbound
  <1>2. /\ n \in Nat /\ inbound \in Seq(InboundIds) /\ n < MaxInbound /\ inCursor \in 1 .. n + 1
        /\ history \in Seq(1 .. n) /\ batch \in Seq(1 .. n) /\ buffer \in Seq(1 .. n)
    BY DEF PublishInbound, PersistInv, InboundTypeOK
  <1>3. Len(inbound') = n + 1 /\ inbound' \in Seq(InboundIds) /\ \A p \in 1 .. n : inbound'[p] = inbound[p]
    BY <1>1, <1>2
  <1>4. UNCHANGED <<inCursor, buffer, batch, persister, tries, history, overrun, gone, writeFaults, exits>>
    BY DEF PublishInbound
  <1>5. /\ \A i \in DOMAIN history : history[i] \in 1 .. n
        /\ \A i \in DOMAIN batch : batch[i] \in 1 .. n
        /\ \A i \in DOMAIN buffer : buffer[i] \in 1 .. n
    BY <1>2
  <1>6. history \in Seq(1 .. n + 1) /\ batch \in Seq(1 .. n + 1) /\ buffer \in Seq(1 .. n + 1)
    BY <1>2
  <1>7. \A p \in 1 .. n : inbound'[p] = inbound[p] /\ (Has(history, p) => Has(history, p)')
    BY <1>3, <1>4, <1>5 DEF Has
  <1>8. InboundTypeOK'
    <2>1. InboundTypeOK
      BY DEF PersistInv
    <2>2. Len(inbound') <= MaxInbound /\ inCursor' \in 1 .. Len(inbound') + 1
      BY <1>2, <1>3, <1>4, PersisterAssumption
    <2>3. overrun' \subseteq 1 .. Len(inbound') /\ gone' \subseteq 1 .. Len(inbound')
      BY <1>2, <1>3, <1>4, <2>1 DEF InboundTypeOK
    <2>4. Len(buffer') < BatchSize + MaxInbound /\ persister' \in {"receive", "write", "pause"} /\ tries' \in 0 .. WriteRetries
          /\ writeFaults' \in 0 .. MaxWriteFaults /\ exits' \in 0 .. MaxExits
      BY <1>4, <2>1 DEF InboundTypeOK
    <2> QED BY <1>3, <1>4, <1>6, <2>2, <2>3, <2>4 DEF InboundTypeOK
  <1>9. HistoryFollowsStream'
    <2>1. \A i, j \in DOMAIN history : i < j => history[i] < history[j] /\ inbound'[history[i]] # inbound'[history[j]]
      BY <1>3, <1>5 DEF PersistInv, HistoryFollowsStream
    <2>2. \A p \in 1 .. inCursor - 1 : Stored(p)' \/ p \in Range(buffer) \cup Range(batch) \cup overrun \cup gone
      <3> SUFFICES ASSUME NEW p \in 1 .. inCursor - 1 PROVE Stored(p)' \/ p \in Range(buffer) \cup Range(batch) \cup overrun \cup gone
        OBVIOUS
      <3>1. p \in 1 .. n
        BY <1>2
      <3>2. Stored(p) \/ p \in Range(buffer) \cup Range(batch) \cup overrun \cup gone
        BY DEF PersistInv, HistoryFollowsStream
      <3> QED BY <1>7, <3>1, <3>2 DEF Stored, Has
    <2> QED BY <1>4, <2>1, <2>2 DEF HistoryFollowsStream
  <1>10. MemoryInv'
    <2>1. \A p \in 1 .. n : HasOrFollows(history, p) => HasOrFollows(history, p)'
      BY <1>4, <1>7 DEF HasOrFollows
    <2> QED BY <1>4, <1>5, <2>1 DEF PersistInv, MemoryInv, Ascending
  <1> QED BY <1>8, <1>9, <1>10 DEF PersistInv

\* What is known stays known while inbound and the table are the same.
LEMMA SameRows ==
  ASSUME inbound' = inbound, history' = history
  PROVE  /\ \A p : (Has(history, p)' <=> Has(history, p)) /\ (HasOrFollows(history, p)' <=> HasOrFollows(history, p))
         /\ \A p : Stored(p)' <=> Stored(p)
         /\ \A p : Stored(p) <=> Has(history, p)
  BY DEF Has, HasOrFollows, Stored

\* The next event is taken into the buffer, or with a full buffer into a batch.
LEMMA ReceiveKeepsPersist == PersistInv /\ Receive => PersistInv'
  <1> SUFFICES ASSUME PersistInv, Receive PROVE PersistInv'
    OBVIOUS
  <1> DEFINE n == Len(inbound)
             b == Append(buffer, inCursor)
  <1>1. /\ n \in Nat /\ n <= MaxInbound /\ inCursor \in 1 .. n
        /\ history \in Seq(1 .. n) /\ batch \in Seq(1 .. n) /\ buffer \in Seq(1 .. n)
        /\ persister = "receive" /\ batch = <<>>
    BY DEF Receive, Ready, PersistInv, InboundTypeOK, MemoryInv
  <1>2. UNCHANGED <<inbound, history, overrun, gone, writeFaults, exits>> /\ inCursor' = inCursor + 1
    BY DEF Receive
  <1>3. /\ b \in Seq(1 .. n) /\ DOMAIN b = DOMAIN buffer \cup {Len(buffer) + 1} /\ Len(b) = Len(buffer) + 1
        /\ b[Len(buffer) + 1] = inCursor /\ \A i \in DOMAIN buffer : b[i] = buffer[i]
    BY <1>1
  <1>4. DOMAIN buffer = 1 .. Len(buffer) /\ Len(buffer) \in Nat /\ \A i \in DOMAIN buffer : buffer[i] \in 1 .. n /\ buffer[i] < inCursor
    BY <1>1 DEF PersistInv, MemoryInv
  <1>5. \/ Len(b) < BatchSize /\ buffer' = b /\ batch' = <<>> /\ persister' = "receive" /\ tries' = tries
        \/ buffer' = <<>> /\ batch' = b /\ persister' = "write" /\ tries' = 1
    BY <1>1 DEF Receive, BeginFlush
  <1> HIDE DEF b
  <1>6. Ascending(b)
    <2> SUFFICES ASSUME NEW i \in DOMAIN b, NEW j \in DOMAIN b, i < j PROVE b[i] < b[j]
      BY DEF Ascending
    <2>1. i \in DOMAIN buffer
      BY <1>3, <1>4
    <2>2. CASE j \in DOMAIN buffer
      BY <1>3, <2>1, <2>2 DEF PersistInv, MemoryInv, Ascending
    <2>3. CASE j = Len(buffer) + 1
      BY <1>3, <1>4, <2>1, <2>3
    <2> QED BY <1>3, <2>2, <2>3
  <1>7. \A i \in DOMAIN b : b[i] < inCursor' /\ HasOrFollows(history, b[i])
    <2>1. HasOrFollows(history, inCursor)
      BY DEF PersistInv, MemoryInv, HasOrFollows
    <2>2. \A i \in DOMAIN buffer : HasOrFollows(history, buffer[i])
      BY DEF PersistInv, MemoryInv
    <2> QED BY <1>1, <1>2, <1>3, <1>4, <2>1, <2>2
  <1>8. Range(b) = Range(buffer) \cup {inCursor}
    BY <1>3 DEF Range
  <1>9. Range(buffer') \cup Range(batch') = Range(buffer) \cup {inCursor}
    BY <1>5, <1>8 DEF Range
  <1>10. \A i \in DOMAIN history : history[i] < inCursor' /\ history[i] \in 1 .. n
    BY <1>1, <1>2 DEF PersistInv, MemoryInv
  <1>11. InboundTypeOK'
    <2>1. Len(b) <= n
      BY <1>1, <1>3, <1>6, AscendingIsShort
    <2>2. InboundTypeOK
      BY DEF PersistInv
    <2>3. /\ buffer' \in Seq(1 .. n) /\ batch' \in Seq(1 .. n)
          /\ persister' \in {"receive", "write", "pause"} /\ tries' \in 0 .. WriteRetries
      <3>1. <<>> \in Seq(1 .. n) /\ 1 \in 0 .. WriteRetries
        BY PersisterAssumption
      <3>2. tries \in 0 .. WriteRetries
        BY <2>2 DEF InboundTypeOK
      <3> QED BY <1>3, <1>5, <3>1, <3>2
    <2>4. Len(buffer') < BatchSize + MaxInbound
      BY <1>1, <1>5, <2>1, PersisterAssumption
    <2>5. inCursor' \in 1 .. n + 1
      BY <1>1, <1>2
    <2> QED BY <1>2, <2>2, <2>3, <2>4, <2>5 DEF InboundTypeOK
  <1>12. HistoryFollowsStream'
    <2>1. \A i, j \in DOMAIN history : i < j => history[i] < history[j] /\ inbound[history[i]] # inbound[history[j]]
      BY DEF PersistInv, HistoryFollowsStream
    <2>2. \A p \in 1 .. inCursor : Stored(p) \/ p \in Range(buffer') \cup Range(batch') \cup overrun \cup gone
      <3> SUFFICES ASSUME NEW p \in 1 .. inCursor PROVE Stored(p) \/ p \in Range(buffer') \cup Range(batch') \cup overrun \cup gone
        OBVIOUS
      <3>1. CASE p \in 1 .. inCursor - 1
        <4>1. Stored(p) \/ p \in Range(buffer) \cup Range(batch) \cup overrun \cup gone
          BY <3>1 DEF PersistInv, HistoryFollowsStream
        <4>2. Range(batch) = {}
          BY <1>1 DEF Range
        <4> QED BY <1>9, <4>1, <4>2
      <3>2. CASE p = inCursor
        BY <1>9, <3>2
      <3> QED BY <1>1, <3>1, <3>2
    <2>3. inCursor' - 1 = inCursor
      BY <1>1, <1>2
    <2> QED BY <1>2, <2>1, <2>2, <2>3, SameRows DEF HistoryFollowsStream
  <1>13. MemoryInv'
    <2>1. \A p : HasOrFollows(history, p)' <=> HasOrFollows(history, p)
      BY <1>2, SameRows
    <2> QED BY <1>1, <1>2, <1>5, <1>6, <1>7, <1>10, <2>1 DEF MemoryInv, Ascending
  <1> QED BY <1>11, <1>12, <1>13 DEF PersistInv

\* The ring has dropped what the cursor had before it.
LEMMA SkipKeepsPersist == PersistInv /\ SkipMissed => PersistInv'
  <1> SUFFICES ASSUME PersistInv, SkipMissed PROVE PersistInv'
    OBVIOUS
  <1> DEFINE n == Len(inbound)
             o == Oldest(n)
  <1>1. /\ n \in Nat /\ inCursor \in 1 .. n + 1 /\ inCursor' = o
        /\ history \in Seq(1 .. n) /\ batch \in Seq(1 .. n) /\ buffer \in Seq(1 .. n)
        /\ overrun \subseteq 1 .. n /\ overrun' = overrun \cup (inCursor .. o - 1)
        /\ UNCHANGED <<inbound, buffer, batch, persister, tries, history, gone, writeFaults, exits>>
    BY DEF SkipMissed, Missed, PersistInv, InboundTypeOK
  <1>2. o \in 1 .. n + 1 /\ inCursor < o
    BY <1>1, RingAssumption DEF SkipMissed, Overrun, Oldest
  <1> HIDE DEF o
  <1>3. InboundTypeOK'
    <2>1. overrun' \subseteq 1 .. n
      BY <1>1, <1>2
    <2> QED BY <1>1, <1>2, <2>1 DEF PersistInv, InboundTypeOK
  <1>4. HistoryFollowsStream'
    <2>1. \A p \in 1 .. o - 1 : Stored(p) \/ p \in Range(buffer) \cup Range(batch) \cup overrun' \cup gone
      <3> TAKE p \in 1 .. o - 1
      <3>1. CASE p \in 1 .. inCursor - 1
        BY <1>1, <3>1 DEF PersistInv, HistoryFollowsStream
      <3>2. CASE p \in inCursor .. o - 1
        BY <1>1, <3>2
      <3> QED BY <1>1, <1>2, <3>1, <3>2
    <2> QED BY <1>1, <2>1, SameRows DEF PersistInv, HistoryFollowsStream
  <1>5. MemoryInv'
    <2>1. \A p \in 1 .. n : p < inCursor => p < inCursor'
      BY <1>1, <1>2
    <2>2. /\ \A i \in DOMAIN history : history[i] \in 1 .. n
          /\ \A i \in DOMAIN batch : batch[i] \in 1 .. n
          /\ \A i \in DOMAIN buffer : buffer[i] \in 1 .. n
      BY <1>1
    <2>3. \A p : HasOrFollows(history, p)' <=> HasOrFollows(history, p)
      BY <1>1, SameRows
    <2> QED BY <1>1, <2>1, <2>2, <2>3 DEF PersistInv, MemoryInv, Ascending
  <1> QED BY <1>3, <1>4, <1>5 DEF PersistInv

\* The timer takes the buffer for a batch.
LEMMA FlushKeepsPersist == PersistInv /\ FlushTick => PersistInv'
  <1> SUFFICES ASSUME PersistInv, FlushTick PROVE PersistInv'
    OBVIOUS
  <1>1. /\ batch = <<>> /\ batch' = buffer /\ buffer' = <<>> /\ persister' = "write" /\ tries' = 1
        /\ UNCHANGED <<inbound, inCursor, history, overrun, gone, writeFaults, exits>>
    BY DEF FlushTick, BeginFlush, PersistInv, MemoryInv
  <1>2. InboundTypeOK'
    <2>1. <<>> \in Seq(1 .. Len(inbound)) /\ Len(<<>>) = 0 /\ 0 < BatchSize + MaxInbound /\ 1 \in 0 .. WriteRetries
      BY PersisterAssumption
    <2> QED BY <1>1, <2>1 DEF PersistInv, InboundTypeOK
  <1>3. HistoryFollowsStream'
    <2>1. Range(buffer') \cup Range(batch') = Range(buffer) \cup Range(batch)
      BY <1>1 DEF Range
    <2> QED BY <1>1, <2>1, SameRows DEF PersistInv, HistoryFollowsStream
  <1>4. MemoryInv'
    <2>1. \A p : HasOrFollows(history, p)' <=> HasOrFollows(history, p)
      BY <1>1, SameRows
    <2> QED BY <1>1, <2>1 DEF PersistInv, MemoryInv, Ascending
  <1> QED BY <1>2, <1>3, <1>4 DEF PersistInv

\* What the table holds after a commit, whatever becomes of the batch: its rows
\* follow the stream and what was known is known still.
LEMMA CommitKeepsHistory ==
  ASSUME PersistInv, inbound' = inbound, history' \in {history, InsertBatch(history, batch)}
  PROVE  /\ history' \in Seq(1 .. Len(inbound))
         /\ InOrder(history)'
         /\ \A p \in Nat : Has(history, p) => Has(history, p)'
         /\ \A p \in Range(batch) \cup Range(buffer) : p < inCursor /\ HasOrFollows(history, p)'
         /\ \A i \in DOMAIN history' : history'[i] < inCursor
  <1>0. \A p \in Range(batch) \cup Range(buffer) : p < inCursor /\ HasOrFollows(history, p)
    BY DEF PersistInv, MemoryInv, Range
  <1>1. CASE history' = history
    <2>1. InOrder(history) /\ (InOrder(history)' <=> InOrder(history))
      BY <1>1 DEF PersistInv, HistoryFollowsStream, InOrder
    <2>2. \A p : (Has(history, p)' <=> Has(history, p)) /\ (HasOrFollows(history, p)' <=> HasOrFollows(history, p))
      BY <1>1, SameRows
    <2>3. history \in Seq(1 .. Len(inbound)) /\ \A i \in DOMAIN history : history[i] < inCursor
      BY DEF PersistInv, InboundTypeOK, MemoryInv
    <2> QED BY <1>0, <1>1, <2>1, <2>2, <2>3
  <1>2. CASE history' = InsertBatch(history, batch)
    <2> DEFINE h == InsertBatch(history, batch)
    <2>1. /\ h \in Seq(1 .. Len(inbound)) /\ InOrder(h)
          /\ \A p \in Nat : Has(history, p) => Has(h, p)
          /\ \A i \in DOMAIN batch : Has(h, batch[i])
          /\ \A i \in DOMAIN buffer : HasOrFollows(h, buffer[i])
          /\ \A i \in DOMAIN h : h[i] < inCursor
      BY HistoryGrows
    <2>2. history' = h
      BY <1>2
    <2> HIDE DEF h
    <2>3. InOrder(history)' <=> InOrder(h)
      BY <2>2 DEF InOrder
    <2>4. \A p : (Has(history, p)' <=> Has(h, p)) /\ (HasOrFollows(history, p)' <=> HasOrFollows(h, p))
      BY <2>2 DEF Has, HasOrFollows
    <2>5. \A p \in Range(batch) \cup Range(buffer) : HasOrFollows(h, p)
      BY <2>1 DEF HasOrFollows, Range
    <2> QED BY <1>0, <2>1, <2>2, <2>3, <2>4, <2>5
  <1> QED BY <1>1, <1>2

\* What the cursor has passed, after a commit.
LEMMA CommitKeepsAccount ==
  ASSUME PersistInv, inbound' = inbound, history' \in {history, InsertBatch(history, batch)},
         UNCHANGED <<inCursor, overrun, gone>>,
         \A p \in Range(buffer) \cup Range(batch) : Stored(p)' \/ p \in Range(buffer') \cup Range(batch')
  PROVE  HistoryFollowsStream'
  <1>1. \A i, j \in DOMAIN history' : i < j => history'[i] < history'[j] /\ inbound'[history'[i]] # inbound'[history'[j]]
    BY CommitKeepsHistory DEF InOrder
  <1>2. inCursor \in Nat
    BY DEF PersistInv, InboundTypeOK
  <1>3. \A p \in 1 .. inCursor - 1 : Stored(p)' \/ p \in (Range(buffer) \cup Range(batch) \cup overrun \cup gone)'
    <2> TAKE p \in 1 .. inCursor - 1
    <2>1. Stored(p) \/ p \in Range(buffer) \cup Range(batch) \cup overrun \cup gone
      BY DEF PersistInv, HistoryFollowsStream
    <2>2. Stored(p) => Stored(p)'
      <3>1. p \in Nat
        BY <1>2
      <3>2. Has(history, p) => Has(history, p)'
        BY <3>1, CommitKeepsHistory
      <3> QED BY <3>2 DEF Stored, Has
    <2> QED BY <2>1, <2>2
  <1> QED BY <1>1, <1>3 DEF HistoryFollowsStream

\* A batch that is stored is in the table, and what was in memory is still accounted for.
LEMMA StoreKeepsPersist == PersistInv /\ StoreBatch => PersistInv'
  <1> SUFFICES ASSUME PersistInv, StoreBatch PROVE PersistInv'
    OBVIOUS
  <1>1. /\ history' = InsertBatch(history, batch) /\ batch' = <<>> /\ persister' = "receive" /\ tries' = 0
        /\ UNCHANGED <<inbound, inCursor, buffer, overrun, gone, writeFaults, exits>>
    BY DEF StoreBatch
  <1>2. InboundTypeOK'
    <2>1. <<>> \in Seq(1 .. Len(inbound)) /\ 0 \in 0 .. WriteRetries
      BY PersisterAssumption
    <2>2. history' \in Seq(1 .. Len(inbound))
      BY <1>1, CommitKeepsHistory
    <2> QED BY <1>1, <2>1, <2>2 DEF PersistInv, InboundTypeOK
  <1>3. HistoryFollowsStream'
    <2>1. \A p \in Range(batch) : Stored(p)'
      <3>1. \A i \in DOMAIN batch : Has(history', batch[i])
        BY <1>1, HistoryGrows
      <3>2. \A p \in Range(batch) : Has(history', p)
        BY <3>1 DEF Range
      <3> QED BY <1>1, <3>2 DEF Stored, Has
    <2>2. \A p \in Range(buffer) \cup Range(batch) : Stored(p)' \/ p \in Range(buffer') \cup Range(batch')
      BY <1>1, <2>1 DEF Range
    <2> QED BY <1>1, <2>2, CommitKeepsAccount
  <1>4. MemoryInv'
    <2>1. \A i \in DOMAIN buffer : buffer[i] \in Range(buffer)
      BY DEF Range
    <2>2. /\ \A i \in DOMAIN buffer : buffer[i] < inCursor /\ HasOrFollows(history, buffer[i])'
          /\ \A i \in DOMAIN history' : history'[i] < inCursor
      BY <1>1, <2>1, CommitKeepsHistory DEF HasOrFollows, Has
    <2> QED BY <1>1, <2>2 DEF PersistInv, MemoryInv, Ascending
  <1> QED BY <1>2, <1>3, <1>4 DEF PersistInv

\* A write that is reported to have failed, with its commit or without.
LEMMA FailureKeepsPersist == PersistInv /\ StoreFails => PersistInv'
  <1> SUFFICES ASSUME PersistInv, StoreFails PROVE PersistInv'
    OBVIOUS
  <1> DEFINE n == Len(inbound)
  <1>1. /\ history' \in {history, InsertBatch(history, batch)} /\ writeFaults' \in 0 .. MaxWriteFaults
        /\ UNCHANGED <<inbound, inCursor, overrun, gone, exits>>
    BY PersisterAssumption DEF StoreFails, PersistInv, InboundTypeOK
  <1>2. history' \in Seq(1 .. n) /\ n \in Nat /\ n <= MaxInbound /\ batch \in Seq(1 .. n) /\ buffer \in Seq(1 .. n) /\ tries \in 1 .. WriteRetries
    <2>1. tries # 0
      BY DEF StoreFails, PersistInv, MemoryInv
    <2> QED BY <1>1, <2>1, CommitKeepsHistory, PersisterAssumption DEF PersistInv, InboundTypeOK
  <1>3. CASE tries < WriteRetries /\ tries' = tries + 1 /\ persister' = "pause" /\ UNCHANGED <<buffer, batch>>
    <2>1. InboundTypeOK'
      BY <1>1, <1>2, <1>3, PersisterAssumption DEF PersistInv, InboundTypeOK
    <2>2. HistoryFollowsStream'
      BY <1>1, <1>3, CommitKeepsAccount
    <2>3. MemoryInv'
      <3>1. tries' # 0
        BY <1>2, <1>3
      <3>2. /\ \A i \in DOMAIN buffer : buffer[i] < inCursor /\ HasOrFollows(history, buffer[i])'
            /\ \A i \in DOMAIN batch : batch[i] < inCursor /\ HasOrFollows(history, batch[i])'
        BY <1>1, <1>3, CommitKeepsHistory DEF Range, HasOrFollows, Has
      <3>3. \A i \in DOMAIN history' : history'[i] < inCursor
        BY <1>1, CommitKeepsHistory
      <3> QED BY <1>1, <1>3, <3>1, <3>2, <3>3 DEF PersistInv, MemoryInv, Ascending
    <2> QED BY <2>1, <2>2, <2>3 DEF PersistInv
  <1>4. CASE tries = WriteRetries /\ buffer' = batch \o buffer /\ batch' = <<>> /\ persister' = "receive" /\ tries' = 0
    <2> DEFINE b == batch \o buffer
    <2>1. /\ b \in Seq(1 .. n) /\ DOMAIN b = 1 .. Len(batch) + Len(buffer)
          /\ \A i \in DOMAIN b : b[i] = IF i <= Len(batch) THEN batch[i] ELSE buffer[i - Len(batch)]
      BY <1>2
    <2>2. /\ DOMAIN batch = 1 .. Len(batch) /\ Len(batch) \in Nat /\ DOMAIN buffer = 1 .. Len(buffer) /\ Len(buffer) \in Nat
      BY <1>2
    <2> HIDE DEF b
    <2>3. \A i \in DOMAIN b : \/ i \in DOMAIN batch /\ b[i] = batch[i]
                              \/ i - Len(batch) \in DOMAIN buffer /\ b[i] = buffer[i - Len(batch)] /\ i > Len(batch)
      BY <2>1, <2>2
    <2>4. Ascending(b)
      <3> SUFFICES ASSUME NEW i \in DOMAIN b, NEW j \in DOMAIN b, i < j PROVE b[i] < b[j]
        BY DEF Ascending
      <3>1. CASE i \in DOMAIN batch /\ b[i] = batch[i] /\ j \in DOMAIN batch /\ b[j] = batch[j]
        BY <3>1 DEF PersistInv, MemoryInv, Ascending
      <3>2. CASE i \in DOMAIN batch /\ b[i] = batch[i] /\ j - Len(batch) \in DOMAIN buffer /\ b[j] = buffer[j - Len(batch)]
        BY <3>2 DEF PersistInv, MemoryInv
      <3>3. CASE i - Len(batch) \in DOMAIN buffer /\ b[i] = buffer[i - Len(batch)] /\ j - Len(batch) \in DOMAIN buffer /\ b[j] = buffer[j - Len(batch)]
        <4>1. i - Len(batch) < j - Len(batch)
          BY <2>1, <2>2
        <4> QED BY <3>3, <4>1 DEF PersistInv, MemoryInv, Ascending
      <3>4. ~(i > Len(batch) /\ j \in DOMAIN batch)
        BY <2>1, <2>2
      <3> QED BY <2>3, <3>1, <3>2, <3>3, <3>4
    <2>5. Range(batch) \cup Range(buffer) \subseteq Range(b)
      <3>1. \A i \in DOMAIN batch : i \in DOMAIN b /\ b[i] = batch[i]
        BY <2>1, <2>2
      <3>2. \A i \in DOMAIN buffer : i + Len(batch) \in DOMAIN b /\ b[i + Len(batch)] = buffer[i]
        BY SMTT(30), <2>1, <2>2
      <3> QED BY <3>1, <3>2 DEF Range
    <2>6. Len(b) <= n
      BY <1>2, <2>1, <2>4, AscendingIsShort
    <2>7. buffer' = b /\ batch' = <<>>
      BY <1>4 DEF b
    <2>8. InboundTypeOK'
      <3>1. <<>> \in Seq(1 .. n) /\ Len(b) < BatchSize + MaxInbound /\ 0 \in 0 .. WriteRetries
        BY <1>2, <2>1, <2>6, PersisterAssumption
      <3> QED BY <1>1, <1>2, <1>4, <2>1, <2>7, <3>1 DEF PersistInv, InboundTypeOK
    <2>9. HistoryFollowsStream'
      <3>1. \A p \in Range(buffer) \cup Range(batch) : p \in Range(buffer')
        BY <2>5, <2>7
      <3> QED BY <1>1, <3>1, CommitKeepsAccount
    <2>10. MemoryInv'
      <3>1. \A i \in DOMAIN b : b[i] \in Range(batch) \cup Range(buffer)
        BY <2>3 DEF Range
      <3>2. \A p \in Range(batch) \cup Range(buffer) : p < inCursor /\ HasOrFollows(history, p)'
        BY <1>1, CommitKeepsHistory
      <3>3. \A i \in DOMAIN buffer' : buffer'[i] < inCursor /\ HasOrFollows(history, buffer[i])'
        BY <1>1, <2>7, <3>1, <3>2 DEF HasOrFollows, Has
      <3>4. \A i \in DOMAIN history' : history'[i] < inCursor
        BY <1>1, CommitKeepsHistory
      <3> QED BY <1>1, <1>4, <2>4, <2>7, <3>3, <3>4 DEF MemoryInv, Ascending
    <2> QED BY <2>8, <2>9, <2>10 DEF PersistInv
  <1> QED BY <1>3, <1>4 DEF StoreFails

\* A further attempt touches neither table nor memory.
LEMMA AgainKeepsPersist == PersistInv /\ StoreAgain => PersistInv'
  <1> SUFFICES ASSUME PersistInv, StoreAgain PROVE PersistInv'
    OBVIOUS
  <1>1. /\ persister = "pause" /\ persister' = "write"
        /\ UNCHANGED <<inbound, inCursor, buffer, batch, tries, history, overrun, gone, writeFaults, exits>>
    BY DEF StoreAgain
  <1>2. InboundTypeOK' /\ HistoryFollowsStream'
    BY <1>1, SameRows DEF PersistInv, InboundTypeOK, HistoryFollowsStream
  <1>3. MemoryInv'
    BY <1>1, SameRows DEF PersistInv, MemoryInv, Ascending
  <1> QED BY <1>2, <1>3 DEF PersistInv

\* The process exits; what was in memory or unread is on the account of the exit.
LEMMA ExitKeepsPersist == PersistInv /\ ExitProcess => PersistInv'
  <1> SUFFICES ASSUME PersistInv, ExitProcess PROVE PersistInv'
    OBVIOUS
  <1> DEFINE n == Len(inbound)
  <1>1. /\ gone' = gone \cup (Range(buffer) \cup Range(batch) \cup (inCursor .. n))
        /\ buffer' = <<>> /\ batch' = <<>> /\ persister' = "receive" /\ tries' = 0 /\ inCursor' = n + 1
        /\ UNCHANGED <<inbound, history, overrun, writeFaults>> /\ exits' \in 0 .. MaxExits
    BY PersisterAssumption DEF ExitProcess, Subscribe, PersistInv, InboundTypeOK
  <1>2. /\ n \in Nat /\ inCursor \in 1 .. n + 1 /\ gone \subseteq 1 .. n
        /\ history \in Seq(1 .. n) /\ batch \in Seq(1 .. n) /\ buffer \in Seq(1 .. n)
    BY DEF PersistInv, InboundTypeOK
  <1>3. InboundTypeOK'
    <2>1. gone' \subseteq 1 .. n
      <3>1. Range(buffer) \subseteq 1 .. n /\ Range(batch) \subseteq 1 .. n
        BY <1>2 DEF Range
      <3>2. inCursor .. n \subseteq 1 .. n
        BY <1>2
      <3> QED BY <1>1, <1>2, <3>1, <3>2, Zenon
    <2>2. <<>> \in Seq(1 .. n) /\ Len(<<>>) < BatchSize + MaxInbound /\ 0 \in 0 .. WriteRetries /\ n + 1 \in 1 .. n + 1
      BY <1>2, PersisterAssumption
    <2> QED BY <1>1, <2>1, <2>2 DEF PersistInv, InboundTypeOK
  <1>4. HistoryFollowsStream'
    <2>1. \A p \in 1 .. n : Stored(p) \/ p \in overrun \cup gone'
      <3> TAKE p \in 1 .. n
      <3>1. CASE p \in 1 .. inCursor - 1
        BY <1>1, <3>1 DEF PersistInv, HistoryFollowsStream
      <3>2. CASE p \in inCursor .. n
        BY <1>1, <3>2
      <3> QED BY <1>2, <3>1, <3>2
    <2>2. inCursor' - 1 = n
      BY <1>1, <1>2
    <2> QED BY <1>1, <2>1, <2>2, SameRows DEF PersistInv, HistoryFollowsStream
  <1>5. MemoryInv'
    <2>1. \A i \in DOMAIN history : history[i] < n + 1
      BY <1>2
    <2> QED BY <1>1, <2>1 DEF MemoryInv, Ascending
  <1> QED BY <1>3, <1>4, <1>5 DEF PersistInv

\* It holds at the start and every step of the bus, the task and the exit keeps it.
LEMMA PersistInvInductive == InboundSpec => []PersistInv
  <1>1. InboundInit => PersistInv
    <2> SUFFICES ASSUME InboundInit PROVE PersistInv
      OBVIOUS
    <2>1. <<>> \in Seq(InboundIds) /\ <<>> \in Seq(1 .. 0) /\ Len(<<>>) = 0 /\ DOMAIN <<>> = {}
      OBVIOUS
    <2>2. InboundTypeOK
      BY <2>1, PersisterAssumption DEF InboundInit, InboundTypeOK, Subscribe
    <2>3. HistoryFollowsStream /\ MemoryInv
      BY <2>1 DEF InboundInit, HistoryFollowsStream, MemoryInv, Ascending, Subscribe
    <2> QED BY <2>2, <2>3 DEF PersistInv
  <1>2. PersistInv /\ [InboundNext]_inboundVars => PersistInv'
    <2> SUFFICES ASSUME PersistInv, [InboundNext]_inboundVars PROVE PersistInv'
      OBVIOUS
    <2>1. CASE UNCHANGED inboundVars
      <3>1. InboundTypeOK' /\ HistoryFollowsStream'
        BY <2>1, SameRows DEF inboundVars, PersistInv, InboundTypeOK, HistoryFollowsStream
      <3> QED BY <2>1, <3>1, SameRows DEF inboundVars, PersistInv, MemoryInv, Ascending
    <2>2. CASE InboundNext
      BY <2>2, PublishKeepsPersist, ReceiveKeepsPersist, SkipKeepsPersist, FlushKeepsPersist,
         StoreKeepsPersist, FailureKeepsPersist, AgainKeepsPersist, ExitKeepsPersist DEF InboundNext
    <2> QED BY <2>1, <2>2
  <1> QED BY <1>1, <1>2, PTL DEF InboundSpec

\* The history follows the stream: rows in the order of publication, no id twice
\* although batches are repeated after ambiguous commits, and nothing the cursor has
\* passed is lost but to the ring or an exit (message_persister.rs, store_messages):
\* HistoryFollowsStream for every size of ring and batch and any number of messages.
THEOREM StreamIsFollowed == InboundSpec => [](InboundTypeOK /\ HistoryFollowsStream)
  BY PersistInvInductive, PTL DEF PersistInv

\* Min of a set of numbers is in it.
LEMMA MinIsLeast == ASSUME NEW T, T \subseteq Nat, T # {} PROVE Min(T) \in T /\ \A y \in T : Min(T) <= y
  BY LeastNumber DEF Min

-----------------------------------------------------------------------------
(* What the adapters remember of the chats (InboundMessages).                *)
MessagesSpec == InboundMessagesInit /\ [][InboundMessagesNext]_imVars

\* The places in the history that nothing under the same key follows.
Newest(h) == {i \in DOMAIN h : \A j \in DOMAIN h : j > i => h[j].key # h[i].key}

\* The entries of r are those of h at the places p, in order, each the newest of its
\* key, and no newest place is missing but those before a full memory.
Follows(r, h, p) ==
  /\ \A i \in DOMAIN r : r[i] = h[p[i]] /\ p[i] \in Newest(h)
  /\ \A i, j \in DOMAIN r : i < j => p[i] < p[j]
  /\ \A k \in Newest(h) : (\E i \in DOMAIN r : p[i] = k) \/ (Len(r) = RouteLimit /\ k < p[1])

\* A bounded memory r remembers the history h: it holds the newest entries of the
\* keys heard last, in the order they were heard.
Remembers(r, h) == Len(r) <= RouteLimit /\ \E p \in [DOMAIN r -> DOMAIN h] : Follows(r, h, p)

\* Without takes out the entry of a key.
LEMMA WithoutRemoves ==
  ASSUME NEW E, NEW r \in Seq(E), NEW key
  PROVE  \/ (\A i \in DOMAIN r : r[i].key # key) /\ Without(r, key) = r
         \/ \E q \in DOMAIN r : r[q].key = key /\ Without(r, key) = RemoveAt(r, q)
  <1> DEFINE I == {i \in 1 .. Len(r) : r[i].key = key}
  <1>1. DOMAIN r = 1 .. Len(r) /\ I \subseteq Nat
    OBVIOUS
  <1>2. CASE I = {}
    <2>1. ~\E i \in 1 .. Len(r) : r[i].key = key
      BY <1>2
    <2>2. Without(r, key) = r
      BY <2>1 DEF Without, RemoveFirstMatch
    <2> QED BY <1>1, <2>1, <2>2
  <1>3. CASE I # {}
    <2> DEFINE q == Min(I)
    <2>1. q \in I
      BY <1>1, <1>3, MinIsLeast
    <2>2. Without(r, key) = RemoveAt(r, q)
      BY <1>3 DEF Without, RemoveFirstMatch, SelectInSeq
    <2> QED BY <1>1, <2>1, <2>2
  <1> QED BY <1>2, <1>3

\* The sequence without its element at q.
LEMMA RemovedAt ==
  ASSUME NEW E, NEW r \in Seq(E), NEW q \in DOMAIN r
  PROVE  /\ RemoveAt(r, q) \in Seq(E) /\ Len(RemoveAt(r, q)) = Len(r) - 1
         /\ \A i \in 1 .. Len(r) - 1 : RemoveAt(r, q)[i] = IF i < q THEN r[i] ELSE r[i + 1]
  <1> DEFINE u == SubSeq(r, 1, q - 1)
             v == SubSeq(r, q + 1, Len(r))
  <1>1. Len(r) \in Nat /\ q \in 1 .. Len(r) /\ \A i \in 1 .. Len(r) : r[i] \in E
    OBVIOUS
  <1>2. u \in Seq(E) /\ Len(u) = q - 1 /\ \A i \in 1 .. q - 1 : u[i] = r[i]
    BY <1>1
  <1>3. v \in Seq(E) /\ Len(v) = Len(r) - q /\ \A i \in 1 .. Len(r) - q : v[i] = r[q + i]
    BY <1>1
  <1>4. RemoveAt(r, q) = u \o v
    BY DEF RemoveAt
  <1> HIDE DEF u, v
  <1>5. u \o v \in Seq(E) /\ Len(u \o v) = Len(r) - 1
    BY <1>1, <1>2, <1>3
  <1>6. ASSUME NEW i \in 1 .. Len(r) - 1 PROVE (u \o v)[i] = IF i < q THEN r[i] ELSE r[i + 1]
    <2>1. CASE i < q
      BY <1>1, <1>2, <1>3, <2>1
    <2>2. CASE i >= q
      <3>1. (u \o v)[i] = v[i - Len(u)] /\ i - Len(u) = i - q + 1 /\ i - q + 1 \in 1 .. Len(r) - q
        BY <1>1, <1>2, <1>3, <2>2
      <3>2. v[i - q + 1] = r[q + (i - q + 1)] /\ q + (i - q + 1) = i + 1
        BY <1>1, <1>3, <3>1, SMTT(30)
      <3> QED BY <1>1, <2>2, <3>1, <3>2
    <2>3. i < q \/ i >= q
      BY <1>1
    <2> QED BY <2>1, <2>2, <2>3
  <1> QED BY <1>4, <1>5, <1>6

\* The newest places after one more entry.
LEMMA NewestAppended ==
  ASSUME NEW E, NEW h \in Seq(E), NEW e \in E
  PROVE  LET g == Append(h, e)
             n == Len(h) + 1
         IN  /\ g \in Seq(E) /\ DOMAIN g = 1 .. n /\ g[n] = e /\ \A i \in DOMAIN h : g[i] = h[i] /\ i < n
             /\ n \in Newest(g)
             /\ \A k \in DOMAIN h : k \in Newest(g) <=> k \in Newest(h) /\ h[k].key # e.key
  <1> DEFINE g == Append(h, e)
             n == Len(h) + 1
  <1>1. /\ g \in Seq(E) /\ DOMAIN g = 1 .. n /\ g[n] = e /\ \A i \in DOMAIN h : g[i] = h[i] /\ i < n
        /\ DOMAIN h = 1 .. Len(h) /\ Len(h) \in Nat
    OBVIOUS
  <1> HIDE DEF g
  <1>2. n \in Newest(g)
    BY <1>1 DEF Newest
  <1>3. ASSUME NEW k \in DOMAIN h PROVE k \in Newest(g) <=> k \in Newest(h) /\ h[k].key # e.key
    <2>1. k \in Newest(g) => k \in Newest(h) /\ h[k].key # e.key
      <3> SUFFICES ASSUME k \in Newest(g) PROVE k \in Newest(h) /\ h[k].key # e.key
        OBVIOUS
      <3>1. \A j \in DOMAIN g : j > k => g[j].key # g[k].key
        BY DEF Newest
      <3>2. \A j \in DOMAIN h : j \in DOMAIN g
        BY <1>1
      <3>3. n > k /\ n \in DOMAIN g
        BY <1>1
      <3> QED BY <1>1, <3>1, <3>2, <3>3 DEF Newest
    <2>2. k \in Newest(h) /\ h[k].key # e.key => k \in Newest(g)
      <3> SUFFICES ASSUME k \in Newest(h), h[k].key # e.key, NEW j \in DOMAIN g, j > k PROVE k \in DOMAIN g /\ g[j].key # g[k].key
        BY <1>1 DEF Newest
      <3>1. j \in DOMAIN h \/ j = n
        BY <1>1
      <3> QED BY <1>1, <3>1 DEF Newest
    <2> QED BY <2>1, <2>2
  <1> QED BY <1>1, <1>2, <1>3 DEF g

\* The memory follows the history when an entry moves to the end or the first leaves.
LEMMA RoutedFollows ==
  ASSUME NEW E, NEW r \in Seq(E), NEW h \in Seq(E), NEW e \in E, Remembers(r, h)
  PROVE  Routed(r, e) \in Seq(E) /\ Remembers(Routed(r, e), Append(h, e))
  <1> DEFINE g == Append(h, e)
             n == Len(h) + 1
  <1>0. RouteLimit \in Nat /\ RouteLimit >= 1
    BY ImAssumption
  <1>1. /\ g \in Seq(E) /\ DOMAIN g = 1 .. n /\ g[n] = e /\ \A i \in DOMAIN h : g[i] = h[i] /\ i < n
        /\ n \in Newest(g) /\ \A k \in DOMAIN h : k \in Newest(g) <=> k \in Newest(h) /\ h[k].key # e.key
    BY NewestAppended
  <1>2. DOMAIN h = 1 .. Len(h) /\ Len(h) \in Nat /\ DOMAIN r = 1 .. Len(r) /\ Len(r) \in Nat /\ Len(r) <= RouteLimit
    BY DEF Remembers
  <1>a. Len(r) \in Nat /\ Len(r) <= RouteLimit
    BY DEF Remembers
  <1>3. PICK p \in [DOMAIN r -> DOMAIN h] : Follows(r, h, p)
    BY DEF Remembers
  <1>4. /\ \A i \in DOMAIN r : r[i] = h[p[i]] /\ p[i] \in Newest(h) /\ p[i] \in DOMAIN h
        /\ \A i, j \in DOMAIN r : i < j => p[i] < p[j]
        /\ \A k \in Newest(h) : (\E i \in DOMAIN r : p[i] = k) \/ (Len(r) = RouteLimit /\ k < p[1])
    BY <1>3 DEF Follows
  <1>5. \A i, j \in DOMAIN r : i # j => r[i].key # r[j].key
    <2>1. ASSUME NEW i \in DOMAIN r, NEW j \in DOMAIN r, i < j PROVE r[i].key # r[j].key
      BY <1>4, <2>1 DEF Newest
    <2>2. \A i, j \in DOMAIN r : i # j => i < j \/ j < i
      BY <1>2
    <2> QED BY <2>1, <2>2
  <1> HIDE DEF g, n
  <1>6. \A k \in Newest(g) : k = n \/ (k \in DOMAIN h /\ k \in Newest(h) /\ h[k].key # e.key)
    BY <1>1, <1>2 DEF Newest, n
  <1>7. CASE (\A i \in DOMAIN r : r[i].key # e.key) /\ Without(r, e.key) = r
    <2> DEFINE a == Append(r, e)
               x == [i \in 1 .. Len(r) + 1 |-> IF i = Len(r) + 1 THEN n ELSE p[i]]
    <2>1. a \in Seq(E) /\ Len(a) = Len(r) + 1 /\ a[Len(r) + 1] = e /\ \A i \in DOMAIN r : a[i] = r[i]
      BY <1>2
    <2>2. Routed(r, e) = LastOf(a, RouteLimit)
      BY <1>7 DEF Routed
    <2>3. /\ x[Len(r) + 1] = n /\ \A i \in DOMAIN r : x[i] = p[i]
      BY <1>2
    <2> HIDE DEF a, x
    <2>4. \A i \in 1 .. Len(r) + 1 : a[i] = g[x[i]] /\ x[i] \in Newest(g) /\ x[i] \in DOMAIN g
      <3> TAKE i \in 1 .. Len(r) + 1
      <3>1. CASE i \in DOMAIN r
        BY <1>1, <1>4, <1>7, <2>1, <2>3, <3>1 DEF Newest
      <3>2. CASE i = Len(r) + 1
        BY <1>1, <2>1, <2>3, <3>2 DEF Newest
      <3> QED BY <1>2, <3>1, <3>2
    <2>5. \A i, j \in 1 .. Len(r) + 1 : i < j => x[i] < x[j]
      <3> SUFFICES ASSUME NEW i \in 1 .. Len(r) + 1, NEW j \in 1 .. Len(r) + 1, i < j PROVE x[i] < x[j]
        OBVIOUS
      <3>1. i \in DOMAIN r
        BY <1>2
      <3>2. CASE j \in DOMAIN r
        BY <1>4, <2>3, <3>1, <3>2
      <3>3. CASE j = Len(r) + 1
        BY <1>1, <1>4, <2>3, <3>1, <3>3
      <3>4. j \in DOMAIN r \/ j = Len(r) + 1
        BY <1>2
      <3> QED BY <3>2, <3>3, <3>4
    <2>6. \A k \in Newest(g) : (\E i \in 1 .. Len(r) + 1 : x[i] = k) \/ (Len(r) = RouteLimit /\ k < p[1])
      <3> TAKE k \in Newest(g)
      <3>1. CASE k = n
        BY <1>2, <2>3, <3>1
      <3>2. CASE k \in Newest(h)
        BY <1>2, <1>4, <2>3, <3>2
      <3> QED BY <1>6, <3>1, <3>2
    <2>7. CASE Len(r) < RouteLimit
      <3>1. LastOf(a, RouteLimit) = a
        <4>1. ~(Len(a) > RouteLimit) /\ a = SubSeq(a, 1, Len(a))
          BY <1>0, <1>2, <2>1, <2>7
        <4> QED BY <4>1 DEF LastOf
      <3>2. DOMAIN a = 1 .. Len(r) + 1 /\ Len(a) <= RouteLimit
        BY <1>0, <1>2, <2>1, <2>7
      <3>3. x \in [DOMAIN a -> DOMAIN g]
        BY <2>4, <3>2 DEF x
      <3>4. Follows(a, g, x)
        <4>1. \A k \in Newest(g) : \E i \in DOMAIN a : x[i] = k
          <5>1. Len(r) # RouteLimit
            BY <1>0, <1>a, <2>7
          <5> QED BY <2>6, <3>2, <5>1
        <4> QED BY <2>4, <2>5, <3>2, <4>1 DEF Follows
      <3>5. Remembers(a, g)
        BY <3>2, <3>3, <3>4 DEF Remembers
      <3> QED BY <2>1, <2>2, <3>1, <3>5 DEF g
    <2>8. CASE Len(r) = RouteLimit
      <3> DEFINE b == SubSeq(a, 2, RouteLimit + 1)
                 y == [i \in 1 .. RouteLimit |-> x[i + 1]]
      <3>1. LastOf(a, RouteLimit) = b
        <4>1. Len(a) > RouteLimit /\ Len(a) - RouteLimit + 1 = 2 /\ Len(a) = RouteLimit + 1
          BY <1>0, <1>2, <2>1, <2>8
        <4> QED BY <4>1 DEF LastOf
      <3>2. b \in Seq(E) /\ Len(b) = RouteLimit /\ \A i \in 1 .. RouteLimit : b[i] = a[i + 1]
        BY <1>0, <2>1, <2>8
      <3>3. \A i \in 1 .. RouteLimit : y[i] = x[i + 1] /\ i + 1 \in 1 .. Len(r) + 1
        BY <1>0, <2>8
      <3>a. DOMAIN b = 1 .. RouteLimit
        BY <1>0, <3>2
      <3>b. y \in [1 .. RouteLimit -> DOMAIN g]
        BY <2>4, <3>3
      <3> HIDE DEF b, y
      <3>4. \A i \in 1 .. RouteLimit : b[i] = g[y[i]] /\ y[i] \in Newest(g)
        BY <2>4, <3>2, <3>3
      <3>5. \A i, j \in 1 .. RouteLimit : i < j => y[i] < y[j]
        <4> SUFFICES ASSUME NEW i \in 1 .. RouteLimit, NEW j \in 1 .. RouteLimit, i < j PROVE y[i] < y[j]
          OBVIOUS
        <4>1. i + 1 < j + 1
          BY <1>0
        <4> QED BY <2>5, <3>3, <4>1
      <3>6. \A k \in Newest(g) : (\E i \in 1 .. RouteLimit : y[i] = k) \/ k < y[1]
        <4> TAKE k \in Newest(g)
        <4>1. y[1] = x[2] /\ x[1] < x[2] /\ x[1] = p[1] /\ x[2] \in Nat /\ x[1] \in Nat
          <5>1. 1 \in 1 .. RouteLimit /\ 1 \in 1 .. Len(r) + 1 /\ 2 \in 1 .. Len(r) + 1 /\ 1 \in DOMAIN r
            BY <1>0, <1>2, <2>8
          <5>2. \A i \in 1 .. Len(r) + 1 : x[i] \in Nat
            BY <1>1, <2>4 DEF n
          <5> QED BY <2>3, <2>5, <3>3, <5>1, <5>2
        <4>2. CASE \E i \in 1 .. Len(r) + 1 : x[i] = k
          <5>1. PICK i \in 1 .. Len(r) + 1 : x[i] = k
            BY <4>2
          <5>2. CASE i = 1
            BY <4>1, <5>1, <5>2
          <5>3. CASE i # 1
            <6>1. i - 1 \in 1 .. RouteLimit /\ (i - 1) + 1 = i
              BY <1>0, <2>8, <5>3
            <6> QED BY <3>3, <5>1, <6>1
          <5> QED BY <5>2, <5>3
        <4>3. CASE k < p[1]
          <5>1. k \in Nat
            BY <1>1 DEF Newest
          <5> QED BY <4>1, <4>3, <5>1
        <4> QED BY <2>6, <4>2, <4>3
      <3>7. Follows(b, g, y)
        BY <3>2, <3>a, <3>4, <3>5, <3>6 DEF Follows
      <3>8. Remembers(b, g)
        <4>1. Len(b) <= RouteLimit /\ y \in [DOMAIN b -> DOMAIN g]
          BY <1>0, <3>2, <3>a, <3>b
        <4> QED BY <3>7, <4>1 DEF Remembers
      <3> QED BY <2>2, <3>1, <3>2, <3>8 DEF g
    <2>9. Len(r) < RouteLimit \/ Len(r) = RouteLimit
      BY <1>0, <1>a
    <2> QED BY <2>7, <2>8, <2>9
  <1>8. CASE \E q \in DOMAIN r : r[q].key = e.key /\ Without(r, e.key) = RemoveAt(r, q)
    <2>1. PICK q \in DOMAIN r : r[q].key = e.key /\ Without(r, e.key) = RemoveAt(r, q)
      BY <1>8
    <2>r. Len(r) \in Nat /\ q \in 1 .. Len(r) /\ q \in Nat /\ Len(r) >= 1 /\ Len(r) <= RouteLimit
      BY <1>2
    <2>0. Len(r) \in Nat /\ q \in 1 .. Len(r) /\ q \in Nat /\ Len(r) >= 1 /\ DOMAIN r = 1 .. Len(r) /\ Len(r) <= RouteLimit
      BY <1>2
    <2> DEFINE w == RemoveAt(r, q)
               a == Append(w, e)
               at(i) == IF i < q THEN i ELSE i + 1
               x == [i \in 1 .. Len(r) |-> IF i = Len(r) THEN n ELSE p[at(i)]]
    <2>2. w \in Seq(E) /\ Len(w) = Len(r) - 1 /\ \A i \in 1 .. Len(r) - 1 : w[i] = r[at(i)]
      BY RemovedAt
    <2> HIDE DEF w
    <2>3. /\ a \in Seq(E) /\ Len(a) = Len(r) /\ DOMAIN a = 1 .. Len(r) /\ a[Len(r)] = e
          /\ \A i \in 1 .. Len(r) - 1 : a[i] = r[at(i)]
      <3>1. a \in Seq(E) /\ Len(a) = Len(w) + 1 /\ a[Len(w) + 1] = e /\ \A i \in 1 .. Len(w) : a[i] = w[i]
        BY <2>2
      <3>2. Len(w) \in Nat /\ Len(w) + 1 = Len(r) /\ 1 .. Len(w) = 1 .. Len(r) - 1
        BY <2>0, <2>2
      <3>3. DOMAIN a = 1 .. Len(a)
        BY <3>1
      <3> QED BY <2>2, <3>1, <3>2, <3>3
    <2>4. Routed(r, e) = a
      <3>1. Len(a) <= RouteLimit /\ ~(Len(a) > RouteLimit)
        BY <1>0, <1>a, <2>3
      <3>3. SubSeq(a, 1, Len(a)) = a
        BY <2>3
      <3>2. LastOf(a, RouteLimit) = a
        BY <3>1, <3>3 DEF LastOf
      <3> QED BY <2>1, <3>2 DEF Routed, w
    <2>5. \A i \in 1 .. Len(r) - 1 : at(i) \in DOMAIN r /\ at(i) # q /\ x[i] = p[at(i)]
      <3> TAKE i \in 1 .. Len(r) - 1
      <3>1. at(i) \in 1 .. Len(r) /\ at(i) # q /\ i \in 1 .. Len(r) /\ i # Len(r)
        BY <2>r
      <3>2. x[i] = p[at(i)]
        BY <3>1
      <3> QED BY <1>2, <3>1, <3>2
    <2>6. x[Len(r)] = n /\ Len(r) >= 1
      BY <2>0
    <2>7. \A i, j \in 1 .. Len(r) - 1 : i < j => at(i) < at(j)
      BY <2>0
    <2>8. \A i \in DOMAIN r : i # q => \E m \in 1 .. Len(r) - 1 : at(m) = i
      <3> SUFFICES ASSUME NEW i \in DOMAIN r, i # q PROVE \E m \in 1 .. Len(r) - 1 : at(m) = i
        OBVIOUS
      <3>1. CASE i < q
        BY <2>0, <3>1
      <3>2. CASE i > q
        <4>1. i - 1 \in 1 .. Len(r) - 1 /\ at(i - 1) = i
          BY <2>0, <3>2
        <4> QED BY <4>1
      <3> QED BY <2>0, <3>1, <3>2
    <2>a. \A i \in 1 .. Len(r) : i \in 1 .. Len(r) - 1 \/ i = Len(r)
      BY <2>r
    <2>b. \A i \in 1 .. Len(r) - 1 : i >= 1 /\ at(i) >= 1
      BY <2>r
    <2> HIDE DEF x, at, a
    <2>9. \A i \in 1 .. Len(r) : a[i] = g[x[i]] /\ x[i] \in Newest(g) /\ x[i] \in DOMAIN g
      <3> TAKE i \in 1 .. Len(r)
      <3>1. CASE i \in 1 .. Len(r) - 1
        <4>1. r[at(i)].key # e.key
          BY <1>5, <2>1, <2>5, <3>1
        <4> QED BY <1>1, <1>4, <2>3, <2>5, <3>1, <4>1, SMTT(30) DEF Newest
      <3>2. CASE i = Len(r)
        BY <1>1, <2>3, <2>6, <3>2 DEF Newest
      <3> QED BY <2>a, <3>1, <3>2
    <2>10. \A i, j \in 1 .. Len(r) : i < j => x[i] < x[j]
      <3> SUFFICES ASSUME NEW i \in 1 .. Len(r), NEW j \in 1 .. Len(r), i < j PROVE x[i] < x[j]
        OBVIOUS
      <3>1. i \in 1 .. Len(r) - 1
        BY <1>2
      <3>2. CASE j \in 1 .. Len(r) - 1
        BY <1>4, <2>5, <2>7, <3>1, <3>2
      <3>3. CASE j = Len(r)
        BY <1>1, <1>4, <2>5, <2>6, <3>1, <3>3
      <3> QED BY <2>a, <3>2, <3>3
    <2>11. \A k \in Newest(g) : (\E i \in 1 .. Len(r) : x[i] = k) \/ (Len(r) = RouteLimit /\ k < x[1])
      <3> TAKE k \in Newest(g)
      <3>1. CASE k = n
        BY <1>2, <2>6, <3>1
      <3>2. CASE k \in Newest(h) /\ h[k].key # e.key /\ k \in DOMAIN h
        <4>1. CASE \E i \in DOMAIN r : p[i] = k
          <5>1. PICK i \in DOMAIN r : p[i] = k
            BY <4>1
          <5>2. i # q
            BY <1>4, <2>1, <3>2, <5>1
          <5>3. PICK m \in 1 .. Len(r) - 1 : at(m) = i
            BY <2>8, <5>2
          <5> QED BY <1>2, <2>5, <5>1, <5>3
        <4>2. CASE Len(r) = RouteLimit /\ k < p[1]
          <5>1. k < x[1]
            <6>1. CASE Len(r) = 1
              BY <1>1, <2>6, <3>2, <6>1
            <6>2. CASE Len(r) > 1
              <7>1. 1 \in 1 .. Len(r) - 1 /\ x[1] = p[at(1)] /\ at(1) \in DOMAIN r /\ at(1) >= 1 /\ 1 \in DOMAIN r
                BY <1>2, <2>5, <2>b, <6>2
              <7>2. p[1] = p[at(1)] \/ p[1] < p[at(1)]
                BY <1>2, <1>4, <7>1
              <7>3. p[1] \in Nat /\ p[at(1)] \in Nat /\ k \in Nat
                BY <1>2, <1>4, <3>2, <7>1
              <7> QED BY <4>2, <7>1, <7>2, <7>3
            <6> QED BY <1>2, <2>6, <6>1, <6>2
          <5> QED BY <4>2, <5>1
        <4> QED BY <1>4, <3>2, <4>1, <4>2
      <3> QED BY <1>6, <3>1, <3>2
    <2>12. Follows(a, g, x)
      BY <2>3, <2>9, <2>10, <2>11 DEF Follows
    <2>13. x \in [DOMAIN a -> DOMAIN g]
      BY <2>3, <2>9 DEF x
    <2> QED BY <1>2, <2>3, <2>4, <2>12, <2>13 DEF Remembers, g
  <1> QED BY <1>7, <1>8, WithoutRemoves

\* A memory that follows the history holds what was heard of last.
LEMMA RemembersLast ==
  ASSUME NEW E, NEW r \in Seq(E), NEW h \in Seq(E), Remembers(r, h)
  PROVE  Range(r) = LastHeard(h, RouteLimit)
  <1> DEFINE L == RouteLimit
             After(k) == {j \in Newest(h) : j > k}
  <1>0. L \in Nat /\ L >= 1
    BY ImAssumption
  <1>1. LastHeard(h, L) = {h[i] : i \in {k \in Newest(h) : Cardinality(After(k)) < L}}
    BY DEF LastHeard, Newest
  <1>2. PICK p \in [DOMAIN r -> DOMAIN h] : Follows(r, h, p)
    BY DEF Remembers
  <1>3. /\ \A i \in DOMAIN r : r[i] = h[p[i]] /\ p[i] \in Newest(h) /\ p[i] \in Nat
        /\ \A i, j \in DOMAIN r : i < j => p[i] < p[j]
        /\ \A k \in Newest(h) : (\E i \in DOMAIN r : p[i] = k) \/ (Len(r) = L /\ k < p[1])
    BY <1>2 DEF Follows, Newest
  <1>4. Len(r) \in Nat /\ Len(r) <= L
    BY DEF Remembers
  <1>5. DOMAIN r = 1 .. Len(r)
    OBVIOUS
  <1>6. \A k \in Newest(h) : k \in Nat
    BY DEF Newest
  <1>7. \A k : IsFiniteSet(After(k))
    <2>1. DOMAIN h = 1 .. Len(h) /\ Len(h) \in Nat
      OBVIOUS
    <2>2. IsFiniteSet(DOMAIN h)
      BY <2>1, FS_Interval
    <2>3. \A k : After(k) \in SUBSET DOMAIN h
      BY DEF Newest
    <2> QED BY <2>2, <2>3, FS_Subset
  <1> HIDE DEF After
  <1>8. ASSUME NEW i \in DOMAIN r PROVE Cardinality(After(p[i])) < L
    <2> DEFINE n == Len(r) - i
               f == [m \in 1 .. n |-> p[m + i]]
    <2>1. n \in Nat /\ n < L /\ i \in Nat /\ i >= 1
      <3>1. i \in 1 .. Len(r)
        BY <1>5
      <3> QED BY <1>0, <1>4, <3>1
    <2>2. \A m \in 1 .. n : m + i \in DOMAIN r /\ m + i > i
      BY <1>4, <1>5, <2>1
    <2>3. f \in [1 .. n -> After(p[i])]
      BY <1>3, <2>2 DEF After
    <2>4. ASSUME NEW k \in After(p[i]) PROVE \E m \in 1 .. n : f[m] = k
      <3>1. k \in Newest(h) /\ k > p[i] /\ k \in Nat
        BY <1>6 DEF After
      <3>2. 1 \in DOMAIN r /\ (p[1] = p[i] \/ p[1] < p[i])
        <4>1. 1 \in DOMAIN r /\ (1 = i \/ 1 < i)
          BY <1>5, <2>1
        <4> QED BY <1>3, <4>1
      <3>3. ~(k < p[1])
        <4>1. p[1] \in Nat /\ p[i] \in Nat
          BY <1>3, <3>2
        <4> QED BY <3>1, <3>2, <4>1
      <3>4. PICK m \in DOMAIN r : p[m] = k
        BY <1>3, <3>1, <3>3
      <3>5. m > i
        <4>1. m \in Nat /\ i \in Nat /\ (m = i \/ m < i \/ m > i)
          BY <1>5
        <4>2. p[m] \in Nat /\ p[i] \in Nat
          BY <1>3
        <4> QED BY <1>3, <3>1, <3>4, <4>1, <4>2
      <3>6. m - i \in 1 .. n /\ (m - i) + i = m
        <4>1. m \in 1 .. Len(r)
          BY <1>5
        <4> QED BY <1>4, <2>1, <3>5, <4>1
      <3> QED BY <3>4, <3>6
    <2> HIDE DEF f, n
    <2>5. f \in Surjection(1 .. n, After(p[i]))
      BY <2>3, <2>4 DEF Surjection
    <2>6. ExistsSurjection(1 .. n, After(p[i]))
      BY <2>5 DEF ExistsSurjection
    <2>7. Cardinality(After(p[i])) <= n
      BY <2>1, <2>6, FS_SurjCardinalityBound
    <2>8. Cardinality(After(p[i])) \in Nat
      BY <1>7, FS_CardinalityType
    <2> QED BY <1>0, <2>1, <2>7, <2>8
  <1>9. ASSUME NEW k \in Newest(h), Cardinality(After(k)) < L PROVE \E i \in DOMAIN r : p[i] = k
    <2> SUFFICES ASSUME Len(r) = L, k < p[1] PROVE FALSE
      BY <1>3
    <2>1. DOMAIN r = 1 .. L /\ 1 \in DOMAIN r
      BY <1>0, <1>5
    <2>2. p \in [1 .. L -> After(k)]
      <3>1. \A i \in 1 .. L : p[i] > k /\ p[i] \in Newest(h)
        <4> TAKE i \in 1 .. L
        <4>1. i \in DOMAIN r /\ (i = 1 \/ 1 < i)
          BY <1>0, <2>1
        <4>2. p[i] = p[1] \/ p[1] < p[i]
          BY <1>3, <2>1, <4>1
        <4>3. p[i] \in Nat /\ p[1] \in Nat /\ k \in Nat /\ p[i] \in Newest(h)
          BY <1>3, <1>6, <2>1, <4>1
        <4> QED BY <4>2, <4>3
      <3> QED BY <2>1, <3>1 DEF After
    <2>3. p \in Injection(1 .. L, After(k))
      <3>1. \A i, j \in 1 .. L : i # j => p[i] # p[j]
        <4> SUFFICES ASSUME NEW i \in 1 .. L, NEW j \in 1 .. L, i # j PROVE p[i] # p[j]
          OBVIOUS
        <4>1. i < j \/ j < i
          BY <1>0
        <4>2. p[i] < p[j] \/ p[j] < p[i]
          BY <1>3, <2>1, <4>1
        <4>3. p[i] \in Nat /\ p[j] \in Nat
          BY <1>3, <2>1
        <4> QED BY <4>2, <4>3
      <3> QED BY <2>2, <3>1 DEF Injection, IsInjective
    <2>4. Cardinality(1 .. L) <= Cardinality(After(k))
      BY <1>7, <2>3, FS_Injection
    <2>5. Cardinality(1 .. L) = L
      BY <1>0, FS_Interval
    <2>6. Cardinality(After(k)) \in Nat
      BY <1>7, FS_CardinalityType
    <2> QED BY <1>0, <1>9, <2>4, <2>5, <2>6
  <1>10. Range(r) \subseteq LastHeard(h, L)
    <2>1. \A i \in DOMAIN r : r[i] = h[p[i]] /\ p[i] \in {k \in Newest(h) : Cardinality(After(k)) < L}
      BY <1>3, <1>8
    <2> QED BY <1>1, <2>1 DEF Range
  <1>11. LastHeard(h, L) \subseteq Range(r)
    <2> SUFFICES ASSUME NEW k \in Newest(h), Cardinality(After(k)) < L PROVE h[k] \in Range(r)
      BY <1>1
    <2>1. PICK i \in DOMAIN r : p[i] = k
      BY <1>9
    <2> QED BY <1>3, <2>1 DEF Range
  <1> QED BY <1>10, <1>11

Chats == [key : ImUsers \cup {"channel", "group"}, type : {"dm", "group", "channel"}]
Tokens == [key : ImUsers, token : 1 .. MaxImMessages]
Kinds == {"none", "callback", "chats", "source", "info", "unknown", "text", "location"} \cup Range(PartKind) \cup Range(FeishuKinds)

\* The routes of QQ and the context tokens of WeChat remember what was heard.
MessagesInv ==
  /\ InboundMessagesTypeOK
  /\ imChats \in Seq(Chats) /\ imPeers \in Seq(Tokens)
  /\ Remembers(imRoutes, imChats) /\ Remembers(imTokens, imPeers)

\* What the tables of parts and Feishu types name are kinds of events.
LEMMA KnownKinds ==
  /\ {"image", "file", "video", "audio", "sticker", "animation"} \subseteq Kinds
  /\ \A p \in DOMAIN PartKind : PartKind[p] \in Kinds
  /\ \A p \in DOMAIN FeishuKinds : FeishuKinds[p] \in Kinds
  <1>1. \A p \in DOMAIN PartKind : PartKind[p] \in Kinds
    BY DEF Kinds, Range
  <1>2. \A p \in DOMAIN FeishuKinds : FeishuKinds[p] \in Kinds
    BY DEF Kinds, Range
  <1>3. /\ {"photo", "document", "video", "audio", "sticker", "animation"} \subseteq DOMAIN PartKind
        /\ PartKind["photo"] = "image" /\ PartKind["document"] = "file" /\ PartKind["video"] = "video"
        /\ PartKind["audio"] = "audio" /\ PartKind["sticker"] = "sticker" /\ PartKind["animation"] = "animation"
    BY DEF PartKind
  <1> QED BY <1>1, <1>2, <1>3

\* The first part that is there, in the order they are looked for.
LEMMA TelegramKindKnown == ASSUME NEW parts PROVE TelegramKind(parts) \in Kinds
  <1> DEFINE I == {i \in 1 .. Len(TelegramParts) : TelegramParts[i] \in parts}
             first == IF I # {} THEN Min(I) ELSE 0
  <1>1. TelegramKind(parts) = IF first = 0 THEN "text" ELSE PartKind[TelegramParts[first]]
    BY DEF TelegramKind, SelectInSeq
  <1>2. CASE I = {}
    BY <1>1, <1>2 DEF Kinds
  <1>3. CASE I # {}
    <2>1. I \subseteq Nat /\ \A i \in I : i # 0
      OBVIOUS
    <2>2. first \in I
      BY <1>3, <2>1, MinIsLeast
    <2>3. Len(TelegramParts) = 8
      BY DEF TelegramParts
    <2>4. \A i \in 1 .. 8 : TelegramParts[i] \in DOMAIN PartKind
      BY DEF TelegramParts, PartKind
    <2>5. first \in 1 .. 8
      BY <2>2, <2>3
    <2> QED BY <1>1, <2>1, <2>2, <2>4, <2>5, KnownKinds
  <1> QED BY <1>2, <1>3

\* A QQ message is remembered as it is published.
LEMMA QqPublishKeeps ==
  ASSUME MessagesInv, UNCHANGED imClock, NEW kind \in Kinds, NEW chat \in ImUsers \cup {"channel", "group"},
         NEW chatType \in {"dm", "group", "channel"}, NEW sender, NEW role,
         QqPublish(kind, chat, chatType, sender, role)
  PROVE  MessagesInv'
  <1> DEFINE e == [key |-> chat, type |-> chatType]
  <1>1. e \in Chats
    BY DEF Chats
  <1>2. /\ imRoutes' = Routed(imRoutes, e) /\ imChats' = Append(imChats, e)
        /\ imOut'.kind = kind /\ UNCHANGED <<imTokens, imNames, imPeers, imLookups, imClock>>
    BY DEF QqPublish, Gives, Published
  <1> HIDE DEF e
  <1>3. imRoutes \in Seq(Chats) /\ imChats \in Seq(Chats) /\ Remembers(imRoutes, imChats)
    BY DEF MessagesInv, InboundMessagesTypeOK, Chats
  <1>4. imRoutes' \in Seq(Chats) /\ Remembers(imRoutes', imChats')
    BY <1>1, <1>2, <1>3, RoutedFollows
  <1>5. imChats' \in Seq(Chats)
    BY <1>1, <1>2, <1>3
  <1>6. InboundMessagesTypeOK'
    BY <1>2, <1>4 DEF MessagesInv, InboundMessagesTypeOK, Chats, Kinds
  <1> QED BY <1>2, <1>4, <1>5, <1>6 DEF MessagesInv

\* A WeChat message is remembered with its token.
LEMMA WechatKeeps ==
  ASSUME MessagesInv, UNCHANGED imClock, ImWechat
  PROVE  MessagesInv'
  <1>1. PICK from \in ImUsers, group \in BOOLEAN, item \in {0, 1, 3} :
          /\ Room
          /\ imTokens' = Routed(imTokens, [key |-> from, token |-> Len(imPeers) + 1])
          /\ imPeers' = Append(imPeers, [key |-> from, token |-> Len(imPeers) + 1])
          /\ Gives(WechatMessage([from |-> from, group |-> group, item |-> item]))
          /\ UNCHANGED <<imRoutes, imNames, imChats, imLookups>>
    BY DEF ImWechat
  <1> DEFINE e == [key |-> from, token |-> Len(imPeers) + 1]
  <1>2. e \in Tokens
    <2>1. Len(imPeers) \in Nat /\ Len(imChats) \in Nat /\ imLookups \in Nat
      BY ImAssumption DEF MessagesInv, InboundMessagesTypeOK
    <2>2. Len(imPeers) + 1 \in 1 .. MaxImMessages
      BY <1>1, <2>1, ImAssumption DEF Room
    <2> QED BY <2>2 DEF Tokens
  <1>3. imTokens' = Routed(imTokens, e) /\ imPeers' = Append(imPeers, e) /\ UNCHANGED <<imRoutes, imNames, imChats, imLookups, imClock>>
    BY <1>1
  <1>4. imOut'.kind \in Kinds
    <2>1. imOut'.kind = IF item \in DOMAIN WechatKinds THEN WechatKinds[item] ELSE "unknown"
      BY <1>1 DEF Gives, WechatMessage, Published
    <2>2. item \in DOMAIN WechatKinds => WechatKinds[item] \in {"text", "image", "audio", "file", "video"}
      BY DEF WechatKinds
    <2> QED BY <2>1, <2>2, KnownKinds DEF Kinds
  <1> HIDE DEF e
  <1>5. imTokens \in Seq(Tokens) /\ imPeers \in Seq(Tokens) /\ Remembers(imTokens, imPeers)
    BY DEF MessagesInv, InboundMessagesTypeOK, Tokens
  <1>6. imTokens' \in Seq(Tokens) /\ Remembers(imTokens', imPeers')
    BY <1>2, <1>3, <1>5, RoutedFollows
  <1>7. imPeers' \in Seq(Tokens)
    BY <1>2, <1>3, <1>5
  <1>8. InboundMessagesTypeOK'
    BY <1>3, <1>4, <1>6 DEF MessagesInv, InboundMessagesTypeOK, Tokens, Kinds
  <1> QED BY <1>3, <1>6, <1>7, <1>8 DEF MessagesInv

\* A name from the cache or from the platform.
LEMMA EnrichKeeps ==
  ASSUME MessagesInv, UNCHANGED <<imRoutes, imTokens, imClock, imChats, imPeers>>, QqEnrich \/ FeishuEnrich
  PROVE  MessagesInv'
  <1>1. PICK p \in {"qq", "feishu"}, k \in ImUsers, t \in {NegativeTtl, NameTtl} : FromCache(p, k) \/ Asks(p, k, NameTtl, t)
    BY DEF QqEnrich, FeishuEnrich
  <1>2. imOut'.kind \in Kinds
    <2>1. imOut'.kind = "source"
      BY <1>1 DEF FromCache, Asks, Gives
    <2> QED BY <2>1 DEF Kinds
  <1>n. DOMAIN imNames' = {"qq", "feishu"}
    <2>1. imNames' = imNames \/ \E c : imNames' = [imNames EXCEPT ![p] = c]
      <3>1. CASE FromCache(p, k)
        BY <3>1 DEF FromCache
      <3>2. CASE Asks(p, k, NameTtl, t)
        <4>1. PICK found \in BOOLEAN : Names(p, k, found, IF found THEN NameTtl ELSE t)
          BY <3>2 DEF Asks
        <4> QED BY <4>1 DEF Names
      <3> QED BY <1>1, <3>1, <3>2
    <2> QED BY <2>1 DEF MessagesInv, InboundMessagesTypeOK
  <1>3. imLookups' \in 0 .. MaxImMessages
    <2>1. Len(imPeers) \in Nat /\ Len(imChats) \in Nat /\ imLookups \in 0 .. MaxImMessages
      BY DEF MessagesInv, InboundMessagesTypeOK
    <2>2. imLookups' = imLookups \/ (imLookups' = imLookups + 1 /\ Room)
      BY <1>1 DEF FromCache, Asks
    <2> QED BY <2>1, <2>2, ImAssumption DEF Room
  <1>4. InboundMessagesTypeOK'
    BY <1>2, <1>n, <1>3 DEF MessagesInv, InboundMessagesTypeOK, Kinds
  <1> QED BY <1>4 DEF MessagesInv

\* What answers or publishes and changes nothing of the memory.
LEMMA OthersKeep ==
  ASSUME MessagesInv, UNCHANGED <<imRoutes, imTokens, imNames, imClock, imChats, imPeers, imLookups>>,
         ImTelegram \/ ImCallback \/ ImDiscord \/ DiscordChats \/ DiscordEnrich \/ ImFeishu \/ QqChats \/ QqChatInfo
  PROVE  MessagesInv'
  <1>1. CASE ImTelegram
    BY <1>1, TelegramKindKnown DEF ImTelegram, TelegramMessage, Gives, Published, MessagesInv, InboundMessagesTypeOK, Kinds
  <1>2. CASE ImCallback \/ DiscordChats \/ DiscordEnrich \/ QqChats \/ QqChatInfo
    <2>1. imOut'.kind \in Kinds
      BY <1>2 DEF ImCallback, DiscordChats, DiscordEnrich, QqChats, QqChatInfo, Gives, Kinds
    <2> QED BY <2>1 DEF MessagesInv, InboundMessagesTypeOK, Kinds
  <1>3. CASE ImDiscord
    <2>1. imOut'.kind \in Kinds
      <3>1. PICK attachments \in {<<>>, <<"pdf", "image">>} : imOut'.kind = DiscordKind(attachments)
        BY <1>3 DEF ImDiscord, Gives, Published
      <3>2. DiscordKind(attachments) \in {"text", "image", "video", "audio", "file"}
        BY <3>1 DEF DiscordKind, ContentKind
      <3> QED BY <3>1, <3>2, KnownKinds DEF Kinds
    <2> QED BY <2>1 DEF MessagesInv, InboundMessagesTypeOK, Kinds
  <1>4. CASE ImFeishu
    <2>1. imOut'.kind \in Kinds
      <3>1. PICK t \in {"media", "post", "location"} : imOut'.kind = FeishuKind(t)
        BY <1>4 DEF ImFeishu, Gives, Published
      <3>2. FeishuKind(t) \in Kinds
        BY KnownKinds DEF FeishuKind, Kinds
      <3> QED BY <3>1, <3>2
    <2> QED BY <2>1 DEF MessagesInv, InboundMessagesTypeOK, Kinds
  <1> QED BY <1>1, <1>2, <1>3, <1>4

\* It holds at the start and every message of every platform keeps it.
LEMMA MessagesInvInductive == MessagesSpec => []MessagesInv
  <1>1. InboundMessagesInit => MessagesInv
    <2> SUFFICES ASSUME InboundMessagesInit PROVE MessagesInv
      OBVIOUS
    <2>1. InboundMessagesTypeOK
      BY ImAssumption DEF InboundMessagesInit, InboundMessagesTypeOK, Nothing
    <2>2. Remembers(<<>>, <<>>)
      <3>1. Len(<<>>) = 0 /\ DOMAIN <<>> = {} /\ Len(<<>>) <= RouteLimit
        BY ImAssumption
      <3>2. Newest(<<>>) = {}
        BY <3>1 DEF Newest
      <3> DEFINE p == [i \in DOMAIN <<>> |-> i]
      <3>3. p \in [DOMAIN <<>> -> DOMAIN <<>>]
        OBVIOUS
      <3> HIDE DEF p
      <3>4. Follows(<<>>, <<>>, p)
        BY <3>1, <3>2, Zenon DEF Follows
      <3> QED BY <3>1, <3>3, <3>4, Zenon DEF Remembers
    <2> QED BY <2>1, <2>2 DEF InboundMessagesInit, MessagesInv
  <1>2. MessagesInv /\ [InboundMessagesNext]_imVars => MessagesInv'
    <2> SUFFICES ASSUME MessagesInv, [InboundMessagesNext]_imVars PROVE MessagesInv'
      OBVIOUS
    <2>1. CASE UNCHANGED imVars
      BY <2>1 DEF imVars, MessagesInv, InboundMessagesTypeOK
    <2>2. CASE QqChannel /\ UNCHANGED imClock
      <3>1. PICK a \in {<<>>, <<"image">>} : QqPublish(QqKind(0, a, FALSE), "channel", "channel", "someone", "none")
        BY <2>2 DEF QqChannel
      <3>2. QqKind(0, a, FALSE) \in {"text", "image", "video", "audio", "file"}
        BY DEF QqKind, ContentKind
      <3> QED BY <2>2, <3>1, <3>2, KnownKinds, QqPublishKeeps DEF Kinds
    <2>3. CASE QqGroupMention /\ UNCHANGED imClock
      <3>1. PICK role \in {"owner", "none"} : QqPublish(QqKind(0, <<>>, FALSE), "group", "group", "member", MemberRole(role))
        BY <2>3 DEF QqGroupMention
      <3>2. QqKind(0, <<>>, FALSE) \in Kinds
        BY DEF QqKind, Kinds
      <3> QED BY <2>3, <3>1, <3>2, QqPublishKeeps
    <2>4. CASE QqGroup /\ UNCHANGED imClock
      <3>1. PICK type \in {0, 7}, image \in BOOLEAN : QqPublish(QqKind(type, <<>>, image), "group", "group", "member", MemberRole("none"))
        BY <2>4 DEF QqGroup
      <3>2. QqKind(type, <<>>, image) \in Kinds
        BY KnownKinds DEF QqKind, Kinds
      <3> QED BY <2>4, <3>1, <3>2, QqPublishKeeps
    <2>5. CASE QqPrivate /\ UNCHANGED imClock
      <3>1. PICK u \in ImUsers : QqPublish(QqKind(0, <<>>, FALSE), u, "dm", u, "none")
        BY <2>5 DEF QqPrivate
      <3>2. QqKind(0, <<>>, FALSE) \in Kinds
        BY DEF QqKind, Kinds
      <3> QED BY <2>5, <3>1, <3>2, QqPublishKeeps
    <2>6. CASE ImTick
      BY <2>6, ImAssumption DEF ImTick, MessagesInv, InboundMessagesTypeOK
    <2> QED BY <2>1, <2>2, <2>3, <2>4, <2>5, <2>6, WechatKeeps, EnrichKeeps, OthersKeep DEF InboundMessagesNext
  <1> QED BY <1>1, <1>2, PTL DEF MessagesSpec

\* The chats and senders heard of last are exactly those an answer can be routed to
\* (ChatTypeCache::insert, insert_context_token): RecentChatsCanBeAnswered for every
\* limit and any number of chats and messages.
THEOREM RecentChatsAreKept == MessagesSpec => [](InboundMessagesTypeOK /\ RecentChatsCanBeAnswered)
  <1>1. MessagesInv => RecentChatsCanBeAnswered
    <2> SUFFICES ASSUME MessagesInv PROVE RecentChatsCanBeAnswered
      OBVIOUS
    <2>1. imRoutes \in Seq(Chats) /\ imChats \in Seq(Chats) /\ imTokens \in Seq(Tokens) /\ imPeers \in Seq(Tokens)
      BY DEF MessagesInv, InboundMessagesTypeOK, Chats, Tokens
    <2>2. Range(imRoutes) = LastHeard(imChats, RouteLimit)
      BY <2>1, RemembersLast DEF MessagesInv
    <2>3. Range(imTokens) = LastHeard(imPeers, RouteLimit)
      BY <2>1, RemembersLast DEF MessagesInv
    <2> QED BY <2>2, <2>3 DEF RecentChatsCanBeAnswered
  <1>2. MessagesInv => InboundMessagesTypeOK
    BY DEF MessagesInv
  <1> QED BY <1>1, <1>2, MessagesInvInductive, PTL

=============================================================================
