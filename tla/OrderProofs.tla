----------------------------- MODULE OrderProofs ----------------------------
(***************************************************************************)
(* Proofs about ExtractionOrder, for any transactions and invoices.        *)
(***************************************************************************)
EXTENDS ExtractionOrder, TLAPS

\* Early and Orderly, of any table of transactions.
EarlyIn(t, record) ==
    \E r \in Commands : t[r].begun = record.created /\ t[r].saw = "queued"

OrderlyIn(t, records) ==
    \A i, j \in 1..Len(records) :
        i < j /\ records[j].created <= records[i].created =>
            EarlyIn(t, records[j])

\* Every record was created after zero and before a moment.
Before(records, moment) ==
    \A i \in 1..Len(records) : 0 < records[i].created
                               /\ records[i].created < moment

\* From one table to another no transaction that has begun looks different.
Steady(t, u) ==
    \A x \in Transactions :
        t[x].begun # 0 => u[x].begun = t[x].begun /\ u[x].saw = t[x].saw

Running(x) == txn[x].pc \in {"waiting", "holding"}

\* While nothing is parked there is no record, and nobody has seen otherwise.
QueuedIsBlank ==
    status = "queued" =>
        /\ extractions = <<>>
        /\ decisions = <<>>
        /\ \A x \in Transactions : txn[x].saw = "queued"

\* The clock has passed every record and every transaction's beginning.
ClockIsAhead ==
    /\ Before(extractions, clock + 1)
    /\ Before(decisions, clock + 1)
    /\ \A x \in Transactions :
          /\ txn[x].begun <= clock
          /\ txn[x].pc = "new" <=> txn[x].begun = 0

\* Of a parked document, a reviewer at work who did not begin early began
\* after whatever parked it was created.
ReviewersAreLater ==
    status = "needs_review" =>
        \A r \in Commands :
            Running(r) /\ txn[r].saw # "queued" =>
                /\ Before(extractions, txn[r].begun)
                /\ Before(decisions, txn[r].begun)

\* How far the document has come, and what has been recorded for that: one
\* extraction by the worker, one by an edit.
Recorded ==
    /\ status # "submitted" => billed = None
    /\ status = "needs_review" => Len(extractions) <= 1
    /\ status = "approved" =>
          /\ Len(extractions) \in {1, 2}
          /\ decisions # <<>>
          /\ decisions[Len(decisions)].decision = "human_approve"
    /\ status = "submitted" =>
          /\ extractions # <<>>
          /\ decisions # <<>>

OrderInvariant ==
    /\ OrderTypeOK
    /\ LatestIsLast
    /\ BilledIsLast
    /\ QueuedIsBlank
    /\ ClockIsAhead
    /\ ReviewersAreLater
    /\ Recorded

ExtractionRecords == [created : Nat, invoice : Invoices]
DecisionRecords   == [created : Nat, decision : Decisions]

-----------------------------------------------------------------------------
(***************************************************************************)
(* Lists of records.                                                       *)
(***************************************************************************)
\* A record created after all others, or by an early review, keeps the order.
LEMMA AppendOrderly ==
    ASSUME NEW S, NEW records \in Seq(S), NEW r \in S, NEW t,
           \A s \in S : s.created \in Nat,
           OrderlyIn(t, records),
           Before(records, r.created) \/ EarlyIn(t, r)
    PROVE  OrderlyIn(t, Append(records, r))
<1> DEFINE longer == Append(records, r)
<1>1. /\ Len(longer) = Len(records) + 1
      /\ longer[Len(records) + 1] = r
      /\ \A i \in 1..Len(records) : longer[i] = records[i]
      /\ \A i \in 1..Len(records) : records[i] \in S
      /\ Len(records) \in Nat
  OBVIOUS
<1> SUFFICES ASSUME NEW i \in 1..Len(longer), NEW j \in 1..Len(longer),
                    i < j, longer[j].created <= longer[i].created
             PROVE  EarlyIn(t, longer[j])
  BY DEF OrderlyIn
<1>2. CASE j \in 1..Len(records)
  <2>1. i \in 1..Len(records) /\ longer[i] = records[i]
        /\ longer[j] = records[j]
    BY <1>1, <1>2
  <2> QED
    BY <1>2, <2>1 DEF OrderlyIn
<1>3. CASE j = Len(records) + 1
  <2>1. i \in 1..Len(records) /\ longer[i] = records[i] /\ longer[j] = r
    BY <1>1, <1>3
  <2>2. records[i].created \in Nat /\ r.created \in Nat
    BY <1>1, <2>1
  <2>3. ~Before(records, r.created)
    BY <2>1, <2>2 DEF Before
  <2> QED
    BY <2>1, <2>3
<1> QED
  BY <1>1, <1>2, <1>3

\* The order does not depend on transactions that have not begun.
LEMMA SteadyOrderly ==
    ASSUME NEW S, NEW records \in Seq(S), NEW t, NEW u, NEW moment,
           \A s \in S : s.created \in Nat,
           Steady(t, u), Before(records, moment), OrderlyIn(t, records)
    PROVE  OrderlyIn(u, records)
<1> SUFFICES ASSUME NEW i \in 1..Len(records), NEW j \in 1..Len(records),
                    i < j, records[j].created <= records[i].created
             PROVE  EarlyIn(u, records[j])
  BY DEF OrderlyIn
<1>1. PICK r \in Commands : /\ t[r].begun = records[j].created
                            /\ t[r].saw = "queued"
  BY DEF OrderlyIn, EarlyIn
<1>2. t[r].begun # 0
  BY <1>1 DEF Before
<1> QED
  BY <1>1, <1>2 DEF Steady, EarlyIn, Transactions

\* A later moment than all records, after one more.
LEMMA AppendBefore ==
    ASSUME NEW S, NEW records \in Seq(S), NEW r \in S, NEW moment \in Nat,
           Before(records, moment), 0 < r.created, r.created < moment
    PROVE  Before(Append(records, r), moment)
BY DEF Before

LEMMA LaterMoment ==
    ASSUME NEW S, NEW records \in Seq(S),
           \A s \in S : s.created \in Nat,
           NEW m \in Nat, NEW n \in Nat, m <= n, Before(records, m)
    PROVE  Before(records, n)
BY DEF Before

\* Of one record or two in order, the latest is the last, or the first if the
\* last is of an early review.
LEMMA LatestOfTwo ==
    ASSUME NEW S, NEW records \in Seq(S), NEW t,
           \A s \in S : s.created \in Nat,
           OrderlyIn(t, records), Len(records) \in {1, 2}
    PROVE  \/ Latest(records) = records[Len(records)]
           \/ /\ Latest(records) = records[1]
              /\ EarlyIn(t, records[Len(records)])
<1> DEFINE Members == {records[i] : i \in 1..Len(records)}
           IsLatest(r) == \A i \in 1..Len(records) :
                             records[i].created <= r.created
<1>1. Latest(records) = CHOOSE r \in Members : IsLatest(r)
  BY DEF Latest
<1>2. \A i \in 1..Len(records) : records[i].created \in Nat
  OBVIOUS
<1>3. CASE Len(records) = 1
  <2>1. \A r \in Members : r = records[1]
    BY <1>3
  <2>2. records[1] \in Members /\ IsLatest(records[1])
    BY <1>2, <1>3
  <2> HIDE DEF Members, IsLatest
  <2>3. (CHOOSE r \in Members : IsLatest(r)) \in Members
    BY <2>2
  <2> QED
    BY <1>1, <1>3, <2>1, <2>3
<1>4. CASE Len(records) = 2
  <2>1. 1 \in 1..Len(records) /\ 2 \in 1..Len(records)
    BY <1>4
  <2>2. \A r \in Members : r = records[1] \/ r = records[2]
    BY <1>4
  <2>3. records[1] \in Members /\ records[2] \in Members
    BY <2>1
  <2>4. IsLatest(records[1]) \/ IsLatest(records[2])
    BY <1>2, <1>4, <2>1
  <2>5. IsLatest(records[1]) => EarlyIn(t, records[2])
    BY <1>2, <1>4, <2>1 DEF OrderlyIn
  <2> HIDE DEF Members, IsLatest
  <2>6. LET r == CHOOSE r \in Members : IsLatest(r)
        IN  r \in Members /\ IsLatest(r)
    BY <2>3, <2>4
  <2>7. Latest(records) \in Members /\ IsLatest(Latest(records))
    BY <1>1, <2>6
  <2>8. CASE Latest(records) = records[1]
    BY <1>4, <2>5, <2>7, <2>8
  <2>9. CASE Latest(records) = records[2]
    BY <1>4, <2>9
  <2> QED
    BY <2>2, <2>7, <2>8, <2>9
<1> QED
  BY <1>3, <1>4

-----------------------------------------------------------------------------
LEMMA OrderStarts == OrderInit => OrderInvariant
BY OrderAssumption
   DEF OrderInit, OrderInvariant, OrderTypeOK, LatestIsLast, Orderly,
       BilledIsLast, QueuedIsBlank, ClockIsAhead, ReviewersAreLater, Recorded,
       Before, Running, Statuses, Transactions

LEMMA OrderlyIsOfTxn ==
    ASSUME LatestIsLast
    PROVE  OrderlyIn(txn, extractions) /\ OrderlyIn(txn, decisions)
BY DEF LatestIsLast, Orderly, Early, OrderlyIn, EarlyIn

LEMMA OrderlyIsOfTxnNext ==
    ASSUME OrderlyIn(txn', extractions'), OrderlyIn(txn', decisions')
    PROVE  LatestIsLast'
BY DEF LatestIsLast, Orderly, Early, OrderlyIn, EarlyIn

LEMMA Dates ==
    ASSUME OrderInvariant
    PROVE  /\ extractions \in Seq(ExtractionRecords)
           /\ decisions \in Seq(DecisionRecords)
           /\ \A s \in ExtractionRecords : s.created \in Nat
           /\ \A s \in DecisionRecords : s.created \in Nat
           /\ clock \in Nat
           /\ OrderlyIn(txn, extractions)
           /\ OrderlyIn(txn, decisions)
           /\ Before(extractions, clock + 1)
           /\ Before(decisions, clock + 1)
BY OrderlyIsOfTxn
   DEF OrderInvariant, OrderTypeOK, ClockIsAhead, ExtractionRecords,
       DecisionRecords

\* What every step does to the transactions: those that have begun keep when
\* they began and what they saw, and at most the new one is at work anew.
LEMMA TransactionsStay ==
    ASSUME OrderInvariant, NEW x \in Transactions,
           Begin(x) \/ Lock(x) \/ (Holding(x) /\ End(x))
    PROVE  /\ Steady(txn, txn')
           /\ clock' \in Nat
           /\ clock <= clock'
           /\ txn' \in [Transactions ->
                           [pc    : {"new", "waiting", "holding", "ended"},
                            begun : Nat,
                            saw   : {"queued", "later"}]]
           /\ rowLock' \in Transactions \cup {None}
           /\ \A y \in Transactions :
                 /\ txn'[y].begun <= clock'
                 /\ txn'[y].pc = "new" <=> txn'[y].begun = 0
                 /\ Running(y)' =>
                       \/ /\ Running(y)
                          /\ txn'[y].begun = txn[y].begun
                          /\ txn'[y].saw = txn[y].saw
                       \/ txn'[y].begun = clock + 1 /\ txn'[y].saw = Sight
                 /\ txn'[y].saw \in {txn[y].saw, Sight}
<1>1. /\ txn \in [Transactions ->
                     [pc    : {"new", "waiting", "holding", "ended"},
                      begun : Nat,
                      saw   : {"queued", "later"}]]
      /\ clock \in Nat
      /\ rowLock \in Transactions \cup {None}
      /\ Sight \in {"queued", "later"}
      /\ \A y \in Transactions : /\ txn[y].begun <= clock
                                 /\ txn[y].pc = "new" <=> txn[y].begun = 0
  BY DEF OrderInvariant, OrderTypeOK, ClockIsAhead, Sight
<1>2. CASE Begin(x)
  <2>1. \A y \in Transactions :
           IF y = x
               THEN /\ txn'[y].pc = "waiting"
                    /\ txn'[y].begun = clock + 1
                    /\ txn'[y].saw = Sight
               ELSE txn'[y] = txn[y]
    BY <1>1, <1>2 DEF Begin
  <2>2. Steady(txn, txn')
    BY <1>1, <1>2, <2>1 DEF Begin, Steady
  <2> QED
    BY <1>1, <1>2, <2>1, <2>2 DEF Begin, Running
<1>3. CASE Lock(x) \/ (Holding(x) /\ End(x))
  <2>1. PICK pc \in {"holding", "ended"} : txn' = [txn EXCEPT ![x].pc = pc]
    BY <1>3 DEF Lock, End
  <2>2. txn[x].pc \in {"waiting", "holding"}
    BY <1>3 DEF Lock, Holding
  <2>3. \A y \in Transactions :
           /\ txn'[y].begun = txn[y].begun
           /\ txn'[y].saw = txn[y].saw
           /\ txn'[y].pc = IF y = x THEN pc ELSE txn[y].pc
    BY <1>1, <2>1
  <2>4. /\ clock' = clock
        /\ rowLock' \in Transactions \cup {None}
    BY <1>1, <1>3 DEF Lock, End
  <2>5. txn' \in [Transactions ->
                     [pc    : {"new", "waiting", "holding", "ended"},
                      begun : Nat,
                      saw   : {"queued", "later"}]]
    BY <1>1, <2>1
  <2>6. Steady(txn, txn')
    BY <2>3 DEF Steady
  <2>7. \A y \in Transactions : txn'[y].pc = "new" <=> txn[y].pc = "new"
    BY <2>2, <2>3
  <2>8. \A y \in Transactions : Running(y)' => Running(y)
    BY <2>2, <2>3 DEF Running
  <2> QED
    BY <1>1, <2>3, <2>4, <2>5, <2>6, <2>7, <2>8
<1> QED
  BY <1>2, <1>3

\* No record is added: what was in order stays in order.
LEMMA NothingRecorded ==
    ASSUME OrderInvariant, NEW x \in Transactions,
           Begin(x) \/ Lock(x) \/ (Holding(x) /\ End(x)),
           UNCHANGED <<extractions, decisions>>,
           \/ status' = status
           \/ status' \in {"approved", "submitted", "rejected"}
    PROVE  LatestIsLast' /\ QueuedIsBlank' /\ ClockIsAhead'
           /\ ReviewersAreLater'
<1>1. QueuedIsBlank /\ ClockIsAhead /\ ReviewersAreLater
  BY DEF OrderInvariant
<1>2. LatestIsLast'
  <2>1. OrderlyIn(txn', extractions) /\ OrderlyIn(txn', decisions)
    BY Dates, TransactionsStay, SteadyOrderly
  <2> QED
    BY <2>1, OrderlyIsOfTxnNext
<1>3. QueuedIsBlank'
  BY <1>1, TransactionsStay DEF QueuedIsBlank, Sight
<1>4. ClockIsAhead'
  <2>1. clock + 1 \in Nat /\ clock' + 1 \in Nat /\ clock + 1 <= clock' + 1
    BY Dates, TransactionsStay
  <2>2. Before(extractions, clock' + 1) /\ Before(decisions, clock' + 1)
    BY <2>1, Dates, LaterMoment
  <2> QED
    BY <2>2, TransactionsStay DEF ClockIsAhead
<1>5. ReviewersAreLater'
  <2> SUFFICES ASSUME status' = "needs_review",
                      NEW r \in Commands, Running(r)', txn'[r].saw # "queued"
               PROVE  /\ Before(extractions, txn'[r].begun)
                      /\ Before(decisions, txn'[r].begun)
    BY DEF ReviewersAreLater
  <2>1. status = "needs_review" /\ r \in Transactions
    BY DEF Transactions
  <2>2. CASE /\ Running(r)
             /\ txn'[r].begun = txn[r].begun
             /\ txn'[r].saw = txn[r].saw
    BY <1>1, <2>1, <2>2 DEF ReviewersAreLater
  <2>3. CASE txn'[r].begun = clock + 1
    BY <2>3, Dates
  <2> QED
    BY <2>1, <2>2, <2>3, TransactionsStay
<1> QED
  BY <1>2, <1>3, <1>4, <1>5

\* The bill stands as long as nothing is recorded.
LEMMA BillStays ==
    ASSUME OrderInvariant, NEW x \in Transactions,
           Begin(x) \/ Lock(x) \/ (Holding(x) /\ End(x)),
           UNCHANGED <<status, extractions, decisions, billed>>
    PROVE  BilledIsLast' /\ Recorded'
<1>1. BilledIsLast /\ Recorded
  BY DEF OrderInvariant
<1>2. Recorded'
  BY <1>1 DEF Recorded
<1>3. ASSUME billed # None  PROVE extractions # <<>>
  BY <1>1, <1>3 DEF Recorded
<1>4. ASSUME billed # None, Early(extractions[Len(extractions)])
      PROVE  EarlyIn(txn', extractions[Len(extractions)])
  <2> DEFINE last == extractions[Len(extractions)]
  <2>1. Len(extractions) \in 1..Len(extractions)
    BY <1>3, <1>4, Dates
  <2>2. last.created # 0
    BY <2>1, Dates DEF Before
  <2>3. PICK r \in Commands : txn[r].begun = last.created
                              /\ txn[r].saw = "queued"
    BY <1>4 DEF Early
  <2> QED
    BY <2>2, <2>3, TransactionsStay DEF Steady, EarlyIn, Transactions
<1>5. BilledIsLast'
  BY <1>1, <1>4 DEF BilledIsLast, Early, EarlyIn
<1> QED
  BY <1>2, <1>5

\* A step that changes no table and no status.
LEMMA QuietKeeps ==
    ASSUME OrderInvariant, NEW x \in Transactions,
           Begin(x) \/ Lock(x) \/ (Holding(x) /\ End(x)),
           UNCHANGED <<status, extractions, decisions, billed>>
    PROVE  OrderInvariant'
<1>1. OrderTypeOK'
  BY TransactionsStay DEF OrderInvariant, OrderTypeOK
<1> QED
  BY <1>1, NothingRecorded, BillStays DEF OrderInvariant

-----------------------------------------------------------------------------
\* Who may record, and that the record comes after the others or early.
LEMMA NewRecord ==
    ASSUME OrderInvariant, NEW x \in Transactions, Holding(x), End(x),
           \/ status = "queued"
           \/ status = "needs_review" /\ x \in Commands
    PROVE  /\ txn[x].begun \in Nat
           /\ 0 < txn[x].begun
           /\ txn[x].begun < clock + 1
           /\ clock + 1 \in Nat
           /\ \/ /\ Before(extractions, txn[x].begun)
                 /\ Before(decisions, txn[x].begun)
              \/ \A record : record.created = txn[x].begun =>
                     EarlyIn(txn', record)
<1>1. OrderTypeOK /\ QueuedIsBlank /\ ClockIsAhead /\ ReviewersAreLater
  BY DEF OrderInvariant
<1>2. txn[x].begun \in Nat /\ clock \in Nat
  BY <1>1 DEF OrderTypeOK
<1>3. 0 < txn[x].begun /\ txn[x].begun < clock + 1
  BY <1>1, <1>2 DEF ClockIsAhead, Holding
<1>4. CASE status = "queued"
  BY <1>1, <1>2, <1>3, <1>4 DEF QueuedIsBlank, Before
<1>5. CASE status = "needs_review" /\ x \in Commands /\ txn[x].saw # "queued"
  BY <1>1, <1>2, <1>3, <1>5 DEF ReviewersAreLater, Running, Holding
<1>6. CASE x \in Commands /\ txn[x].saw = "queued"
  BY <1>2, <1>3, <1>6, TransactionsStay DEF Steady, EarlyIn
<1> QED
  BY <1>2, <1>3, <1>4, <1>5, <1>6

\* The extractions after x has added one.
LEMMA ExtractionAdded ==
    ASSUME OrderInvariant, NEW x \in Transactions, Holding(x), End(x),
           \/ status = "queued"
           \/ status = "needs_review" /\ x \in Commands,
           NEW invoice \in Invoices, Extracted(x, invoice)
    PROVE  /\ extractions' \in Seq(ExtractionRecords)
           /\ OrderlyIn(txn', extractions')
           /\ Before(extractions', clock + 1)
           /\ Len(extractions') = Len(extractions) + 1
           /\ extractions' # <<>>
           /\ extractions'[Len(extractions')].invoice = invoice
<1> DEFINE r == [created |-> txn[x].begun, invoice |-> invoice]
<1>1. /\ extractions \in Seq(ExtractionRecords)
      /\ \A s \in ExtractionRecords : s.created \in Nat
      /\ OrderlyIn(txn', extractions)
      /\ Before(extractions, clock + 1)
  BY Dates, TransactionsStay, SteadyOrderly
<1>2. /\ r \in ExtractionRecords
      /\ r.created = txn[x].begun
      /\ r.invoice = invoice
      /\ 0 < r.created
      /\ r.created < clock + 1
      /\ clock + 1 \in Nat
      /\ Before(extractions, r.created) \/ EarlyIn(txn', r)
  BY NewRecord DEF ExtractionRecords
<1>3. extractions' = Append(extractions, r)
  BY DEF Extracted
<1> HIDE DEF r
<1>4. OrderlyIn(txn', extractions')
  BY <1>1, <1>2, <1>3, AppendOrderly
<1>5. Before(extractions', clock + 1)
  BY <1>1, <1>2, <1>3, AppendBefore
<1>6. /\ extractions' \in Seq(ExtractionRecords)
      /\ Len(extractions') = Len(extractions) + 1
      /\ extractions' # <<>>
      /\ extractions'[Len(extractions')] = r
  BY <1>1, <1>2, <1>3
<1> QED
  BY <1>2, <1>4, <1>5, <1>6

\* The decisions after x has added one.
LEMMA DecisionAdded ==
    ASSUME OrderInvariant, NEW x \in Transactions, Holding(x), End(x),
           \/ status = "queued"
           \/ status = "needs_review" /\ x \in Commands,
           NEW decision \in Decisions, Decided(x, decision)
    PROVE  /\ decisions' \in Seq(DecisionRecords)
           /\ OrderlyIn(txn', decisions')
           /\ Before(decisions', clock + 1)
           /\ decisions' # <<>>
           /\ decisions'[Len(decisions')].decision = decision
<1> DEFINE r == [created |-> txn[x].begun, decision |-> decision]
<1>1. /\ decisions \in Seq(DecisionRecords)
      /\ \A s \in DecisionRecords : s.created \in Nat
      /\ OrderlyIn(txn', decisions)
      /\ Before(decisions, clock + 1)
  BY Dates, TransactionsStay, SteadyOrderly
<1>2. /\ r \in DecisionRecords
      /\ r.created = txn[x].begun
      /\ r.decision = decision
      /\ 0 < r.created
      /\ r.created < clock + 1
      /\ clock + 1 \in Nat
      /\ Before(decisions, r.created) \/ EarlyIn(txn', r)
  BY NewRecord DEF DecisionRecords
<1>3. decisions' = Append(decisions, r)
  BY DEF Decided
<1> HIDE DEF r
<1>4. OrderlyIn(txn', decisions')
  BY <1>1, <1>2, <1>3, AppendOrderly
<1>5. Before(decisions', clock + 1)
  BY <1>1, <1>2, <1>3, AppendBefore
<1>6. /\ decisions' \in Seq(DecisionRecords)
      /\ decisions' # <<>>
      /\ decisions'[Len(decisions')] = r
  BY <1>1, <1>2, <1>3
<1> QED
  BY <1>2, <1>4, <1>5, <1>6

\* What a step that parks the document, or ends its wait, keeps of the order.
LEMMA RecordsKeep ==
    ASSUME OrderInvariant, NEW x \in Transactions, Holding(x), End(x),
           \/ status = "queued" /\ status' = "needs_review"
           \/ status' \in {"approved", "submitted", "rejected"},
           Before(extractions', clock + 1),
           Before(decisions', clock + 1)
    PROVE  QueuedIsBlank' /\ ClockIsAhead' /\ ReviewersAreLater'
<1>1. QueuedIsBlank' /\ clock' = clock
  BY DEF QueuedIsBlank, End
<1>2. ClockIsAhead'
  BY <1>1, TransactionsStay DEF ClockIsAhead
<1>3. ReviewersAreLater'
  <2> SUFFICES ASSUME status' = "needs_review", NEW r \in Commands
               PROVE  txn'[r].saw = "queued"
    BY DEF ReviewersAreLater
  <2>1. status = "queued" /\ r \in Transactions
    BY DEF Transactions
  <2> QED
    BY <2>1, TransactionsStay DEF OrderInvariant, QueuedIsBlank, Sight
<1> QED
  BY <1>1, <1>2, <1>3

\* The worker extracts a queued document, and decides.
LEMMA ExtractKeeps ==
    ASSUME OrderInvariant, NEW w \in Attempts, Park(w) \/ AutoSubmit(w)
    PROVE  OrderInvariant'
<1>1. w \in Transactions /\ Holding(w) /\ End(w) /\ status = "queued"
  BY DEF Transactions, Park, AutoSubmit
<1>2. PICK invoice \in Invoices :
         /\ Extracted(w, invoice)
         /\ billed' = IF status' = "submitted" THEN invoice ELSE billed
  BY DEF Park, AutoSubmit
<1>3. PICK decision \in Decisions :
         /\ Decided(w, decision)
         /\ decision = IF status' = "submitted" THEN "auto_approve"
                                                ELSE "needs_review"
  BY DEF Park, AutoSubmit, Decisions
<1>4. status' \in {"needs_review", "submitted"}
  BY DEF Park, AutoSubmit
<1>5. billed = None /\ Len(extractions) = 0
  BY <1>1 DEF OrderInvariant, QueuedIsBlank, Recorded
<1>6. /\ extractions' \in Seq(ExtractionRecords)
      /\ OrderlyIn(txn', extractions') /\ Before(extractions', clock + 1)
      /\ Len(extractions') = 1
      /\ extractions' # <<>>
      /\ extractions'[Len(extractions')].invoice = invoice
  BY <1>1, <1>2, <1>5, ExtractionAdded
<1>7. /\ decisions' \in Seq(DecisionRecords)
      /\ OrderlyIn(txn', decisions') /\ Before(decisions', clock + 1)
      /\ decisions' # <<>>
      /\ decisions'[Len(decisions')].decision = decision
  BY <1>1, <1>3, DecisionAdded
<1>8. OrderTypeOK'
  BY <1>1, <1>2, <1>4, <1>5, <1>6, <1>7, TransactionsStay
     DEF OrderTypeOK, Statuses, ExtractionRecords, DecisionRecords
<1>9. QueuedIsBlank' /\ ClockIsAhead' /\ ReviewersAreLater'
  BY <1>1, <1>4, <1>6, <1>7, RecordsKeep
<1>10. LatestIsLast'
  BY <1>6, <1>7, OrderlyIsOfTxnNext
<1>11. BilledIsLast' /\ Recorded'
  BY <1>2, <1>3, <1>4, <1>5, <1>6, <1>7 DEF BilledIsLast, Recorded
<1> QED
  BY <1>8, <1>9, <1>10, <1>11 DEF OrderInvariant

LEMMA ParkUnreadableKeeps ==
    ASSUME OrderInvariant, NEW w \in Attempts, ParkUnreadable(w)
    PROVE  OrderInvariant'
<1>1. /\ w \in Transactions /\ Holding(w) /\ End(w)
      /\ status = "queued" /\ status' = "needs_review"
      /\ UNCHANGED <<extractions, decisions, billed>>
  BY DEF Transactions, ParkUnreadable
<1>2. OrderTypeOK /\ Recorded /\ billed = None /\ Len(extractions) = 0
  BY <1>1 DEF OrderInvariant, QueuedIsBlank, Recorded
<1>3. OrderTypeOK'
  BY <1>1, <1>2, TransactionsStay DEF OrderTypeOK, Statuses
<1>4. LatestIsLast'
  BY <1>1, Dates, TransactionsStay, SteadyOrderly, OrderlyIsOfTxnNext
<1>5. QueuedIsBlank' /\ ClockIsAhead' /\ ReviewersAreLater'
  BY <1>1, Dates, RecordsKeep
<1>6. BilledIsLast' /\ Recorded'
  BY <1>1, <1>2 DEF BilledIsLast, Recorded
<1> QED
  BY <1>3, <1>4, <1>5, <1>6 DEF OrderInvariant

\* The resumed task bills the last extraction, or the first if the last is of
\* an early review.
LEMMA SubmitKeeps ==
    ASSUME OrderInvariant, NEW w \in Attempts, SubmitApproved(w)
    PROVE  OrderInvariant'
<1>1. /\ w \in Transactions /\ Holding(w) /\ End(w)
      /\ status = "approved" /\ status' = "submitted"
      /\ billed' = Latest(extractions).invoice
      /\ UNCHANGED <<extractions, decisions>>
  BY DEF Transactions, SubmitApproved
<1>2. /\ OrderTypeOK
      /\ Len(extractions) \in {1, 2}
      /\ decisions # <<>>
      /\ decisions[Len(decisions)].decision = "human_approve"
  BY <1>1 DEF OrderInvariant, Recorded
<1>3. /\ extractions \in Seq(ExtractionRecords)
      /\ \A s \in ExtractionRecords : s.created \in Nat
      /\ OrderlyIn(txn', extractions)
      /\ OrderlyIn(txn', decisions)
  BY <1>1, Dates, TransactionsStay, SteadyOrderly
<1>4. \/ Latest(extractions) = extractions[Len(extractions)]
      \/ /\ Latest(extractions) = extractions[1]
         /\ EarlyIn(txn', extractions[Len(extractions)])
  BY <1>2, <1>3, LatestOfTwo
<1>5. billed' \in Invoices
  <2>1. /\ extractions[1] \in ExtractionRecords
        /\ extractions[Len(extractions)] \in ExtractionRecords
    BY <1>2, <1>3
  <2> QED
    BY <1>1, <1>4, <2>1 DEF ExtractionRecords
<1>6. OrderTypeOK'
  BY <1>1, <1>2, <1>5, TransactionsStay DEF OrderTypeOK, Statuses
<1>7. LatestIsLast' /\ QueuedIsBlank' /\ ClockIsAhead' /\ ReviewersAreLater'
  BY <1>1, NothingRecorded
<1>8. BilledIsLast'
  BY <1>1, <1>2, <1>4 DEF BilledIsLast, Early, EarlyIn
<1>9. Recorded'
  <2>1. extractions # <<>>
    <3>1. Len(extractions) # 0
      BY <1>2
    <3> QED
      BY <3>1
  <2> QED
    BY <1>1, <1>2, <2>1 DEF Recorded
<1> QED
  BY <1>6, <1>7, <1>8, <1>9 DEF OrderInvariant

\* A reviewer's verdict on a parked document.
LEMMA VerdictKeeps ==
    ASSUME OrderInvariant, NEW r \in Commands,
           Approve(r) \/ ApproveEdited(r) \/ Reject(r)
    PROVE  OrderInvariant'
<1>1. /\ r \in Transactions /\ Holding(r) /\ End(r)
      /\ status = "needs_review" /\ status' \in {"approved", "rejected"}
      /\ billed' = billed
  BY DEF Transactions, Approve, ApproveEdited, Reject
<1>2. PICK decision \in Decisions :
         /\ Decided(r, decision)
         /\ status' = "approved" => decision = "human_approve"
  BY DEF Approve, ApproveEdited, Reject, Decisions
<1>3. /\ billed = None
      /\ extractions \in Seq(ExtractionRecords)
      /\ OrderlyIn(txn', extractions)
      /\ Before(extractions, clock + 1)
      /\ Len(extractions) = 0 \/ Len(extractions) = 1
  <2>1. billed = None /\ Len(extractions) <= 1
    BY <1>1 DEF OrderInvariant, Recorded
  <2>2. extractions \in Seq(ExtractionRecords)
    BY Dates
  <2>3. Len(extractions) = 0 \/ Len(extractions) = 1
    <3>1. Len(extractions) \in Nat
      BY <2>2
    <3>2. \A n \in Nat : n <= 1 => n = 0 \/ n = 1
      OBVIOUS
    <3> QED
      BY <2>1, <3>1, <3>2
  <2>4. OrderlyIn(txn', extractions) /\ Before(extractions, clock + 1)
    BY <1>1, Dates, TransactionsStay, SteadyOrderly
  <2> QED
    BY <2>1, <2>2, <2>3, <2>4
<1>4. /\ extractions' \in Seq(ExtractionRecords)
      /\ OrderlyIn(txn', extractions') /\ Before(extractions', clock + 1)
      /\ status' = "approved" => Len(extractions') \in {1, 2}
  <2>1. CASE ApproveEdited(r)
    <3>1. PICK invoice \in Invoices : Extracted(r, invoice)
      BY <2>1 DEF ApproveEdited
    <3>2. /\ extractions' \in Seq(ExtractionRecords)
          /\ OrderlyIn(txn', extractions') /\ Before(extractions', clock + 1)
          /\ Len(extractions') = Len(extractions) + 1
      BY <1>1, <3>1, ExtractionAdded
    <3>3. Len(extractions) = 0 => Len(extractions') = 1
      BY <3>2
    <3>4. Len(extractions) = 1 => Len(extractions') = 2
      BY <3>2
    <3> QED
      BY <1>3, <3>2, <3>3, <3>4
  <2>2. CASE Approve(r) \/ Reject(r)
    <3>1. /\ extractions' = extractions
          /\ status' = "approved" => extractions # <<>>
      BY <2>2 DEF Approve, Reject
    <3> QED
      BY <1>3, <3>1
  <2> QED
    BY <2>1, <2>2
<1>5. /\ decisions' \in Seq(DecisionRecords)
      /\ OrderlyIn(txn', decisions') /\ Before(decisions', clock + 1)
      /\ decisions' # <<>>
      /\ decisions'[Len(decisions')].decision = decision
  BY <1>1, <1>2, DecisionAdded
<1>6. OrderTypeOK'
  BY <1>1, <1>3, <1>4, <1>5, TransactionsStay
     DEF OrderTypeOK, Statuses, ExtractionRecords, DecisionRecords
<1>7. QueuedIsBlank' /\ ClockIsAhead' /\ ReviewersAreLater'
  BY <1>1, <1>4, <1>5, RecordsKeep
<1>8. LatestIsLast'
  BY <1>4, <1>5, OrderlyIsOfTxnNext
<1>9. BilledIsLast' /\ Recorded'
  BY <1>1, <1>2, <1>3, <1>4, <1>5 DEF BilledIsLast, Recorded
<1> QED
  BY <1>6, <1>7, <1>8, <1>9 DEF OrderInvariant

LEMMA OrderKept ==
    ASSUME OrderInvariant, [OrderNext]_orderVars
    PROVE  OrderInvariant'
<1>1. ASSUME NEW w \in Attempts, WorkerNext(w)  PROVE OrderInvariant'
  <2>1. w \in Transactions
    BY DEF Transactions
  <2>2. CASE Begin(w)
    BY <2>1, <2>2, QuietKeeps DEF Begin
  <2>3. CASE Lock(w)
    BY <2>1, <2>3, QuietKeeps DEF Lock
  <2>4. CASE Park(w) \/ AutoSubmit(w)
    BY <2>4, ExtractKeeps
  <2>5. CASE ParkUnreadable(w)
    BY <2>5, ParkUnreadableKeeps
  <2>6. CASE SubmitApproved(w)
    BY <2>6, SubmitKeeps
  <2>7. CASE EndAttempt(w)
    BY <2>1, <2>7, QuietKeeps DEF EndAttempt
  <2> QED
    BY <1>1, <2>2, <2>3, <2>4, <2>5, <2>6, <2>7 DEF WorkerNext
<1>2. ASSUME NEW r \in Commands, ReviewNext(r)  PROVE OrderInvariant'
  <2>1. r \in Transactions
    BY DEF Transactions
  <2>2. CASE Begin(r)
    BY <2>1, <2>2, QuietKeeps DEF Begin
  <2>3. CASE Lock(r)
    BY <2>1, <2>3, QuietKeeps DEF Lock
  <2>4. CASE Approve(r) \/ ApproveEdited(r) \/ Reject(r)
    BY <2>4, VerdictKeeps
  <2>5. CASE EndCommand(r)
    BY <2>1, <2>5, QuietKeeps DEF EndCommand
  <2> QED
    BY <1>2, <2>2, <2>3, <2>4, <2>5 DEF ReviewNext
<1>3. CASE UNCHANGED orderVars
  BY <1>3
     DEF orderVars, OrderInvariant, OrderTypeOK, LatestIsLast, Orderly, Early,
         BilledIsLast, QueuedIsBlank, ClockIsAhead, ReviewersAreLater,
         Recorded, Before, Running
<1> QED
  BY <1>1, <1>2, <1>3 DEF OrderNext

LEMMA OrderInductive == OrderSpec => []OrderInvariant
<1>1. OrderInvariant /\ [OrderNext]_orderVars => OrderInvariant'
  BY OrderKept
<1> QED
  BY <1>1, OrderStarts, PTL DEF OrderSpec

-----------------------------------------------------------------------------
\* Whenever reviews begin: the order of created_at is the order of the commits
\* but for the records of reviews that began on a queued document
\* (_latest_extraction, _latest_decision).
THEOREM LatestExtractionIsLast == OrderSpec => []LatestIsLast
<1>1. OrderInvariant => LatestIsLast
  BY DEF OrderInvariant
<1> QED
  BY <1>1, OrderInductive, PTL

\* The ERP is billed the extraction committed last, which the last decision
\* approved, unless that is an early review's edit: then it may be the one the
\* edit replaced, and no other.
THEOREM BilledExtractionIsLast == OrderSpec => []BilledIsLast
<1>1. OrderInvariant => BilledIsLast
  BY DEF OrderInvariant
<1> QED
  BY <1>1, OrderInductive, PTL

\* The variables keep their types.
THEOREM OrderTypes == OrderSpec => []OrderTypeOK
<1>1. OrderInvariant => OrderTypeOK
  BY DEF OrderInvariant
<1> QED
  BY <1>1, OrderInductive, PTL

=============================================================================
