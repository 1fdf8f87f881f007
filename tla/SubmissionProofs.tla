-------------------------- MODULE SubmissionProofs --------------------------
(***************************************************************************)
(* What create_invoice promises whatever overlaps, for any requests, keys  *)
(* and restarts, and what the row lock adds for the workers that wait for  *)
(* its answers.                                                            *)
(***************************************************************************)
EXTENDS Submission, OrderProofs

-----------------------------------------------------------------------------
(***************************************************************************)
(* ErpMock by itself.                                                      *)
(***************************************************************************)
\* A call that moves on is a call: its key stays, an answer is added last.
LEMMA CallMoves ==
    ASSUME ErpTypeOK, NEW r \in Requests
    PROVE  /\ \A k \in Keys, supplier \in Suppliers :
                 At(r, "unsent") =>
                    [request[r] EXCEPT !.pc = "sent", !.key = k,
                                       !.supplier = supplier] \in Calls
           /\ request[r].pc \in InFlight =>
                 \A pc \in {"creating", "inserted", "refused", "lost"} :
                    [request[r] EXCEPT !.pc = pc] \in Calls
           /\ request[r].pc \in InFlight =>
                 \A i \in Requests :
                    [request[r] EXCEPT !.pc = "answered", !.got = i,
                                       !.epoch = restarts] \in Calls
<1>1. request[r] \in Calls /\ restarts \in 0..MaxRestarts
  BY DEF ErpTypeOK
<1>. QED
  BY <1>1, ErpAssumption DEF Calls, At, InFlight

\* A request in flight has a key, and an invoice its key leads to is one.
LEMMA KeyKnown ==
    ASSUME ErpTypeOK, NEW r \in Requests, request[r].pc # "unsent"
    PROVE  KeyOf(r) \in Keys /\ byKey[KeyOf(r)] \in Requests \cup {Null}
<1>1. request[r] \in Calls
  BY DEF ErpTypeOK
<1>2. KeyOf(r) \in Keys
  BY <1>1 DEF Calls, KeyOf
<1>. QED
  BY <1>2 DEF ErpTypeOK

\* What each action does to the calls: one call moves, the others stay.
LEMMA OneMoves ==
    ASSUME ErpTypeOK, NEW r \in Requests, NEW call \in Calls,
           request' = [request EXCEPT ![r] = call]
    PROVE  /\ request' \in [Requests -> Calls]
           /\ request'[r] = call
           /\ \A s \in Requests : s # r => request'[s] = request[s]
  BY DEF ErpTypeOK

\* Every action keeps the types.
LEMMA ErpTypes ==
    ASSUME ErpTypeOK, [ErpNext]_erpVars
    PROVE  ErpTypeOK'
<1>1. ASSUME NEW r \in Requests, NEW k \in Keys, Send(r, k)
      PROVE  ErpTypeOK'
  <2>1. PICK supplier \in Suppliers :
           request' = [request EXCEPT ![r] =
              [request[r] EXCEPT !.pc = "sent", !.key = k, !.supplier = supplier]]
    BY <1>1 DEF Send
  <2>2. request' \in [Requests -> Calls]
    BY <2>1, <1>1, CallMoves, OneMoves DEF Send
  <2>. QED
    BY <2>2, <1>1 DEF Send, ErpTypeOK
<1>2. ASSUME NEW r \in Requests, NEW i \in Requests,
             Answer(r, i), request[r].pc \in InFlight
      PROVE  request' \in [Requests -> Calls]
  BY <1>2, CallMoves, OneMoves DEF Answer
<1>3. ASSUME NEW r \in Requests, request[r].pc \in InFlight,
             NEW pc \in {"creating", "inserted", "refused"}, Goto(r, pc)
      PROVE  request' \in [Requests -> Calls]
  BY <1>3, CallMoves, OneMoves DEF Goto
<1>4. ASSUME NEW r \in Requests, Replay(r)
      PROVE  ErpTypeOK'
  <2>1. byKey[KeyOf(r)] \in Requests /\ request[r].pc \in InFlight
    BY <1>4, KeyKnown DEF Replay, At, InFlight
  <2>2. request' \in [Requests -> Calls]
    BY <1>2, <1>4, <2>1 DEF Replay
  <2>. QED
    BY <2>2, <1>4 DEF Replay, ErpTypeOK
<1>5. ASSUME NEW r \in Requests, Refuse(r)
      PROVE  ErpTypeOK'
  BY <1>3, <1>5 DEF Refuse, ErpTypeOK, At, InFlight
<1>6. ASSUME NEW r \in Requests, Start(r)
      PROVE  ErpTypeOK'
  BY <1>3, <1>6 DEF Start, ErpTypeOK, At, InFlight
<1>7. ASSUME NEW r \in Requests, InsertById(r)
      PROVE  ErpTypeOK'
  <2>1. KeyOf(r) \in Keys /\ request[r].pc \in InFlight
    BY <1>7, KeyKnown DEF InsertById, At, InFlight
  <2>2. request' \in [Requests -> Calls]
    BY <1>3, <1>7, <2>1 DEF InsertById
  <2>. QED
    BY <2>1, <2>2, <1>7 DEF InsertById, ErpTypeOK
<1>8. ASSUME NEW r \in Requests, InsertByKey(r)
      PROVE  ErpTypeOK'
  <2>1. KeyOf(r) \in Keys /\ request[r].pc \in InFlight
    BY <1>8, KeyKnown DEF InsertByKey, At, InFlight
  <2>2. request' \in [Requests -> Calls]
    BY <1>2, <1>8, <2>1 DEF InsertByKey
  <2>. QED
    BY <2>1, <2>2, <1>8 DEF InsertByKey, ErpTypeOK
<1>9. CASE Restart
  <2>1. request' \in [Requests -> Calls]
    BY <1>9, CallMoves DEF Restart, CutOff, ErpTypeOK
  <2>. QED
    BY <2>1, <1>9, ErpAssumption DEF Restart, ErpTypeOK
<1>10. CASE UNCHANGED erpVars
  BY <1>10 DEF erpVars, ErpTypeOK
<1>. QED
  BY <1>1, <1>4, <1>5, <1>6, <1>7, <1>8, <1>9, <1>10 DEF ErpNext, Serve

-----------------------------------------------------------------------------
\* A request that takes a step keeps its key, and no other request moves.
LEMMA Stepped ==
    ASSUME ErpTypeOK, NEW r \in Requests
    PROVE  /\ \A pc \in {"creating", "inserted", "refused"} :
                 Goto(r, pc) =>
                    /\ request'[r].pc = pc
                    /\ request'[r].key = request[r].key
                    /\ request'[r].epoch = request[r].epoch
                    /\ \A s \in Requests : s # r => request'[s] = request[s]
           /\ \A i \in Requests :
                 Answer(r, i) =>
                    /\ request'[r].pc = "answered"
                    /\ request'[r].key = request[r].key
                    /\ request'[r].got = i
                    /\ request'[r].epoch = restarts
                    /\ \A s \in Requests : s # r => request'[s] = request[s]
<1>1. request \in [Requests -> Calls] /\ request[r] \in Calls
  BY DEF ErpTypeOK
<1>2. ASSUME NEW pc \in {"creating", "inserted", "refused"}, Goto(r, pc)
      PROVE  /\ request'[r] = [request[r] EXCEPT !.pc = pc]
             /\ \A s \in Requests : s # r => request'[s] = request[s]
  BY <1>1, <1>2 DEF Goto
<1>3. ASSUME NEW i \in Requests, Answer(r, i)
      PROVE  /\ request'[r] = [request[r] EXCEPT !.pc = "answered", !.got = i,
                                                 !.epoch = restarts]
             /\ \A s \in Requests : s # r => request'[s] = request[s]
  BY <1>1, <1>3 DEF Answer
<1>. QED
  BY <1>1, <1>2, <1>3 DEF Calls

\* The variables of the ERP mock keep their types, whatever overlaps.
THEOREM ErpTypeCorrect == ErpSpec => []ErpTypeOK
<1>1. ErpInit => ErpTypeOK
  BY ErpAssumption DEF ErpInit, Unsent, ErpTypeOK, Calls, Suppliers, InFlight
<1>. QED
  BY <1>1, ErpTypes, PTL DEF ErpSpec

\* A key leads to an invoice of that key, and an invoice is there from its
\* first insert on.
InvoicesIndexed ==
    /\ \A k \in Keys : byKey[k] # Null => byId[byKey[k]] = k
    /\ \A r \in Requests :
          /\ request[r].pc \in {"unsent", "sent", "creating"} => byId[r] = Null
          /\ At(r, "inserted") => byId[r] = KeyOf(r)
          /\ request[r].epoch <= restarts

\* Both hold in every state of create_invoice, whatever overlaps.
THEOREM IndexedInductive == ErpSpec => [](InvoicesIndexed /\ AnswersExist)
<1>1. ErpInit => InvoicesIndexed /\ AnswersExist
  BY DEF ErpInit, Unsent, InvoicesIndexed, AnswersExist, At
<1>2. ASSUME ErpTypeOK, InvoicesIndexed, AnswersExist, [ErpNext]_erpVars
      PROVE  InvoicesIndexed' /\ AnswersExist'
  <2>. USE DEF KeyOf, At
  <2>1. /\ Null \notin Requests \cup Keys
        /\ \A r \in Requests :
              /\ byId[r] \in Keys \cup {Null}
              /\ request[r].epoch \in Nat
              /\ At(r, "answered") => request[r].got \in Requests
              /\ ~At(r, "unsent") => KeyOf(r) \in Keys
        /\ \A k \in Keys : byKey[k] \in Requests \cup {Null}
        /\ restarts \in Nat
    BY <1>2, KeyKnown, ErpAssumption DEF ErpTypeOK, Calls
  <2>2. ASSUME NEW r \in Requests, NEW k \in Keys, Send(r, k)
        PROVE  InvoicesIndexed' /\ AnswersExist'
    <3>1. /\ request'[r].pc = "sent"
          /\ request'[r].epoch = request[r].epoch
          /\ \A s \in Requests : s # r => request'[s] = request[s]
          /\ request[r].pc = "unsent"
          /\ UNCHANGED <<byId, byKey, restarts>>
      BY <1>2, <2>2 DEF Send, ErpTypeOK, Calls
    <3>. QED
      BY <3>1, <1>2 DEF InvoicesIndexed, AnswersExist
  <2>3. ASSUME NEW r \in Requests, Replay(r)
        PROVE  InvoicesIndexed' /\ AnswersExist'
    <3>1. /\ request[r].pc = "sent"
          /\ KeyOf(r) \in Keys
          /\ byKey[KeyOf(r)] \in Requests
          /\ Answer(r, byKey[KeyOf(r)])
          /\ UNCHANGED <<byId, byKey, restarts>>
      BY <2>1, <2>3 DEF Replay
    <3>2. /\ request'[r].pc = "answered"
          /\ request'[r].key = request[r].key
          /\ request'[r].got = byKey[KeyOf(r)]
          /\ request'[r].epoch = restarts
          /\ \A s \in Requests : s # r => request'[s] = request[s]
      BY <1>2, <3>1, Stepped
    <3>. QED
      BY <2>1, <3>1, <3>2, <1>2 DEF InvoicesIndexed, AnswersExist
  <2>4. ASSUME NEW r \in Requests, Refuse(r) \/ Start(r)
        PROVE  InvoicesIndexed' /\ AnswersExist'
    <3>1. /\ request'[r].pc \in {"refused", "creating"}
          /\ request'[r].key = request[r].key
          /\ request'[r].epoch = request[r].epoch
          /\ \A s \in Requests : s # r => request'[s] = request[s]
      BY <1>2, <2>4, Stepped DEF Refuse, Start
    <3>2. request[r].pc = "sent" /\ UNCHANGED <<byId, byKey, restarts>>
      BY <2>4 DEF Refuse, Start
    <3>. QED
      BY <3>1, <3>2, <1>2 DEF InvoicesIndexed, AnswersExist
  <2>5. ASSUME NEW r \in Requests, InsertById(r)
        PROVE  InvoicesIndexed' /\ AnswersExist'
    <3>1. /\ request[r].pc = "creating"
          /\ byId[r] = Null
          /\ UNCHANGED <<byKey, restarts>>
      BY <1>2, <2>5 DEF InsertById, InvoicesIndexed
    <3>2. /\ request'[r].pc = "inserted"
          /\ request'[r].key = request[r].key
          /\ request'[r].epoch = request[r].epoch
          /\ \A s \in Requests : s # r => request'[s] = request[s]
      BY <1>2, <2>5, Stepped DEF InsertById
    <3>3. /\ byId'[r] = KeyOf(r)
          /\ \A s \in Requests : s # r => byId'[s] = byId[s]
      BY <1>2, <2>5 DEF InsertById, ErpTypeOK
    <3>. QED
      BY <2>1, <3>1, <3>2, <3>3, <1>2 DEF InvoicesIndexed, AnswersExist
  <2>6. ASSUME NEW r \in Requests, InsertByKey(r)
        PROVE  InvoicesIndexed' /\ AnswersExist'
    <3>1. /\ request[r].pc = "inserted" /\ KeyOf(r) \in Keys
          /\ byId[r] = KeyOf(r)
          /\ UNCHANGED <<byId, restarts>>
      BY <1>2, <2>1, <2>6 DEF InsertByKey, InvoicesIndexed
    <3>2. /\ request'[r].pc = "answered"
          /\ request'[r].key = request[r].key
          /\ request'[r].got = r
          /\ request'[r].epoch = restarts
          /\ \A s \in Requests : s # r => request'[s] = request[s]
      BY <1>2, <2>6, Stepped DEF InsertByKey
    <3>3. /\ byKey'[KeyOf(r)] = r
          /\ \A k \in Keys : k # KeyOf(r) => byKey'[k] = byKey[k]
      BY <1>2, <2>6, <3>1 DEF InsertByKey, ErpTypeOK
    <3>. QED
      BY <2>1, <3>1, <3>2, <3>3, <1>2 DEF InvoicesIndexed, AnswersExist
  <2>7. CASE Restart
    <3>1. /\ \A r \in Requests : byId'[r] = Null
          /\ \A k \in Keys : byKey'[k] = Null
          /\ restarts' = restarts + 1
      BY <2>7 DEF Restart
    <3>2. \A r \in Requests :
            /\ request'[r].pc \notin InFlight
            /\ request'[r].epoch = request[r].epoch
      BY <1>2, <2>7 DEF Restart, CutOff, ErpTypeOK, Calls, InFlight
    <3>. QED
      BY <1>2, <2>1, <3>1, <3>2 DEF InvoicesIndexed, AnswersExist, InFlight
  <2>8. CASE UNCHANGED erpVars
    BY <1>2, <2>8 DEF erpVars, InvoicesIndexed, AnswersExist
  <2>. QED
    BY <1>2, <2>2, <2>3, <2>4, <2>5, <2>6, <2>7, <2>8 DEF ErpNext, Serve
<1>. QED
  BY <1>1, <1>2, ErpTypeCorrect, PTL DEF ErpSpec

\* An answer of create_invoice names an invoice that exists until a restart,
\* also when requests of the key overlap: what can go wrong then is only that
\* the key has another invoice besides.
THEOREM AnsweredInvoicesExist == ErpSpec => []AnswersExist
  BY IndexedInductive, PTL

\* A key can get a second invoice only until its first requests are through:
\* once the key is known and no request of it is between the lookup and the
\* second insert, create_invoice answers every request of it with one invoice
\* and makes no other until a restart, whatever overlaps from then on.
THEOREM SettledKeysKeepInvoice == ErpSpec => SettledKeysStay
<1>1. ASSUME ErpTypeOK, InvoicesIndexed, [ErpNext]_erpVars
      PROVE  [\A k \in Keys : Settled(k) =>
                 \/ Restart
                 \/ /\ Settled(k)'
                    /\ byKey'[k] = byKey[k]
                    /\ InvoicesOf(k)' = InvoicesOf(k)]_erpVars
  <2>. USE DEF KeyOf, At
  <2>. SUFFICES ASSUME ErpNext, ~Restart, NEW k \in Keys, Settled(k)
                PROVE  /\ Settled(k)'
                       /\ byKey'[k] = byKey[k]
                       /\ InvoicesOf(k)' = InvoicesOf(k)
    BY <1>1
  <2>1. ASSUME NEW r \in Requests, NEW l \in Keys, Send(r, l)
        PROVE  Settled(k)'
    <3>1. /\ request'[r].pc = "sent"
          /\ \A s \in Requests : s # r => request'[s] = request[s]
          /\ UNCHANGED byKey
      BY <1>1, <2>1 DEF Send, ErpTypeOK, Calls
    <3>. QED
      BY <3>1 DEF Settled
  <2>2. ASSUME NEW r \in Requests, Replay(r) \/ Refuse(r)
        PROVE  Settled(k)'
    <3>1. /\ request'[r].pc \in {"answered", "refused"}
          /\ \A s \in Requests : s # r => request'[s] = request[s]
          /\ UNCHANGED byKey
      BY <1>1, <2>2, Stepped, KeyKnown DEF Replay, Refuse
    <3>. QED
      BY <3>1 DEF Settled
  <2>3. ASSUME NEW r \in Requests, Start(r)
        PROVE  Settled(k)'
    <3>1. KeyOf(r) # k
      BY <2>3 DEF Start, Settled
    <3>2. /\ request'[r].key = request[r].key
          /\ \A s \in Requests : s # r => request'[s] = request[s]
          /\ UNCHANGED byKey
      BY <1>1, <2>3, Stepped DEF Start
    <3>. QED
      BY <3>1, <3>2 DEF Settled
  <2>4. ASSUME NEW r \in Requests, InsertById(r)
        PROVE  Settled(k)' /\ InvoicesOf(k)' = InvoicesOf(k)
    <3>1. KeyOf(r) # k
      BY <2>4 DEF InsertById, Settled
    <3>2. /\ request'[r].key = request[r].key
          /\ \A s \in Requests : s # r => request'[s] = request[s]
          /\ UNCHANGED byKey
      BY <1>1, <2>4, Stepped DEF InsertById
    <3>3. /\ byId[r] # k
          /\ byId'[r] = KeyOf(r)
          /\ \A s \in Requests : s # r => byId'[s] = byId[s]
      BY <1>1, <2>4, ErpAssumption DEF InsertById, InvoicesIndexed, ErpTypeOK
    <3>. QED
      BY <3>1, <3>2, <3>3 DEF Settled, InvoicesOf
  <2>5. ASSUME NEW r \in Requests, InsertByKey(r)
        PROVE  Settled(k)' /\ byKey'[k] = byKey[k]
    <3>1. KeyOf(r) # k
      BY <2>5 DEF InsertByKey, Settled
    <3>2. /\ request'[r].key = request[r].key
          /\ \A s \in Requests : s # r => request'[s] = request[s]
      BY <1>1, <2>5, Stepped DEF InsertByKey
    <3>3. byKey'[k] = byKey[k]
      BY <1>1, <2>5, <3>1 DEF InsertByKey, ErpTypeOK
    <3>. QED
      BY <3>1, <3>2, <3>3 DEF Settled
  <2>6. /\ \A r \in Requests, l \in Keys :
              Send(r, l) => UNCHANGED <<byId, byKey>>
        /\ \A r \in Requests :
              /\ Replay(r) \/ Refuse(r) \/ Start(r) => UNCHANGED <<byId, byKey>>
              /\ InsertById(r) => UNCHANGED byKey
              /\ InsertByKey(r) => UNCHANGED byId
    BY DEF Send, Replay, Refuse, Start, InsertById, InsertByKey
  <2>. QED
    BY <2>1, <2>2, <2>3, <2>4, <2>5, <2>6 DEF ErpNext, Serve, InvoicesOf
<1>. QED
  BY <1>1, ErpTypeCorrect, IndexedInductive, PTL DEF ErpSpec, SettledKeysStay
-----------------------------------------------------------------------------
(***************************************************************************)
(* Submission is both of its parts.                                        *)
(***************************************************************************)
LEMMA StepOfOrder ==
    ASSUME [SubmissionNext]_submissionVars
    PROVE  [OrderNext]_orderVars
<1>1. ASSUME NEW x \in Transactions, Undisturbed(x)  PROVE OrderNext
  BY <1>1
     DEF Undisturbed, OrderNext, WorkerNext, ReviewNext, Transactions
<1>2. ASSUME NEW w \in Attempts, Conclude(w) \/ Fail(w)  PROVE OrderNext
  BY <1>2 DEF Conclude, Fail, OrderNext, WorkerNext
<1>3. ASSUME NEW w \in Attempts, Post(w)  PROVE UNCHANGED orderVars
  BY <1>3 DEF Post
<1>4. CASE ErpStep
  BY <1>4 DEF ErpStep
<1>5. CASE UNCHANGED submissionVars
  BY <1>5 DEF submissionVars
<1> QED
  BY <1>1, <1>2, <1>3, <1>4, <1>5 DEF SubmissionNext

\* The calls of a worker do not disturb the documents' transactions: what
\* holds of every ExtractionOrder holds with the ERP in between.
THEOREM SubmissionIsOrderly == SubmissionSpec => OrderSpec
BY StepOfOrder, PTL DEF SubmissionSpec, SubmissionInit, OrderSpec

\* What a resumed task posts is one of the invoices extracted.
LEMMA LatestIsInvoice ==
    ASSUME OrderInvariant, status = "approved"
    PROVE  Latest(extractions).invoice \in Invoices
<1>1. /\ extractions \in Seq(ExtractionRecords)
      /\ \A s \in ExtractionRecords : s.created \in Nat
      /\ OrderlyIn(txn, extractions)
  BY Dates
<1>2. Len(extractions) \in {1, 2}
  BY DEF OrderInvariant, Recorded
<1>3. \/ Latest(extractions) = extractions[Len(extractions)]
      \/ Latest(extractions) = extractions[1]
  BY <1>1, <1>2, LatestOfTwo
<1>4. /\ extractions[1] \in ExtractionRecords
      /\ extractions[Len(extractions)] \in ExtractionRecords
  BY <1>1, <1>2
<1> QED
  BY <1>3, <1>4 DEF ExtractionRecords

LEMMA StepOfErp ==
    ASSUME OrderInvariant, [SubmissionNext]_submissionVars
    PROVE  [ErpNext]_erpVars
<1>1. ASSUME NEW w \in Attempts, Post(w)  PROVE ErpNext
  <2>1. PICK invoice \in Invoices : Send(w, invoice)
    BY <1>1, LatestIsInvoice DEF Post
  <2> QED
    BY <2>1, SubmissionAssumption DEF ErpNext
<1>2. CASE ErpStep
  BY <1>2 DEF ErpStep, ErpNext
<1>3. ASSUME NEW x \in Transactions, Undisturbed(x)  PROVE UNCHANGED erpVars
  BY <1>3 DEF Undisturbed
<1>4. ASSUME NEW w \in Attempts, Conclude(w) \/ Fail(w)
      PROVE  UNCHANGED erpVars
  BY <1>4 DEF Conclude, Fail
<1>5. CASE UNCHANGED submissionVars
  BY <1>5 DEF submissionVars
<1> QED
  BY <1>1, <1>2, <1>3, <1>4, <1>5 DEF SubmissionNext

\* And the workers are clients that create_invoice's promises hold for.
THEOREM SubmissionIsErp == SubmissionSpec => ErpSpec
<1>1. SubmissionSpec => []OrderInvariant
  BY SubmissionIsOrderly, OrderInductive, PTL
<1> QED
  BY <1>1, StepOfErp, PTL DEF SubmissionSpec, SubmissionInit, ErpSpec

-----------------------------------------------------------------------------
(***************************************************************************)
(* What ties a worker's transaction to its post.                           *)
(***************************************************************************)
LockIsHeld == \A x \in Transactions : Holding(x) => rowLock = x

\* A worker posts with the lock, and while it waits for the answer keeps it.
PostsHold ==
    \A w \in Attempts :
        /\ request[w].pc # "unsent" => txn[w].pc \in {"holding", "ended"}
        /\ w \notin abandoned /\ request[w].pc \in InFlight => Holding(w)

\* Awaited invoices are indexed before the next attempt looks its key up, so
\* that one that creates an invoice finds none of its key.
AwaitedIndexed ==
    \A s \in Attempts \ abandoned :
        byId[s] # Null /\ ~At(s, "inserted") => byKey[byId[s]] # Null

CreatorIsFirst ==
    \A r, s \in Attempts \ abandoned :
        r # s /\ request[r].pc \in {"creating", "inserted"} =>
            byId[s] # KeyOf(r)

\* The key posted of an approved document is still its latest extraction's.
PostIsLatest ==
    \A w \in Attempts :
        Holding(w) /\ request[w].pc # "unsent" /\ status = "approved" =>
            KeyOf(w) = Latest(extractions).invoice

BillIsAnswered ==
    billed # None =>
        \E w \in Attempts : At(w, "answered") /\ KeyOf(w) = billed

SubmissionInvariant ==
    /\ LockIsHeld
    /\ PostsHold
    /\ AwaitedIndexed
    /\ CreatorIsFirst
    /\ AwaitedKeysAreUnique
    /\ PostIsLatest
    /\ BillIsAnswered

\* What the parts keep by themselves.
PartsInvariant == OrderTypeOK /\ ErpTypeOK /\ InvoicesIndexed

LEMMA SubmissionStarts == SubmissionInit => SubmissionInvariant
BY SubmissionAssumption, OrderAssumption
   DEF SubmissionInit, OrderInit, ErpInit, Unsent, SubmissionInvariant,
       LockIsHeld, PostsHold, AwaitedIndexed, CreatorIsFirst,
       AwaitedKeysAreUnique, PostIsLatest, BillIsAnswered, Holding, At, KeyOf,
       InFlight, Transactions

\* A step of a transaction, which leaves the ERP alone.
LEMMA TransactionKeeps ==
    ASSUME PartsInvariant, SubmissionInvariant, NEW x \in Transactions,
           \/ Begin(x)
           \/ Lock(x)
           \/ /\ Holding(x) /\ End(x)
              /\ \/ x \notin Attempts
                 \/ request[x].pc \notin InFlight
                 \/ x \in abandoned',
           UNCHANGED erpVars,
           abandoned \subseteq abandoned',
           \/ billed' = billed
           \/ x \in Attempts /\ At(x, "answered") /\ KeyOf(x) = billed'
    PROVE  SubmissionInvariant'
<1> USE DEF Holding, At, KeyOf, Transactions
<1>1. /\ LockIsHeld /\ PostsHold /\ AwaitedIndexed /\ CreatorIsFirst
      /\ AwaitedKeysAreUnique /\ PostIsLatest /\ BillIsAnswered
      /\ UNCHANGED <<request, byId, byKey, restarts>>
  BY DEF SubmissionInvariant, erpVars
<1>2. /\ \A y \in Transactions : y # x => txn'[y].pc = txn[y].pc
      /\ Begin(x) => txn[x].pc = "new" /\ txn'[x].pc = "waiting"
      /\ Lock(x) => txn[x].pc = "waiting" /\ txn'[x].pc = "holding"
      /\ Holding(x) /\ End(x) => txn'[x].pc = "ended"
  <2>1. txn \in [Transactions ->
                    [pc    : {"new", "waiting", "holding", "ended"},
                     begun : Nat,
                     saw   : {"queued", "later"}]]
    BY DEF PartsInvariant, OrderTypeOK
  <2> QED
    BY <2>1 DEF Begin, Lock, End
<1>3. None \notin Transactions
  BY OrderAssumption
<1>4. Holding(x) /\ End(x) => \A y \in Transactions : ~Holding(y)'
  BY <1>1, <1>2 DEF LockIsHeld
<1>5. LockIsHeld'
  BY <1>1, <1>2, <1>3, <1>4 DEF LockIsHeld, Begin, Lock
<1>6. PostsHold'
  BY <1>1, <1>2 DEF PostsHold
<1>7. AwaitedIndexed' /\ CreatorIsFirst' /\ AwaitedKeysAreUnique'
  BY <1>1 DEF AwaitedIndexed, CreatorIsFirst, AwaitedKeysAreUnique
<1>8. PostIsLatest'
  <2>1. CASE Begin(x) \/ Lock(x)
    <3>1. UNCHANGED <<status, extractions>>
      BY <2>1 DEF Begin, Lock
    <3>2. \A w \in Attempts :
             Holding(w)' /\ request[w].pc # "unsent" => Holding(w)
      BY <1>1, <1>2, <2>1 DEF PostsHold
    <3> QED
      BY <1>1, <3>1, <3>2 DEF PostIsLatest
  <2>2. CASE Holding(x) /\ End(x)
    BY <1>4, <2>2 DEF PostIsLatest
  <2> QED
    BY <2>1, <2>2
<1>9. BillIsAnswered'
  BY <1>1 DEF BillIsAnswered
<1> QED
  BY <1>5, <1>6, <1>7, <1>8, <1>9 DEF SubmissionInvariant

\* What the parts' types say of the calls and the two dictionaries.
LEMMA CallTypes ==
    ASSUME PartsInvariant
    PROVE  /\ Null \notin Attempts \cup Invoices
           /\ \A r \in Attempts :
                 /\ byId[r] \in Invoices \cup {Null}
                 /\ request[r].pc # "unsent" => KeyOf(r) \in Invoices
                 /\ request[r].pc \in {"unsent", "sent", "creating"} =>
                       byId[r] = Null
                 /\ request[r].pc = "inserted" => byId[r] = KeyOf(r)
           /\ \A k \in Invoices : byKey[k] \in Attempts \cup {Null}
BY SubmissionAssumption, ErpAssumption, KeyKnown
   DEF PartsInvariant, ErpTypeOK, InvoicesIndexed, At

\* What a step of the ERP keeps once its own promises are kept: the order of
\* events between worker and ERP.
LEMMA CallKeeps ==
    ASSUME PartsInvariant, SubmissionInvariant,
           UNCHANGED <<orderVars, abandoned>>,
           \A r \in Attempts :
              /\ request[r].pc # "unsent" =>
                    /\ request'[r].pc # "unsent"
                    /\ request'[r].key = request[r].key
              /\ At(r, "answered") => At(r, "answered")'
              /\ request'[r].pc \in InFlight =>
                    \/ request[r].pc \in InFlight
                    \/ Holding(r)
              /\ request[r].pc = "unsent" /\ request'[r].pc # "unsent" =>
                    /\ Holding(r)
                    /\ status = "approved" =>
                          request'[r].key = Latest(extractions).invoice
    PROVE  LockIsHeld' /\ PostsHold' /\ PostIsLatest' /\ BillIsAnswered'
<1> USE DEF Holding, At, KeyOf
<1>1. /\ LockIsHeld /\ PostsHold /\ PostIsLatest /\ BillIsAnswered
      /\ UNCHANGED <<status, extractions, rowLock, txn, billed>>
  BY DEF SubmissionInvariant, orderVars
<1>2. LockIsHeld'
  BY <1>1 DEF LockIsHeld
<1>3. PostsHold'
  BY <1>1 DEF PostsHold
<1>4. PostIsLatest'
  BY <1>1 DEF PostIsLatest
<1>5. BillIsAnswered'
  BY <1>1 DEF BillIsAnswered
<1> QED
  BY <1>2, <1>3, <1>4, <1>5

LEMMA PostKeeps ==
    ASSUME PartsInvariant, SubmissionInvariant, NEW w \in Attempts, Post(w)
    PROVE  SubmissionInvariant'
<1> USE DEF Holding, At, KeyOf
<1>1. /\ AwaitedIndexed /\ CreatorIsFirst /\ AwaitedKeysAreUnique
      /\ UNCHANGED <<orderVars, abandoned>>
      /\ Holding(w)
  BY DEF SubmissionInvariant, Post
<1>2. PICK k : /\ Send(w, k)
               /\ status = "approved" => k = Latest(extractions).invoice
  BY DEF Post
<1>3. /\ request[w].pc = "unsent"
      /\ request'[w].pc = "sent"
      /\ request'[w].key = k
      /\ \A r \in Attempts : r # w => request'[r] = request[r]
      /\ UNCHANGED <<byId, byKey>>
  BY <1>2, SubmissionAssumption
     DEF Send, PartsInvariant, ErpTypeOK, Calls
<1>4. byId[w] = Null
  BY <1>3, CallTypes
<1>5. AwaitedIndexed'
  BY <1>1, <1>3, <1>4 DEF AwaitedIndexed
<1>6. CreatorIsFirst'
  BY <1>1, <1>3 DEF CreatorIsFirst
<1>7. AwaitedKeysAreUnique'
  BY <1>1, <1>3 DEF AwaitedKeysAreUnique
<1>8. LockIsHeld' /\ PostsHold' /\ PostIsLatest' /\ BillIsAnswered'
  BY <1>1, <1>2, <1>3, CallKeeps DEF InFlight
<1> QED
  BY <1>5, <1>6, <1>7, <1>8 DEF SubmissionInvariant

\* Two attempts that wait for their answers are one: both hold the lock.
LEMMA OneIsAwaited ==
    ASSUME SubmissionInvariant,
           NEW r \in Attempts \ abandoned, request[r].pc \in InFlight,
           NEW s \in Attempts \ abandoned, request[s].pc \in InFlight
    PROVE  r = s
BY DEF SubmissionInvariant, PostsHold, LockIsHeld, Transactions

LEMMA ServeKeeps ==
    ASSUME PartsInvariant, SubmissionInvariant,
           NEW r \in Attempts, Serve(r), UNCHANGED <<orderVars, abandoned>>
    PROVE  SubmissionInvariant'
<1> USE DEF Holding, At, KeyOf
<1>1. /\ AwaitedIndexed /\ CreatorIsFirst /\ AwaitedKeysAreUnique
      /\ ErpTypeOK /\ r \in Requests
      /\ abandoned' = abandoned
  BY SubmissionAssumption DEF SubmissionInvariant, PartsInvariant
<1>2. /\ request[r].pc \in InFlight
      /\ request'[r].pc \in InFlight \cup {"answered", "refused"}
      /\ request'[r].key = request[r].key
      /\ \A s \in Attempts : s # r => request'[s] = request[s]
  BY <1>1, Stepped, KeyKnown, SubmissionAssumption
     DEF Serve, Replay, Refuse, Start, InsertById, InsertByKey, InFlight
<1>3. LockIsHeld' /\ PostsHold' /\ PostIsLatest' /\ BillIsAnswered'
  BY <1>2, CallKeeps DEF InFlight
<1>4. CASE Replay(r) \/ Refuse(r)
  <2>1. /\ request[r].pc = "sent"
        /\ request'[r].pc \in {"answered", "refused"}
        /\ UNCHANGED <<byId, byKey>>
    BY <1>1, <1>4, Stepped, KeyKnown DEF Replay, Refuse
  <2>2. byId[r] = Null
    BY <2>1, CallTypes
  <2>3. AwaitedIndexed'
    BY <1>1, <1>2, <2>1, <2>2 DEF AwaitedIndexed
  <2>4. CreatorIsFirst' /\ AwaitedKeysAreUnique'
    BY <1>1, <1>2, <2>1 DEF CreatorIsFirst, AwaitedKeysAreUnique
  <2> QED
    BY <1>3, <2>3, <2>4 DEF SubmissionInvariant
<1>5. CASE Start(r)
  <2>1. /\ request[r].pc = "sent" /\ request'[r].pc = "creating"
        /\ byKey[KeyOf(r)] = Null
        /\ UNCHANGED <<byId, byKey>>
    BY <1>1, <1>5, Stepped DEF Start
  <2>2. byId[r] = Null /\ KeyOf(r) # Null
    BY <2>1, CallTypes
  <2>3. AwaitedIndexed'
    BY <1>1, <1>2, <2>1, <2>2 DEF AwaitedIndexed
  <2>4. ASSUME r \notin abandoned, NEW s \in Attempts \ abandoned, s # r
        PROVE  byId[s] # KeyOf(r)
    <3>1. ~At(s, "inserted")
      BY <2>1, <2>4, OneIsAwaited DEF InFlight
    <3> QED
      BY <1>1, <2>1, <2>2, <2>4, <3>1 DEF AwaitedIndexed
  <2>5. CreatorIsFirst'
    BY <1>1, <1>2, <2>1, <2>4 DEF CreatorIsFirst
  <2>6. AwaitedKeysAreUnique'
    BY <1>1, <2>1 DEF AwaitedKeysAreUnique
  <2> QED
    BY <1>3, <2>3, <2>5, <2>6 DEF SubmissionInvariant
<1>6. CASE InsertById(r)
  <2>1. /\ request[r].pc = "creating" /\ request'[r].pc = "inserted"
        /\ UNCHANGED byKey
        /\ byId'[r] = KeyOf(r)
        /\ \A s \in Attempts : s # r => byId'[s] = byId[s]
    BY <1>1, <1>6, Stepped, SubmissionAssumption DEF InsertById, ErpTypeOK
  <2>2. AwaitedIndexed'
    BY <1>1, <1>2, <2>1 DEF AwaitedIndexed
  <2>3. CreatorIsFirst'
    <3> SUFFICES ASSUME NEW p \in Attempts \ abandoned,
                        NEW s \in Attempts \ abandoned, p # s,
                        request'[p].pc \in {"creating", "inserted"}
                 PROVE  byId'[s] # request'[p].key
      BY <1>1 DEF CreatorIsFirst
    <3>1. request[p].pc \in {"creating", "inserted"}
          /\ request'[p].key = request[p].key
      BY <1>2, <2>1
    <3>2. s # r
      BY <2>1, <3>1, OneIsAwaited DEF InFlight
    <3> QED
      BY <1>1, <2>1, <3>1, <3>2 DEF CreatorIsFirst
  <2>4. AwaitedKeysAreUnique'
    <3>1. ASSUME r \notin abandoned, NEW s \in Attempts \ abandoned, s # r
          PROVE  byId[s] # KeyOf(r)
      BY <1>1, <2>1, <3>1 DEF CreatorIsFirst
    <3> QED
      BY <1>1, <2>1, <3>1 DEF AwaitedKeysAreUnique
  <2> QED
    BY <1>3, <2>2, <2>3, <2>4 DEF SubmissionInvariant
<1>7. CASE InsertByKey(r)
  <2>1. /\ request[r].pc = "inserted" /\ request'[r].pc = "answered"
        /\ UNCHANGED byId
        /\ byKey' = [byKey EXCEPT ![KeyOf(r)] = r]
    BY <1>1, <1>7, Stepped DEF InsertByKey
  <2>2. byId[r] = KeyOf(r) /\ KeyOf(r) \in Invoices /\ r # Null
    BY <2>1, CallTypes
  <2>3. byKey \in [Invoices -> Attempts \cup {Null}]
    BY <1>1, SubmissionAssumption DEF ErpTypeOK
  <2>4. \A k \in Invoices :
           byKey[k] # Null \/ k = KeyOf(r) => byKey'[k] # Null
    BY <2>1, <2>2, <2>3
  <2>5. AwaitedIndexed'
    BY <1>1, <1>2, <2>1, <2>2, <2>4, CallTypes DEF AwaitedIndexed
  <2>6. CreatorIsFirst' /\ AwaitedKeysAreUnique'
    BY <1>1, <1>2, <2>1 DEF CreatorIsFirst, AwaitedKeysAreUnique
  <2> QED
    BY <1>3, <2>5, <2>6 DEF SubmissionInvariant
<1> QED
  BY <1>4, <1>5, <1>6, <1>7 DEF Serve

LEMMA RestartKeeps ==
    ASSUME PartsInvariant, SubmissionInvariant,
           Restart, UNCHANGED <<orderVars, abandoned>>
    PROVE  SubmissionInvariant'
<1> USE DEF Holding, At, KeyOf
<1>1. /\ \A r \in Attempts :
            /\ byId'[r] = Null
            /\ request'[r].pc \notin InFlight
            /\ request'[r].pc # "unsent" <=> request[r].pc # "unsent"
            /\ request'[r].key = request[r].key
            /\ request[r].pc = "answered" => request'[r].pc = "answered"
  BY SubmissionAssumption
     DEF Restart, CutOff, PartsInvariant, ErpTypeOK, Calls, InFlight
<1>2. LockIsHeld' /\ PostsHold' /\ PostIsLatest' /\ BillIsAnswered'
  BY <1>1, CallKeeps
<1>3. AwaitedIndexed' /\ AwaitedKeysAreUnique'
  BY <1>1 DEF AwaitedIndexed, AwaitedKeysAreUnique
<1>4. CreatorIsFirst'
  BY <1>1 DEF CreatorIsFirst, InFlight
<1> QED
  BY <1>2, <1>3, <1>4 DEF SubmissionInvariant

LEMMA SubmissionKept ==
    ASSUME PartsInvariant, SubmissionInvariant,
           [SubmissionNext]_submissionVars
    PROVE  SubmissionInvariant'
<1>1. ASSUME NEW x \in Transactions, Undisturbed(x)
      PROVE  SubmissionInvariant'
  <2>1. /\ UNCHANGED erpVars /\ abandoned' = abandoned
        /\ billed' = billed
    BY <1>1 DEF Undisturbed, Begin, Lock, Park, ParkUnreadable, Approve,
                ApproveEdited, Reject, EndCommand
  <2>2. \/ Begin(x) \/ Lock(x)
        \/ /\ Holding(x) /\ End(x)
           /\ x \notin Attempts \/ request[x].pc \notin InFlight
    BY <1>1, OrderAssumption
       DEF Undisturbed, Park, ParkUnreadable, Approve, ApproveEdited, Reject,
           EndCommand, At, InFlight
  <2> QED
    BY <2>1, <2>2, TransactionKeeps
<1>2. ASSUME NEW w \in Attempts, Conclude(w)  PROVE SubmissionInvariant'
  <2>1. /\ w \in Transactions /\ Holding(w) /\ End(w)
        /\ request[w].pc \notin InFlight
        /\ UNCHANGED erpVars /\ abandoned' = abandoned
    BY <1>2 DEF Conclude, AutoSubmit, SubmitApproved, Transactions, At,
                InFlight
  <2>2. At(w, "answered") /\ KeyOf(w) = billed'
    BY <1>2 DEF Conclude, SubmitApproved, SubmissionInvariant, PostIsLatest,
                At
  <2> QED
    BY <2>1, <2>2, TransactionKeeps
<1>3. ASSUME NEW w \in Attempts, Fail(w)  PROVE SubmissionInvariant'
  <2>1. /\ w \in Transactions /\ Holding(w) /\ End(w)
        /\ request[w].pc \notin InFlight \/ w \in abandoned'
        /\ abandoned \subseteq abandoned'
        /\ UNCHANGED erpVars /\ billed' = billed
    BY <1>3 DEF Fail, EndAttempt, Transactions
  <2> QED
    BY <2>1, TransactionKeeps
<1>4. ASSUME NEW w \in Attempts, Post(w)  PROVE SubmissionInvariant'
  BY <1>4, PostKeeps
<1>5. CASE ErpStep
  BY <1>5, ServeKeeps, RestartKeeps, SubmissionAssumption DEF ErpStep
<1>6. CASE UNCHANGED submissionVars
  BY <1>6 DEF submissionVars, orderVars, erpVars, SubmissionInvariant,
     LockIsHeld, PostsHold, AwaitedIndexed, CreatorIsFirst,
     AwaitedKeysAreUnique, PostIsLatest, BillIsAnswered, Holding, At, KeyOf
<1> QED
  BY <1>1, <1>2, <1>3, <1>4, <1>5, <1>6 DEF SubmissionNext

-----------------------------------------------------------------------------
LEMMA PartsStand == SubmissionSpec => [](PartsInvariant /\ AnswersExist)
<1>1. OrderInvariant => OrderTypeOK
  BY DEF OrderInvariant
<1>2. OrderTypeOK /\ ErpTypeOK /\ InvoicesIndexed => PartsInvariant
  BY DEF PartsInvariant
<1> QED
  BY <1>1, <1>2, SubmissionIsOrderly, SubmissionIsErp, OrderInductive,
     ErpTypeCorrect, IndexedInductive, PTL

THEOREM SubmissionInductive == SubmissionSpec => []SubmissionInvariant
BY SubmissionStarts, SubmissionKept, PartsStand, PTL DEF SubmissionSpec

\* The row lock and the key lookup together give the attempts that waited for
\* their answers one invoice for each key, for any number of attempts and
\* reviews, whatever other attempts abandon and when the ERP restarts.
THEOREM AwaitedInvoicesAreUnique == SubmissionSpec => []AwaitedKeysAreUnique
<1>1. SubmissionInvariant => AwaitedKeysAreUnique
  BY DEF SubmissionInvariant
<1> QED
  BY <1>1, SubmissionInductive, PTL

\* The invoice a submitted document was billed with was answered to the attempt
\* that submitted it, and is in the ERP until the ERP restarts.
THEOREM BilledInvoiceStands == SubmissionSpec => []BilledStands
<1>1. ASSUME PartsInvariant, SubmissionInvariant, AnswersExist
      PROVE  BilledStands
  BY <1>1, SubmissionAssumption
     DEF SubmissionInvariant, BillIsAnswered, BilledStands, AnswersExist
<1> QED
  BY <1>1, SubmissionInductive, PartsStand, PTL

=============================================================================
