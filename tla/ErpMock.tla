------------------------------ MODULE ErpMock ------------------------------
(***************************************************************************)
(* create_invoice of services/erp_mock/app.py.  FastAPI runs it in a pool  *)
(* of threads, so two requests may take their steps in any order, and a    *)
(* request goes on after its client has timed out or died.  The two        *)
(* dictionaries live in the process: a restart empties them.               *)
(***************************************************************************)
EXTENDS Naturals

CONSTANTS
    Requests,    \* the POSTs clients ever send; uuid4 gives each an id of its own
    Keys,        \* values of the Idempotency-Key header
    Null,        \* no key, no invoice
    MaxRestarts  \* bound on restarts of the container

ASSUME ErpAssumption ==
    /\ Null \notin Requests \cup Keys
    /\ MaxRestarts \in Nat

VARIABLES
    request,   \* of each request: its step, key, supplier, answer
    byId,      \* invoices_by_id: the key of the invoice a request has created
    byKey,     \* invoices_by_idempotency: the invoice of a key
    restarts

erpVars == <<request, byId, byKey, restarts>>

\* Whether the mock knows the supplier an invoice names.
Suppliers == {"known", "unknown"}

InFlight == {"sent", "creating", "inserted"}

\* got is the invoice answered, epoch the restarts there had been by then.
Unsent == [pc |-> "unsent", key |-> Null, supplier |-> "unknown",
           got |-> Null, epoch |-> 0]

Calls ==
    {call \in [pc : InFlight \cup {"unsent", "answered", "refused", "lost"},
               key : Keys \cup {Null},
               supplier : Suppliers,
               got : Requests \cup {Null},
               epoch : 0..MaxRestarts] :
        /\ call.key # Null <=> call.pc # "unsent"
        /\ call.got # Null <=> call.pc = "answered"}

ErpInit ==
    /\ request = [r \in Requests |-> Unsent]
    /\ byId = [r \in Requests |-> Null]
    /\ byKey = [k \in Keys |-> Null]
    /\ restarts = 0

At(r, pc) == request[r].pc = pc
KeyOf(r)  == request[r].key
Goto(r, pc) == request' = [request EXCEPT ![r] = [@ EXCEPT !.pc = pc]]

Answer(r, invoice) ==
    request' = [request EXCEPT ![r] =
                   [@ EXCEPT !.pc = "answered", !.got = invoice,
                             !.epoch = restarts]]

-----------------------------------------------------------------------------
\* A worker posts an invoice, whatever has become of earlier requests of the
\* key; the payload's supplier may be unknown here.
Send(r, k) ==
    /\ At(r, "unsent")
    /\ \E supplier \in Suppliers :
          request' = [request EXCEPT ![r] =
                         [@ EXCEPT !.pc = "sent", !.key = k,
                                   !.supplier = supplier]]
    /\ UNCHANGED <<byId, byKey, restarts>>

\* The key is known: the invoice it has is the answer.
Replay(r) ==
    /\ At(r, "sent")
    /\ byKey[KeyOf(r)] # Null
    /\ Answer(r, byKey[KeyOf(r)])
    /\ UNCHANGED <<byId, byKey, restarts>>

\* HTTP 400, which leaves no trace.
Refuse(r) ==
    /\ At(r, "sent")
    /\ byKey[KeyOf(r)] = Null
    /\ request[r].supplier = "unknown"
    /\ Goto(r, "refused")
    /\ UNCHANGED <<byId, byKey, restarts>>

\* Faulty variant: the key is not looked up.
StartUnchecked(r) ==
    /\ At(r, "sent")
    /\ request[r].supplier = "known"
    /\ Goto(r, "creating")
    /\ UNCHANGED <<byId, byKey, restarts>>

\* The lookup misses; what other threads insert from here on is not seen.
Start(r) ==
    /\ At(r, "sent")
    /\ byKey[KeyOf(r)] = Null
    /\ request[r].supplier = "known"
    /\ Goto(r, "creating")
    /\ UNCHANGED <<byId, byKey, restarts>>

InsertById(r) ==
    /\ At(r, "creating")
    /\ byId' = [byId EXCEPT ![r] = KeyOf(r)]
    /\ Goto(r, "inserted")
    /\ UNCHANGED <<byKey, restarts>>

\* Faulty variant: the index of keys is not written.
AnswerUnindexed(r) ==
    /\ At(r, "inserted")
    /\ Answer(r, r)
    /\ UNCHANGED <<byId, byKey, restarts>>

InsertByKey(r) ==
    /\ At(r, "inserted")
    /\ byKey' = [byKey EXCEPT ![KeyOf(r)] = r]
    /\ Answer(r, r)
    /\ UNCHANGED <<byId, restarts>>

\* What is in flight is cut off.
CutOff ==
    request' = [r \in Requests |->
                   IF request[r].pc \in InFlight
                       THEN [request[r] EXCEPT !.pc = "lost"]
                       ELSE request[r]]

\* Faulty variant: the invoices survive, the index of their keys does not.
RestartKeepsInvoices ==
    /\ restarts < MaxRestarts
    /\ restarts' = restarts + 1
    /\ byKey' = [k \in Keys |-> Null]
    /\ CutOff
    /\ UNCHANGED byId

Restart ==
    /\ restarts < MaxRestarts
    /\ restarts' = restarts + 1
    /\ byId' = [r \in Requests |-> Null]
    /\ byKey' = [k \in Keys |-> Null]
    /\ CutOff

Serve(r) ==
    Replay(r) \/ Refuse(r) \/ Start(r) \/ InsertById(r) \/ InsertByKey(r)

ErpNext ==
    \/ Restart
    \/ \E r \in Requests : Serve(r) \/ \E k \in Keys : Send(r, k)

ErpSpec == ErpInit /\ [][ErpNext]_erpVars

-----------------------------------------------------------------------------
(***************************************************************************)
(* Properties.                                                             *)
(***************************************************************************)
\* Every call carries a key from when it is sent, and an answer names an
\* invoice, which nothing else does.
ErpTypeOK ==
    /\ request \in [Requests -> Calls]
    /\ byId \in [Requests -> Keys \cup {Null}]
    /\ byKey \in [Keys -> Requests \cup {Null}]
    /\ restarts \in 0..MaxRestarts

\* "FastAPI service with idempotent invoice submission": two invoices never
\* have one key (invoices_by_id, which /_debug/invoice_count counts).
OneInvoicePerKey ==
    \A r, s \in Requests : byId[r] # Null /\ byId[r] = byId[s] => r = s

\* The invoice a client was answered is there, under the client's key, and the
\* key is known: it may be no longer the one a replay is answered with.
AnswersExist ==
    \A r \in Requests :
        At(r, "answered") /\ request[r].epoch = restarts =>
            /\ byId[request[r].got] = KeyOf(r)
            /\ byKey[KeyOf(r)] # Null

\* The key is known and no request of it is past the lookup and unanswered.
Settled(k) ==
    /\ byKey[k] # Null
    /\ \A r \in Requests :
          KeyOf(r) = k => request[r].pc \notin {"creating", "inserted"}

InvoicesOf(k) == {r \in Requests : byId[r] = k}

\* Until a restart a settled key gets no further invoice, and its answer stays
\* the same, whatever overlaps from then on.
SettledKeysStay ==
    [][\A k \in Keys : Settled(k) =>
          \/ Restart
          \/ /\ Settled(k)'
             /\ byKey'[k] = byKey[k]
             /\ InvoicesOf(k)' = InvoicesOf(k)]_erpVars

=============================================================================
