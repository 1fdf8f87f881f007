---------------------------- MODULE RouterProofs ----------------------------
(***************************************************************************)
(* The safety properties of ProviderRouter for any number of retries and   *)
(* any recoverable error classes.                                          *)
(***************************************************************************)
EXTENDS ProviderRouter, TLAPS

\* No call was made to the provider in this attempt.
Untried(provider, correction) == trail[<<provider, correction>>].made = 0

\* While the primary is in use nobody has asked the fallback; once the
\* fallback is in use the primary has given up with the reason.
Chain(provider, why) ==
    /\ provider = "primary" =>
          /\ why = None
          /\ \A correction \in BOOLEAN : Untried("fallback", correction)
    /\ provider = "fallback" =>
          /\ hasFallback
          /\ why \in Classes
          /\ GaveUp("primary", why)

\* The retry counter is the number of calls of the attempt in progress.
Counting ==
    asking # None =>
        /\ outcome.kind = None
        /\ trail[<<asking, correcting>>].made = attempt
        /\ correcting => trail[<<asking, FALSE>>].last = "output"
        /\ ~correcting => Untried(asking, TRUE)
        /\ Chain(asking, reason)

\* A result's reason is the chain's; other outcomes hold for themselves.
Finished ==
    outcome.kind = "invoice" =>
        /\ outcome.provider \in Providers
        /\ Chain(outcome.provider, outcome.reason)

RouterInvariant ==
    /\ TypeOK
    /\ CallsBounded
    /\ TransientIsExhausted
    /\ ParkedAfterCorrection
    /\ Counting
    /\ Finished

-----------------------------------------------------------------------------
\* An answer is entered for the call in progress and for no other.
LEMMA Received ==
    ASSUME TypeOK, asking # None, NEW a \in Answers, Receive(a)
    PROVE  /\ trail' \in [Calls -> [made : Nat, last : Answers \cup {None}]]
           /\ <<asking, correcting>> \in Calls
           /\ trail'[<<asking, correcting>>].made =
                 trail[<<asking, correcting>>].made + 1
           /\ trail'[<<asking, correcting>>].last = a
           /\ \A call \in Calls :
                 call # <<asking, correcting>> => trail'[call] = trail[call]
<1>1. <<asking, correcting>> \in Calls
  BY DEF TypeOK, Calls
<1>2. trail[<<asking, correcting>>] \in [made : Nat, last : Answers \cup {None}]
  BY <1>1 DEF TypeOK
<1>. QED
  BY <1>1, <1>2 DEF TypeOK, Receive

\* Every action keeps its types; the counter stays within the retries.
LEMMA RouterTypes ==
    ASSUME TypeOK, [Next]_routerVars
    PROVE  TypeOK'
<1>. USE RouterAssumption DEF TypeOK, Providers, Answers
<1>1. CASE Begin
  <2>1. trail' \in [Calls -> [made : Nat, last : Answers \cup {None}]]
    BY <1>1 DEF Begin, NoCalls
  <2>2. attempt' \in 0..LlmMaxRetries
    BY <1>1 DEF Begin
  <2>. QED
    BY <1>1, <2>1, <2>2, Zenon DEF Begin, NoOutcome
<1>2. CASE ReturnInvoice
  BY <1>2, Received DEF ReturnInvoice, Finish
<1>3. CASE Correct
  BY <1>3, Received DEF Correct
<1>4. CASE RaiseOutputError
  BY <1>4, Received DEF RaiseOutputError, Finish
<1>5. CASE RaiseFatal
  BY <1>5, Received DEF RaiseFatal, Finish
<1>6. CASE RetryCall
  <2>1. trail' \in [Calls -> [made : Nat, last : Answers \cup {None}]]
    BY <1>6, Received DEF RetryCall
  <2>2. attempt' \in 0..LlmMaxRetries
    BY <1>6 DEF RetryCall
  <2>. QED
    BY <1>6, <2>1, <2>2, Zenon DEF RetryCall
<1>7. CASE FallBack
  <2>1. trail' \in [Calls -> [made : Nat, last : Answers \cup {None}]]
    BY <1>7, Received DEF FallBack
  <2>2. attempt' \in 0..LlmMaxRetries
    BY <1>7 DEF FallBack
  <2>. QED
    BY <1>7, <2>1, <2>2, Zenon DEF FallBack
<1>8. CASE RaiseTransient
  BY <1>8, Received DEF RaiseTransient, Finish
<1>9. CASE UNCHANGED routerVars
  BY <1>9 DEF routerVars
<1>. QED
  BY <1>1, <1>2, <1>3, <1>4, <1>5, <1>6, <1>7, <1>8, <1>9 DEF Next, Step

\* What a step knows when the provider in use has answered a: the answer is
\* the last of at most LlmMaxRetries + 1 of this attempt, and neither the
\* other attempt's calls nor the other provider's are touched.
LEMMA Entered ==
    ASSUME RouterInvariant, asking # None, NEW a \in Answers, Receive(a)
    PROVE  /\ CallsBounded'
           /\ trail'[<<asking, correcting>>].made = attempt + 1
           /\ trail'[<<asking, correcting>>].last = a
           /\ correcting => trail'[<<asking, FALSE>>].last = "output"
           /\ ~correcting => trail'[<<asking, TRUE>>].made = 0
           /\ asking = "primary" =>
                 \A correction \in BOOLEAN :
                    trail'[<<"fallback", correction>>].made = 0
           /\ asking = "fallback" =>
                 \A correction \in BOOLEAN :
                    trail'[<<"primary", correction>>]
                        = trail[<<"primary", correction>>]
<1>. DEFINE here == <<asking, correcting>>
<1>1. /\ here \in Calls
      /\ trail'[here].made = trail[here].made + 1
      /\ trail'[here].last = a
      /\ \A call \in Calls : call # here => trail'[call] = trail[call]
  BY Received DEF RouterInvariant
<1>2. trail[here].made = attempt /\ attempt \in 0..LlmMaxRetries
  BY DEF RouterInvariant, Counting, TypeOK
<1>3. trail'[here].made = attempt + 1 /\ attempt + 1 <= LlmMaxRetries + 1
  BY <1>1, <1>2, RouterAssumption
<1>4. CallsBounded'
  BY <1>1, <1>3 DEF RouterInvariant, CallsBounded
<1>5. \A p \in Providers, c \in BOOLEAN :
         <<p, c>> # here => trail'[<<p, c>>] = trail[<<p, c>>]
  BY <1>1 DEF Calls
<1>6. asking \in Providers /\ correcting \in BOOLEAN
  BY DEF RouterInvariant, TypeOK
<1>7. correcting => trail'[<<asking, FALSE>>].last = "output"
  <2>1. correcting => <<asking, FALSE>> # here
    OBVIOUS
  <2>. QED
    BY <2>1, <1>5, <1>6 DEF RouterInvariant, Counting
<1>8. ~correcting => trail'[<<asking, TRUE>>].made = 0
  <2>1. ~correcting => <<asking, TRUE>> # here
    OBVIOUS
  <2>. QED
    BY <2>1, <1>5, <1>6 DEF RouterInvariant, Counting, Untried
<1>9. asking = "primary" =>
         \A c \in BOOLEAN : trail'[<<"fallback", c>>].made = 0
  BY <1>5 DEF RouterInvariant, Counting, Chain, Untried, Providers
<1>10. asking = "fallback" =>
         \A c \in BOOLEAN : trail'[<<"primary", c>>] = trail[<<"primary", c>>]
  BY <1>5 DEF Providers
<1>. QED
  BY <1>1, <1>3, <1>4, <1>7, <1>8, <1>9, <1>10

\* The chain of causes survives an answer of the provider in use.
LEMMA ChainKept ==
    ASSUME RouterInvariant, asking # None, NEW a \in Answers, Receive(a),
           UNCHANGED hasFallback,
           NEW provider, provider = asking, NEW why, why = reason
    PROVE  Chain(provider, why)'
<1>1. provider = "primary" =>
         \A c \in BOOLEAN : trail'[<<"fallback", c>>].made = 0
  BY Entered
<1>2. provider = "fallback" =>
         \A c \in BOOLEAN : trail'[<<"primary", c>>] = trail[<<"primary", c>>]
  BY Entered
<1>3. Chain(provider, why)
  BY DEF RouterInvariant, Counting
<1>. QED
  BY <1>1, <1>2, <1>3 DEF Chain, Untried, GaveUp

\* A provider that gives a recoverable answer with no retry left has given up.
LEMMA GivesUp ==
    ASSUME RouterInvariant, asking # None, NEW class \in Classes, Receive(class),
           attempt >= LlmMaxRetries,
           NEW provider, provider = asking
    PROVE  GaveUp(provider, class)'
<1>1. attempt = LlmMaxRetries
  BY RouterAssumption DEF RouterInvariant, TypeOK
<1>2. /\ trail'[<<provider, correcting>>].made = LlmMaxRetries + 1
      /\ trail'[<<provider, correcting>>].last = class
  BY <1>1, Entered DEF Answers
<1>3. correcting \in BOOLEAN
  BY DEF RouterInvariant, TypeOK
<1>. QED
  BY <1>2, <1>3 DEF GaveUp

\* An extraction that returns or raises leaves nothing in progress to count.
LEMMA Ended ==
    ASSUME asking' = None
    PROVE  Counting'
  BY DEF Counting

\* Every action preserves the invariant.
LEMMA RouterStep ==
    ASSUME RouterInvariant, [Next]_routerVars
    PROVE  RouterInvariant'
<1>1. TypeOK'
  BY RouterTypes DEF RouterInvariant
<1>2. CASE UNCHANGED routerVars
  BY <1>2 DEF routerVars, RouterInvariant, TypeOK, CallsBounded,
     TransientIsExhausted, ParkedAfterCorrection, Counting, Finished, Chain,
     Untried, GaveUp
<1>3. CASE Begin
  <2>1. \A call \in Calls : trail'[call].made = 0
    BY <1>3 DEF Begin, NoCalls
  <2>2. outcome'.kind = None
    BY <1>3 DEF Begin, NoOutcome
  <2>3. CallsBounded'
    BY <2>1, RouterAssumption DEF CallsBounded
  <2>4. Counting'
    BY <1>3, <2>1, <2>2 DEF Begin, Counting, Chain, Untried, Calls, Providers
  <2>. QED
    BY <1>1, <2>2, <2>3, <2>4, RouterAssumption DEF RouterInvariant,
       TransientIsExhausted, ParkedAfterCorrection, Finished
<1>4. CASE ReturnInvoice
  <2>1. /\ outcome' = [kind |-> "invoice", provider |-> asking, reason |-> reason]
        /\ asking # None /\ asking' = None
        /\ Receive("invoice") /\ "invoice" \in Answers
        /\ UNCHANGED hasFallback
    BY <1>4 DEF ReturnInvoice, Finish, Answers
  <2>2. CallsBounded'
    BY <2>1, Entered
  <2>3. Chain(outcome.provider, outcome.reason)'
    BY <2>1, ChainKept
  <2>4. outcome'.provider \in Providers
    BY <2>1 DEF RouterInvariant, TypeOK
  <2>. QED
    BY <1>1, <2>1, <2>2, <2>3, <2>4, Ended DEF RouterInvariant,
       TransientIsExhausted, ParkedAfterCorrection, Finished
<1>5. CASE Correct
  <2>1. /\ asking # None /\ asking' = asking /\ ~correcting
        /\ correcting' = TRUE /\ attempt' = 0
        /\ Receive("output") /\ "output" \in Answers
        /\ UNCHANGED <<hasFallback, reason, outcome>>
    BY <1>5 DEF Correct, Answers
  <2>2. /\ CallsBounded'
        /\ trail'[<<asking, correcting>>].last = "output"
        /\ trail'[<<asking, TRUE>>].made = 0
    BY <2>1, Entered
  <2>3. Chain(asking, reason)'
    BY <2>1, ChainKept
  <2>4. outcome'.kind = None
    BY <2>1 DEF RouterInvariant, Counting
  <2>5. correcting = FALSE
    BY <2>1 DEF RouterInvariant, TypeOK
  <2>6. Counting'
    BY <2>1, <2>2, <2>3, <2>4, <2>5 DEF Counting
  <2>. QED
    BY <1>1, <2>2, <2>4, <2>6, RouterAssumption DEF RouterInvariant,
       TransientIsExhausted, ParkedAfterCorrection, Finished
<1>6. CASE RaiseOutputError
  <2>1. /\ outcome' = [kind |-> "output", provider |-> asking, reason |-> None]
        /\ asking # None /\ asking' = None /\ correcting
        /\ Receive("output") /\ "output" \in Answers
    BY <1>6 DEF RaiseOutputError, Finish, Answers
  <2>2. /\ CallsBounded'
        /\ trail'[<<asking, correcting>>].last = "output"
        /\ trail'[<<asking, FALSE>>].last = "output"
    BY <2>1, Entered
  <2>3. correcting = TRUE
    BY <2>1 DEF RouterInvariant, TypeOK
  <2>4. ParkedAfterCorrection'
    BY <2>1, <2>2, <2>3 DEF ParkedAfterCorrection
  <2>. QED
    BY <1>1, <2>1, <2>2, <2>4, Ended DEF RouterInvariant,
       TransientIsExhausted, Finished
<1>7. CASE RaiseFatal
  <2>1. /\ outcome' = [kind |-> "fatal", provider |-> asking, reason |-> None]
        /\ asking # None /\ asking' = None
        /\ Receive("fatal") /\ "fatal" \in Answers
    BY <1>7 DEF RaiseFatal, Finish, Answers
  <2>2. CallsBounded'
    BY <2>1, Entered
  <2>. QED
    BY <1>1, <2>1, <2>2, Ended DEF RouterInvariant, TransientIsExhausted,
       ParkedAfterCorrection, Finished
<1>8. CASE RetryCall
  <2>1. PICK class \in Classes : Receive(class)
    BY <1>8 DEF RetryCall
  <2>2. /\ asking # None /\ attempt' = attempt + 1 /\ class \in Answers
        /\ UNCHANGED <<hasFallback, asking, correcting, reason, outcome>>
    BY <1>8 DEF RetryCall, Answers
  <2>3. /\ CallsBounded'
        /\ trail'[<<asking, correcting>>].made = attempt + 1
        /\ correcting => trail'[<<asking, FALSE>>].last = "output"
        /\ ~correcting => trail'[<<asking, TRUE>>].made = 0
    BY <2>1, <2>2, Entered
  <2>4. Chain(asking, reason)'
    BY <2>1, <2>2, ChainKept
  <2>5. outcome'.kind = None
    BY <2>2 DEF RouterInvariant, Counting
  <2>6. Counting'
    BY <2>2, <2>3, <2>4, <2>5 DEF Counting, Untried
  <2>. QED
    BY <1>1, <2>3, <2>5, <2>6, RouterAssumption DEF RouterInvariant,
       TransientIsExhausted, ParkedAfterCorrection, Finished
<1>9. CASE FallBack
  <2>1. PICK class \in Classes : Receive(class) /\ reason' = class
    BY <1>9 DEF FallBack
  <2>2. /\ asking = "primary" /\ asking' = "fallback" /\ asking # None
        /\ hasFallback /\ hasFallback' = hasFallback
        /\ attempt >= LlmMaxRetries /\ attempt' = 0 /\ correcting' = FALSE
        /\ UNCHANGED outcome /\ class \in Answers
    BY <1>9, RouterAssumption DEF FallBack, Answers
  <2>3. /\ CallsBounded'
        /\ \A c \in BOOLEAN : trail'[<<"fallback", c>>].made = 0
    BY <2>1, <2>2, Entered
  <2>4. GaveUp("primary", class)'
    BY <2>1, <2>2, GivesUp
  <2>5. outcome'.kind = None
    BY <2>2 DEF RouterInvariant, Counting
  <2>6. Chain(asking, reason)'
    BY <2>1, <2>2, <2>4 DEF Chain
  <2>7. Counting'
    BY <2>2, <2>3, <2>5, <2>6 DEF Counting, Untried
  <2>. QED
    BY <1>1, <2>3, <2>5, <2>7, RouterAssumption DEF RouterInvariant,
       TransientIsExhausted, ParkedAfterCorrection, Finished
<1>10. CASE RaiseTransient
  <2>1. PICK class \in Classes : Receive(class)
    BY <1>10 DEF RaiseTransient
  <2>2. /\ outcome' = [kind |-> "transient", provider |-> asking, reason |-> None]
        /\ asking # None /\ asking' = None
        /\ asking = "fallback" \/ ~hasFallback
        /\ attempt >= LlmMaxRetries /\ class \in Answers
        /\ UNCHANGED <<hasFallback, reason>>
    BY <1>10 DEF RaiseTransient, Finish, Answers
  <2>3. CallsBounded'
    BY <2>1, <2>2, Entered
  <2>4. TransientIsExhausted'
    <3>1. CASE asking = "primary"
      <4>1. GaveUp("primary", class)'
        BY <2>1, <2>2, <3>1, GivesUp
      <4>2. ~hasFallback'
        BY <2>2, <3>1
      <4>. QED
        BY <4>1, <4>2 DEF TransientIsExhausted
    <3>2. CASE asking = "fallback"
      <4>1. GaveUp("fallback", class)'
        BY <2>1, <2>2, <3>2, GivesUp
      <4>2. Chain("fallback", reason)'
        BY <2>1, <2>2, <3>2, ChainKept
      <4>. QED
        BY <4>1, <4>2 DEF TransientIsExhausted, Chain, Providers
    <3>. QED
      BY <2>2, <3>1, <3>2 DEF RouterInvariant, TypeOK, Providers
  <2>. QED
    BY <1>1, <2>2, <2>3, <2>4, Ended DEF RouterInvariant,
       ParkedAfterCorrection, Finished
<1>. QED
  BY <1>2, <1>3, <1>4, <1>5, <1>6, <1>7, <1>8, <1>9, <1>10 DEF Next, Step

\* The properties hold in every state, for any bound on the retries.
THEOREM RouterInductive == Spec => []RouterInvariant
<1>1. Init => RouterInvariant
  <2>. SUFFICES ASSUME Init PROVE RouterInvariant
    OBVIOUS
  <2>1. \A call \in Calls : trail[call] = [made |-> 0, last |-> None]
    BY DEF Init, NoCalls
  <2>2. trail \in [Calls -> [made : Nat, last : Answers \cup {None}]]
    BY DEF Init, NoCalls
  <2>3. attempt \in 0..LlmMaxRetries
    BY RouterAssumption DEF Init
  <2>4. TypeOK
    BY <2>2, <2>3, Zenon DEF Init, TypeOK, NoOutcome
  <2>5. CallsBounded
    BY <2>1, RouterAssumption DEF CallsBounded
  <2>. QED
    BY <2>4, <2>5, RouterAssumption DEF Init, NoOutcome, RouterInvariant,
       TransientIsExhausted, ParkedAfterCorrection, Counting, Finished
<1>. QED
  BY <1>1, RouterStep, PTL DEF Spec

\* At most LlmMaxRetries + 1 calls in an attempt (call_with_retries).
THEOREM RetriesBounded == Spec => []CallsBounded
<1>1. RouterInvariant => CallsBounded
  BY DEF RouterInvariant
<1>. QED
  BY <1>1, RouterInductive, PTL

\* The worker retries a document only after every provider has given up
\* (ProviderRouter.extract).
THEOREM TransientAfterAll == Spec => []TransientIsExhausted
<1>1. RouterInvariant => TransientIsExhausted
  BY DEF RouterInvariant
<1>. QED
  BY <1>1, RouterInductive, PTL

\* Parked means corrected once and still invalid (extract of each provider).
THEOREM ParkedIsCorrected == Spec => []ParkedAfterCorrection
<1>1. RouterInvariant => ParkedAfterCorrection
  BY DEF RouterInvariant
<1>. QED
  BY <1>1, RouterInductive, PTL

\* fallback_reason is the primary's last error, or absent with the primary's
\* own result (model_copy in ProviderRouter.extract).
THEOREM ReasonIsTrue == Spec => []ReasonIsPrimarys
<1>1. RouterInvariant => ReasonIsPrimarys
  BY DEF RouterInvariant, Finished, Chain, Untried, ReasonIsPrimarys, Providers
<1>. QED
  BY <1>1, RouterInductive, PTL

\* The variables of the router keep their types.
THEOREM RouterTypeCorrect == Spec => []TypeOK
<1>1. RouterInvariant => TypeOK
  BY DEF RouterInvariant
<1>. QED
  BY <1>1, RouterInductive, PTL

-----------------------------------------------------------------------------
(***************************************************************************)
(* An extraction comes to an end.                                          *)
(***************************************************************************)
\* The attempts of an extraction not begun yet: the corrective one of the
\* provider in use, and both of the fallback while the primary is in use.
AttemptsLeft ==
    (IF correcting THEN 0 ELSE 1)
        + (IF asking = "primary" /\ hasFallback THEN 2 ELSE 0)

\* The calls the extraction in progress can still make.
CallsLeft ==
    IF asking = None
        THEN 0
        ELSE ((LlmMaxRetries + 1) - attempt) + (LlmMaxRetries + 1) * AttemptsLeft

\* Every answer, whatever it is, brings an extraction nearer to its end: no
\* retry, correction or fallback undoes what was counted before it.
ExtractionDescends ==
    [][asking # None => CallsLeft' \in 0..(CallsLeft - 1)]_routerVars

\* The measure is a number, positive while a call is awaited.
LEMMA CallsLeftType ==
    ASSUME TypeOK
    PROVE  /\ AttemptsLeft \in 0..3
           /\ CallsLeft \in Nat
<1>1. AttemptsLeft \in 0..3
  BY DEF AttemptsLeft
<1>2. (LlmMaxRetries + 1) * AttemptsLeft \in Nat
  BY <1>1, RouterAssumption
<1>. QED
  BY <1>1, <1>2, RouterAssumption DEF CallsLeft, TypeOK

\* An extraction makes at most 4 * (LlmMaxRetries + 1) calls, the bound on
\* the time the worker holds a document's row lock, for any number of retries
\* and any error classes (call_with_retries within ProviderRouter.extract).
THEOREM ExtractionsEnd == Spec => ExtractionDescends
<1>1. ASSUME RouterInvariant, [Next]_routerVars
      PROVE  [asking # None => CallsLeft' \in 0..(CallsLeft - 1)]_routerVars
  <2>. SUFFICES ASSUME Next, asking # None
                PROVE  CallsLeft' \in 0..(CallsLeft - 1)
    BY <1>1
  <2>. DEFINE calls == LlmMaxRetries + 1
  <2>1. /\ calls \in Nat /\ calls > 0
        /\ calls * 0 = 0
        /\ calls * 1 = calls
        /\ calls * 2 = calls + calls
        /\ calls * 3 = calls + calls + calls
    BY RouterAssumption
  <2>2. /\ asking \in Providers
        /\ attempt \in 0..(calls - 1)
        /\ correcting \in BOOLEAN
        /\ hasFallback \in BOOLEAN
    BY <1>1, RouterAssumption DEF RouterInvariant, TypeOK
  <2>3. /\ AttemptsLeft \in 0..3
        /\ CallsLeft = calls - attempt + calls * AttemptsLeft
    BY <1>1, CallsLeftType, Zenon DEF RouterInvariant, CallsLeft
  <2>4. asking' # None => CallsLeft' = calls - attempt' + calls * AttemptsLeft'
    BY Zenon DEF CallsLeft
  <2>5. attempt < LlmMaxRetries => attempt < calls - 1
    BY RouterAssumption, <2>2
  <2>. HIDE DEF calls
  <2>6. CASE asking' = None
    <3>1. CallsLeft' = 0
      BY <2>6 DEF CallsLeft
    <3>2. calls * AttemptsLeft \in Nat
      BY <2>1, <2>3
    <3>. QED
      BY <2>1, <2>2, <2>3, <3>1, <3>2
  <2>7. CASE Correct
    <3>1. /\ ~correcting /\ correcting'
          /\ attempt' = 0
          /\ UNCHANGED <<asking, hasFallback>>
      BY <2>7 DEF Correct
    <3>2. \/ AttemptsLeft = 1 /\ AttemptsLeft' = 0
          \/ AttemptsLeft = 3 /\ AttemptsLeft' = 2
      BY <2>2, <3>1 DEF AttemptsLeft
    <3>3. CallsLeft' = calls - 0 + calls * AttemptsLeft'
      BY <2>4, <3>1
    <3>4. CASE AttemptsLeft = 1
      BY <2>1, <2>2, <2>3, <3>2, <3>3, <3>4
    <3>5. CASE AttemptsLeft = 3
      BY <2>1, <2>2, <2>3, <3>2, <3>3, <3>5
    <3>. QED
      BY <3>2, <3>4, <3>5
  <2>8. CASE RetryCall
    <3>1. /\ attempt < calls - 1
          /\ attempt' = attempt + 1
          /\ UNCHANGED <<asking, correcting, hasFallback>>
      BY <2>8, <2>5 DEF RetryCall
    <3>2. AttemptsLeft' = AttemptsLeft
      BY <3>1 DEF AttemptsLeft
    <3>3. CallsLeft' = calls - (attempt + 1) + calls * AttemptsLeft
      BY <2>4, <3>1, <3>2
    <3>4. calls * AttemptsLeft \in Nat
      BY <2>1, <2>3
    <3>. QED
      BY <2>1, <2>2, <2>3, <3>1, <3>3, <3>4
  <2>9. CASE FallBack
    <3>1. /\ asking = "primary" /\ asking' = "fallback"
          /\ hasFallback
          /\ ~correcting'
          /\ attempt' = 0
      BY <2>9 DEF FallBack
    <3>2. AttemptsLeft \in {2, 3} /\ AttemptsLeft' = 1
      BY <2>2, <3>1 DEF AttemptsLeft
    <3>3. CallsLeft' = calls - 0 + calls * 1
      BY <2>4, <3>1, <3>2, RouterAssumption
    <3>4. CASE AttemptsLeft = 2
      BY <2>1, <2>2, <2>3, <3>3, <3>4
    <3>5. CASE AttemptsLeft = 3
      BY <2>1, <2>2, <2>3, <3>3, <3>5
    <3>. QED
      BY <3>2, <3>4, <3>5
  <2>. QED
    BY <2>6, <2>7, <2>8, <2>9
       DEF Next, Step, Begin, ReturnInvoice, RaiseOutputError, RaiseFatal,
           RaiseTransient, Finish
<1>. QED
  BY <1>1, RouterInductive, PTL DEF Spec, ExtractionDescends

=============================================================================
