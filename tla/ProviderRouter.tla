--------------------------- MODULE ProviderRouter ---------------------------
(***************************************************************************)
(* One extraction as services/worker/providers makes it: call_with_retries *)
(* around each call, the corrective attempt of LocalQwenProvider.extract   *)
(* and GeminiProvider.extract, and the fallback of ProviderRouter.extract. *)
(* The worker sees only the outcome, which is one of Worker's actions:     *)
(*   invoice    Extract            output  ParkUnreadable                  *)
(*   transient  ProviderTransient  fatal   ExtractionFails                 *)
(***************************************************************************)
EXTENDS Naturals

CONSTANTS
    LlmMaxRetries,  \* settings.llm_max_retries
    Classes,        \* RECOVERABLE_ERROR_CLASSES
    None            \* no error, no answer, no provider

ASSUME RouterAssumption ==
    /\ LlmMaxRetries \in Nat
    /\ Classes \cap {None, "invoice", "output", "fatal"} = {}
    /\ None \notin {"primary", "fallback",
                  "invoice", "output", "transient", "fatal"}

VARIABLES
    hasFallback,  \* a fallback is configured and enabled; fixed for a process
    asking,       \* the provider in use, None between two extractions
    correcting,   \* in the corrective attempt
    attempt,      \* call_with_retries' counter
    reason,       \* the primary's error, once the fallback is in use
    outcome,      \* what the last extraction returned or raised
    trail         \* history: calls made to each provider and the last answer

routerVars ==
    <<hasFallback, asking, correcting, attempt, reason, outcome, trail>>

Providers == {"primary", "fallback"}

\* What a call comes to: text that validates, text that does not (or none),
\* a recoverable error by its class, any other error.
Answers == {"invoice", "output", "fatal"} \cup Classes

\* A call is of a provider, in its first attempt or in its corrective one.
Calls     == Providers \X BOOLEAN
NoCalls   == [call \in Calls |-> [made |-> 0, last |-> None]]
NoOutcome == [kind |-> None, provider |-> None, reason |-> None]

Init ==
    /\ hasFallback \in BOOLEAN
    /\ asking = None
    /\ correcting = FALSE
    /\ attempt = 0
    /\ reason = None
    /\ outcome = NoOutcome
    /\ trail = NoCalls

-----------------------------------------------------------------------------
\* The provider in use gives answer a.
Receive(a) ==
    trail' = [trail EXCEPT ![<<asking, correcting>>] =
                              [made |-> @.made + 1, last |-> a]]

\* The extraction is over; fallback_reason goes with a result only.
Finish(kind) ==
    /\ outcome' = [kind |-> kind, provider |-> asking,
                   reason |-> IF kind = "invoice" THEN reason ELSE None]
    /\ asking' = None
    /\ UNCHANGED <<hasFallback, correcting, attempt, reason>>

Begin ==
    /\ asking = None
    /\ asking' = "primary"
    /\ correcting' = FALSE
    /\ attempt' = 0
    /\ reason' = None
    /\ outcome' = NoOutcome
    /\ trail' = NoCalls
    /\ UNCHANGED hasFallback

ReturnInvoice ==
    /\ asking # None
    /\ Receive("invoice")
    /\ Finish("invoice")

\* Faulty variants: one retry counter for both attempts; correction for ever.
CorrectOnOldCount ==
    /\ asking # None
    /\ ~correcting
    /\ Receive("output")
    /\ correcting' = TRUE
    /\ UNCHANGED <<hasFallback, asking, attempt, reason, outcome>>

CorrectAgain ==
    /\ asking # None
    /\ trail' = [trail EXCEPT
                    ![<<asking, correcting>>].last = "output",
                    ![<<asking, TRUE>>] = [made |-> 0, last |-> "output"]]
    /\ correcting' = TRUE
    /\ attempt' = 0
    /\ UNCHANGED <<hasFallback, asking, reason, outcome>>

\* A first ProviderOutputError is sent back with the validation errors, and
\* call_with_retries starts anew.
Correct ==
    /\ asking # None
    /\ ~correcting
    /\ Receive("output")
    /\ correcting' = TRUE
    /\ attempt' = 0
    /\ UNCHANGED <<hasFallback, asking, reason, outcome>>

\* Faulty variant: invalid output is not sent back.
RaiseFirstOutputError ==
    /\ asking # None
    /\ Receive("output")
    /\ Finish("output")

\* A second one is raised; the router does not catch it.
RaiseOutputError ==
    /\ asking # None
    /\ correcting
    /\ Receive("output")
    /\ Finish("output")

RaiseFatal ==
    /\ asking # None
    /\ Receive("fatal")
    /\ Finish("fatal")

\* Faulty variant: an off-by-one in call_with_retries.
RetryOnceMore ==
    /\ asking # None
    /\ attempt <= LlmMaxRetries
    /\ \E class \in Classes : Receive(class)
    /\ attempt' = attempt + 1
    /\ UNCHANGED <<hasFallback, asking, correcting, reason, outcome>>

RetryCall ==
    /\ asking # None
    /\ attempt < LlmMaxRetries
    /\ \E class \in Classes : Receive(class)
    /\ attempt' = attempt + 1
    /\ UNCHANGED <<hasFallback, asking, correcting, reason, outcome>>

\* Faulty variant: the reason is not kept.
FallBackUnnamed ==
    /\ asking = "primary"
    /\ hasFallback
    /\ attempt >= LlmMaxRetries
    /\ \E class \in Classes : Receive(class)
    /\ asking' = "fallback"
    /\ correcting' = FALSE
    /\ attempt' = 0
    /\ UNCHANGED <<hasFallback, reason, outcome>>

\* The primary is out of retries and there is a fallback.
FallBack ==
    /\ asking = "primary"
    /\ hasFallback
    /\ attempt >= LlmMaxRetries
    /\ \E class \in Classes :
          /\ Receive(class)
          /\ reason' = class
    /\ asking' = "fallback"
    /\ correcting' = FALSE
    /\ attempt' = 0
    /\ UNCHANGED <<hasFallback, outcome>>

RaiseTransient ==
    /\ asking # None
    /\ asking = "fallback" \/ ~hasFallback
    /\ attempt >= LlmMaxRetries
    /\ \E class \in Classes : Receive(class)
    /\ Finish("transient")

Step ==
    \/ ReturnInvoice \/ Correct \/ RaiseOutputError \/ RaiseFatal
    \/ RetryCall \/ FallBack \/ RaiseTransient

Next == Begin \/ Step

Spec == Init /\ [][Next]_routerVars

\* A call is answered, by its timeout if need be; Begin is the worker's.
FairSpec == Spec /\ WF_routerVars(Step)

-----------------------------------------------------------------------------
(***************************************************************************)
(* Properties.                                                             *)
(***************************************************************************)
TypeOK ==
    /\ hasFallback \in BOOLEAN
    /\ asking \in Providers \cup {None}
    /\ correcting \in BOOLEAN
    /\ attempt \in 0..LlmMaxRetries
    /\ reason \in Classes \cup {None}
    /\ outcome \in [kind     : {"invoice", "output", "transient", "fatal", None},
                    provider : Providers \cup {None},
                    reason   : Classes \cup {None}]
    /\ trail \in [Calls -> [made : Nat, last : Answers \cup {None}]]

\* A provider is called at most LlmMaxRetries + 1 times in each of its two
\* attempts, so the row lock the worker holds meanwhile is held for a bounded
\* time (call_with_retries within LocalQwenProvider and GeminiProvider).
CallsBounded == \A call \in Calls : trail[call].made <= LlmMaxRetries + 1

\* The last answer of this provider was recoverable, and no retry was left.
GaveUp(provider, class) ==
    \E correction \in BOOLEAN :
        /\ trail[<<provider, correction>>].made = LlmMaxRetries + 1
        /\ trail[<<provider, correction>>].last = class

\* The worker counts an attempt as transient only when every provider it has
\* was asked as often as allowed and answered with a recoverable error: none
\* is skipped and none gives up early (ProviderRouter.extract).
TransientIsExhausted ==
    outcome.kind = "transient" =>
        \A provider \in (IF hasFallback THEN Providers ELSE {"primary"}) :
            \E class \in Classes : GaveUp(provider, class)

\* A document is parked as unreadable only after the same provider has given
\* invalid output twice, the second time with the validation errors at hand
\* ("one corrective extraction attempt after invalid structured output").
ParkedAfterCorrection ==
    outcome.kind = "output" =>
        \A correction \in BOOLEAN :
            trail[<<outcome.provider, correction>>].last = "output"

\* The fallback_reason stored with an extraction is the error the primary
\* gave up with, and an extraction without one is the primary's own.
ReasonIsPrimarys ==
    outcome.kind = "invoice" =>
        IF outcome.provider = "primary"
            THEN /\ outcome.reason = None
                 /\ \A correction \in BOOLEAN :
                        trail[<<"fallback", correction>>].made = 0
            ELSE /\ outcome.reason \in Classes
                 /\ GaveUp("primary", outcome.reason)

\* An extraction returns or raises, however the providers answer.
Answered == asking # None ~> asking = None

=============================================================================
