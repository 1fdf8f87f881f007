---------------------------- MODULE QualityGate ----------------------------
(***************************************************************************)
(* python -m llmops.eval.gate: run_evaluation over a golden dataset, the   *)
(* aggregated metrics, and their comparison with the baseline's minima.    *)
(* run_evaluation evaluates all cases and aggregate_metrics then counts    *)
(* them one by one; here a case is counted when it is evaluated.           *)
(***************************************************************************)
EXTENDS BusinessRules

CONSTANTS
    Datasets,  \* sequences of golden cases
    Minimum    \* minimum_metrics: a fraction [num, den] for each metric named

VARIABLES
    dataset,   \* load_dataset
    fixture,   \* baseline or degraded
    matching,  \* the baseline is of the dataset version and provider asked for
    position,  \* cases evaluated
    tally,     \* [num, den] of each metric
    verdict    \* the exit status

gateVars == <<dataset, fixture, matching, position, tally, verdict>>

Metrics == {"schema_validity_rate", "field_accuracy", "decision_accuracy",
            "case_success_rate"}

Init ==
    /\ dataset \in Datasets
    /\ fixture \in {"baseline", "degraded"}
    /\ matching \in BOOLEAN
    /\ position = 0
    /\ tally = [metric \in Metrics |-> [num |-> 0, den |-> 0]]
    /\ verdict = None

-----------------------------------------------------------------------------
(***************************************************************************)
(* One case: the provider, then evaluate_case.                             *)
(***************************************************************************)
\* FakeLLMProvider._success_payload, as score_fields normalises it.
Success == [
    supplier_name      |-> "acme supplies gmbh",
    supplier_id        |-> "sup-acme-001",
    purchase_order_id  |-> "po-1001",
    invoice_number     |-> "inv-1001",
    currency           |-> "EUR",
    total_amount       |-> 12550,
    line_items         |-> <<
        [quantity |-> 500, unit_price |-> 1000, line_total |-> 5000],
        [quantity |-> 100, unit_price |-> 7550, line_total |-> 7550]>>,
    overall_confidence |-> 96]

\* The payloads of the scenarios that parse; the others miss a field or hold
\* a total that is no number, a ProviderOutputError.
Read == [
    success              |-> Success,
    low_confidence       |-> [Success EXCEPT !.overall_confidence = 42],
    unsupported_currency |-> [Success EXCEPT !.currency = "GBP"],
    invalid_total        |-> [Success EXCEPT !.total_amount = 99999]]

Unparsable == {"missing_fields", "malformed"}

\* The rules' context when a case overrides nothing.
Context == [
    supported_currencies |-> {"EUR", "USD", "PLN"},
    confidence_threshold |-> 90,
    auto_approval_limit  |-> 100000,
    totals_tolerance     |-> 1,
    supplier_exists      |-> TRUE,
    purchase_order_exists |-> TRUE,
    is_duplicate         |-> FALSE]

Degrade(invoice) ==
    [invoice EXCEPT !.invoice_number = "inv-degraded-wrong",
                    !.total_amount = 100,
                    !.supplier_name = "wrong supplier ltd"]

Extract(scenario) ==
    IF fixture = "degraded" THEN Degrade(Read[scenario]) ELSE Read[scenario]

\* Faulty variant: only what agrees counts as compared.
ScoreAgreeing(expected, invoice) ==
    LET agreeing == {field \in DOMAIN expected :
                        expected[field] = invoice[field]}
    IN  [compared |-> agreeing, correct |-> agreeing]

\* An expected field is compared; it is correct if the invoice agrees.
ScoreFields(expected, invoice) ==
    [compared |-> DOMAIN expected,
     correct  |-> {field \in DOMAIN expected :
                      expected[field] = invoice[field]}]

Unscored == [compared |-> {}, correct |-> {}]

FinalState(decision) ==
    CASE decision = "auto_approve"     -> "submitted"
      [] decision = "needs_review"     -> "needs_review"
      [] decision = "provider_failure" -> "failed"

\* Faulty variant: the decision alone is compared.
DecidedAlike(case, decision) == decision = case.expected_decision

DecidedAsExpected(case, decision) ==
    /\ decision = case.expected_decision
    /\ FinalState(decision) = case.expected_final_state

\* The fields and the decision, when an invoice was read.
Fields(case) ==
    IF case.field_comparison_applicable
        THEN ScoreFields(case.expected_invoice, Extract(case.scenario))
        ELSE Unscored

RuleMatch(case) ==
    DecidedAsExpected(case,
                      DecideWorkflow(Extract(case.scenario), case.context))

EvaluateRead(case) ==
    LET fields  == Fields(case)
        matches == RuleMatch(case)
    IN  [schema  |-> TRUE,
         fields  |-> fields,
         matches |-> matches,
         success |-> /\ fields.correct = fields.compared
                     /\ case.decision_applicable => matches
                     /\ case.expected_error_class = None]

\* ProviderOutputError: as the worker would, to a reviewer.
EvaluateInvalid(case) ==
    [schema  |-> FALSE,
     fields  |-> Unscored,
     matches |-> DecidedAsExpected(case, "needs_review"),
     success |-> /\ case.expected_error_class = "provider_output_error"
                 /\ DecidedAsExpected(case, "needs_review")]

\* RecoverableProviderError, a timeout: success ignores the final state.
EvaluateFailure(case) ==
    [schema  |-> FALSE,
     fields  |-> Unscored,
     matches |-> DecidedAsExpected(case, "provider_failure"),
     success |-> /\ case.expected_error_class = "timeout"
                 /\ case.expected_decision = "provider_failure"]

\* fake_scenario names no scenario: an unexpected_evaluator_error.
EvaluateError(case) ==
    [schema |-> FALSE, fields |-> Unscored, matches |-> FALSE,
     success |-> FALSE]

EvaluateCase(case) ==
    CASE ~case.known_scenario                         -> EvaluateError(case)
      [] case.known_scenario /\ case.scenario \in Unparsable
                                                      -> EvaluateInvalid(case)
      [] case.known_scenario /\ case.scenario = "provider_failure"
                                                      -> EvaluateFailure(case)
      [] OTHER                                        -> EvaluateRead(case)

\* What GoldenCase and the manifest promise of a case: its scenario is one of
\* FakeScenario unless it is not known, and only fields of COMPARISON_FIELDS
\* are compared.
GoldenCase(case) ==
    /\ {case.known_scenario, case.schema_applicable, case.decision_applicable,
        case.field_comparison_applicable} \subseteq BOOLEAN
    /\ case.known_scenario =>
          case.scenario \in DOMAIN Read \cup Unparsable \cup {"provider_failure"}
    /\ DOMAIN case.expected_invoice \subseteq DOMAIN Success

ASSUME GateAssumption ==
    /\ \A data \in Datasets :
          /\ Len(data) \in Nat
          /\ DOMAIN data = 1..Len(data)
          /\ \A i \in DOMAIN data : GoldenCase(data[i])
    /\ DOMAIN Minimum \subseteq Metrics
    /\ \A metric \in DOMAIN Minimum :
          Minimum[metric].num \in Nat /\ Minimum[metric].den \in Nat \ {0}
    /\ None \notin {"PASS", "FAIL", "provider_output_error", "timeout"}

-----------------------------------------------------------------------------
(***************************************************************************)
(* The gate.                                                               *)
(***************************************************************************)
\* evaluate_against_thresholds returns 1 before it evaluates anything.
RefuseBaseline ==
    /\ verdict = None
    /\ ~matching
    /\ verdict' = "FAIL"
    /\ UNCHANGED <<dataset, fixture, matching, position, tally>>

OneIf(condition) == IF condition THEN 1 ELSE 0

\* Faulty variant: schema validity is counted where it does not apply.
ScoresAnySchema(case, result) ==
    [schema_validity_rate |-> <<OneIf(result.schema),
                                OneIf(case.schema_applicable)>>,
     field_accuracy       |-> <<Cardinality(result.fields.correct),
                                Cardinality(result.fields.compared)>>,
     decision_accuracy    |-> <<OneIf(case.decision_applicable /\ result.matches),
                                OneIf(case.decision_applicable)>>,
     case_success_rate    |-> <<OneIf(result.success), 1>>]

\* What a case adds to the numerator and the denominator of each metric.
Scores(case, result) ==
    [schema_validity_rate |-> <<OneIf(case.schema_applicable /\ result.schema),
                                OneIf(case.schema_applicable)>>,
     field_accuracy       |-> <<Cardinality(result.fields.correct),
                                Cardinality(result.fields.compared)>>,
     decision_accuracy    |-> <<OneIf(case.decision_applicable /\ result.matches),
                                OneIf(case.decision_applicable)>>,
     case_success_rate    |-> <<OneIf(result.success), 1>>]

Evaluate ==
    /\ verdict = None
    /\ matching
    /\ position < Len(dataset)
    /\ position' = position + 1
    /\ LET case == dataset[position + 1]
           add  == Scores(case, EvaluateCase(case))
       IN  tally' = [metric \in Metrics |->
                        [num |-> tally[metric].num + add[metric][1],
                         den |-> tally[metric].den + add[metric][2]]]
    /\ UNCHANGED <<dataset, fixture, matching, verdict>>

\* Faulty variant: the rate of nothing is taken for a full one.
ReachesOrEmpty(metric) ==
    LET actual == tally[metric]
    IN  actual.num * Minimum[metric].den >= Minimum[metric].num * actual.den

\* Faulty variant: the minimum itself is not enough.
ReachesAbove(metric) ==
    LET actual == tally[metric]
    IN  /\ actual.den > 0
        /\ actual.num * Minimum[metric].den > Minimum[metric].num * actual.den

\* A rate of nothing is None, which is no number and fails.
Reaches(metric) ==
    LET actual == tally[metric]
    IN  /\ actual.den > 0
        /\ actual.num * Minimum[metric].den >= Minimum[metric].num * actual.den

Compare ==
    /\ verdict = None
    /\ matching
    /\ position = Len(dataset)
    /\ verdict' = IF \A metric \in DOMAIN Minimum : Reaches(metric)
                      THEN "PASS"
                      ELSE "FAIL"
    /\ UNCHANGED <<dataset, fixture, matching, position, tally>>

Next == RefuseBaseline \/ Evaluate \/ Compare

Spec == Init /\ [][Next]_gateVars

-----------------------------------------------------------------------------
(***************************************************************************)
(* Properties.                                                             *)
(***************************************************************************)
\* Numerators stay within denominators: a rate is at most one.
TypeOK ==
    /\ position \in 0..Len(dataset)
    /\ verdict \in {"PASS", "FAIL", None}
    /\ \A metric \in Metrics :
          tally[metric].num \in 0..tally[metric].den

Readable  == DOMAIN Read
Passed    == verdict = "PASS"
Golden(i) == dataset[i]

\* What became of a case whose scenario is known: the class of its error, and
\* the decision.
IsRead(case) == case.known_scenario /\ case.scenario \in Readable

ErrorClass(case) ==
    CASE case.scenario \in Readable          -> None
      [] case.scenario \in Unparsable        -> "provider_output_error"
      [] case.scenario = "provider_failure"  -> "timeout"

Decided(case) ==
    CASE case.scenario \in Readable          ->
            DecideWorkflow(Extract(case.scenario), case.context)
      [] case.scenario \in Unparsable        -> "needs_review"
      [] case.scenario = "provider_failure"  -> "provider_failure"

\* What evaluate_case holds against a case's record: the decision of a case
\* exempt from it counts if nothing was read, its final state if what came
\* could not be parsed.
DecisionCounts(case) == case.decision_applicable \/ case.scenario \notin Readable
StateCounts(case)    == case.decision_applicable \/ case.scenario \in Unparsable

\* "Prevents silent regressions": after a PASS each golden case came out as it
\* is recorded, whatever the averages: with the recorded error or none, the
\* recorded decision and final state where they count, and every expected
\* field of an invoice that was read.
PassIsFaithful ==
    Passed =>
        \A i \in DOMAIN dataset :
            LET case == Golden(i)
            IN  /\ case.known_scenario
                /\ case.expected_error_class = ErrorClass(case)
                /\ DecisionCounts(case) => case.expected_decision = Decided(case)
                /\ StateCounts(case) =>
                      case.expected_final_state = FinalState(Decided(case))
                /\ IsRead(case) /\ case.field_comparison_applicable =>
                      \A field \in DOMAIN case.expected_invoice :
                          case.expected_invoice[field]
                              = Extract(case.scenario)[field]

\* The points a metric asks of a case, and those the case wins: once for the
\* case, or once for each field its record expects of an invoice.
Asked(case, metric) ==
    CASE metric = "schema_validity_rate" ->
            {point \in {metric} : case.schema_applicable}
      [] metric = "decision_accuracy" ->
            {point \in {metric} : case.decision_applicable}
      [] metric = "case_success_rate" -> {metric}
      [] metric = "field_accuracy" ->
            {field \in DOMAIN case.expected_invoice :
                IsRead(case) /\ case.field_comparison_applicable}

Wins(case, metric, point) ==
    CASE metric = "schema_validity_rate" -> IsRead(case)
      [] metric = "decision_accuracy"    -> EvaluateCase(case).matches
      [] metric = "case_success_rate"    -> EvaluateCase(case).success
      [] metric = "field_accuracy"       ->
            case.expected_invoice[point] = Extract(case.scenario)[point]

\* The points of the first cases of the dataset, each named by its case.
PointsAsked(metric, cases) ==
    UNION {{i} \X Asked(Golden(i), metric) : i \in 1..cases}
PointsWon(metric, cases) ==
    {entry \in PointsAsked(metric, cases) :
        Wins(Golden(entry[1]), metric, entry[2])}

\* The verdict is neither lenient nor strict: PASS if and only if the baseline
\* is the one asked for and every metric with a minimum, taken at once over
\* all points of the dataset, is a rate of something and reaches it, equality
\* included (aggregate_metrics, evaluate_against_thresholds).
VerdictIsExact ==
    verdict # None =>
        (Passed <=>
            /\ matching
            /\ \A metric \in DOMAIN Minimum :
                  LET asked == Cardinality(PointsAsked(metric, Len(dataset)))
                      won   == Cardinality(PointsWon(metric, Len(dataset)))
                  IN  /\ asked > 0
                      /\ won * Minimum[metric].den >= Minimum[metric].num * asked)

\* A PASS rests on evidence: for each metric with a minimum some case was
\* counted, though any number of cases may be exempt from it.
PassHasEvidence ==
    Passed =>
        /\ "field_accuracy" \in DOMAIN Minimum =>
              \E i \in DOMAIN dataset :
                  /\ Golden(i).field_comparison_applicable
                  /\ DOMAIN Golden(i).expected_invoice # {}
                  /\ Golden(i).scenario \in Readable
        /\ "decision_accuracy" \in DOMAIN Minimum =>
              \E i \in DOMAIN dataset : Golden(i).decision_applicable
        /\ "schema_validity_rate" \in DOMAIN Minimum =>
              \E i \in DOMAIN dataset : Golden(i).schema_applicable

\* "Degraded fixture mode must fail the gate": if one invoice read is compared
\* in a field the fixture spoils.
DegradedFails ==
    Passed /\ fixture = "degraded" =>
        \A i \in DOMAIN dataset :
            /\ Golden(i).scenario \in Readable
            /\ Golden(i).field_comparison_applicable
            => DOMAIN Golden(i).expected_invoice \cap
                  {"invoice_number", "total_amount", "supplier_name"} = {}

=============================================================================
