--------------------------- MODULE MCQualityGate ---------------------------
(***************************************************************************)
(* The golden dataset v1 with its baseline, v1 with one case exchanged,    *)
(* and datasets of at most two cases.                                      *)
(***************************************************************************)
EXTENDS QualityGate, SequencesExt

\* v1_fake_baseline.json.
Baseline == [
    schema_validity_rate |-> [num |-> 11, den |-> 13],
    field_accuracy       |-> [num |-> 1, den |-> 1],
    decision_accuracy    |-> [num |-> 1, den |-> 1],
    case_success_rate    |-> [num |-> 1, den |-> 1]]

\* A case as GoldenCase records it when everything applies.
ReadCase(scenario, decision, state, context) == [
    known_scenario              |-> TRUE,
    scenario                    |-> scenario,
    expected_invoice            |-> Read[scenario],
    expected_decision           |-> decision,
    expected_final_state        |-> state,
    expected_error_class        |-> None,
    schema_applicable           |-> TRUE,
    field_comparison_applicable |-> TRUE,
    decision_applicable         |-> TRUE,
    context                     |-> context]

Parked(scenario, context) ==
    ReadCase(scenario, "needs_review", "needs_review", context)

Clean     == ReadCase("success", "auto_approve", "submitted", Context)
NoInvoice == [field \in {} |-> None]

Unreadable(scenario) ==
    [Parked("success", Context) EXCEPT
        !.scenario = scenario,
        !.expected_invoice = NoInvoice,
        !.expected_error_class = "provider_output_error",
        !.field_comparison_applicable = FALSE]

Outage ==
    [Unreadable("provider_failure") EXCEPT
        !.expected_decision = "provider_failure",
        !.expected_final_state = "failed",
        !.expected_error_class = "timeout",
        !.schema_applicable = FALSE]

\* llmops/datasets/v1, in the order of its manifest.
V1 == <<
    Clean, Clean,
    Parked("low_confidence", Context),
    Unreadable("missing_fields"),
    Parked("invalid_total", Context),
    Parked("unsupported_currency", Context),
    Parked("success", [Context EXCEPT !.supplier_exists = FALSE]),
    Parked("success", [Context EXCEPT !.purchase_order_exists = FALSE]),
    Parked("success", [Context EXCEPT !.is_duplicate = TRUE]),
    Unreadable("malformed"),
    Outage,
    Parked("success", [Context EXCEPT !.auto_approval_limit = 5000]),
    Clean,
    Parked("low_confidence", Context)>>

\* Cases a dataset may also hold: a metric that does not apply, an
\* expectation that is wrong or partial, a scenario nobody knows.
Odd == {
    [Clean EXCEPT !.known_scenario = FALSE],
    [Clean EXCEPT !.known_scenario = FALSE, !.schema_applicable = FALSE],
    [Clean EXCEPT !.decision_applicable = FALSE],
    [Clean EXCEPT !.field_comparison_applicable = FALSE],
    [Clean EXCEPT !.schema_applicable = FALSE],
    [Clean EXCEPT !.expected_invoice = NoInvoice],
    [Clean EXCEPT !.expected_invoice = [currency |-> "EUR"]],
    [Clean EXCEPT !.expected_invoice.supplier_id = None],
    [Clean EXCEPT !.expected_final_state = "needs_review"],
    [Parked("success", Context) EXCEPT !.decision_applicable = FALSE],
    [Parked("success", Context) EXCEPT !.expected_invoice = [currency |-> "EUR"]],
    [Parked("low_confidence", Context) EXCEPT
        !.expected_error_class = "provider_output_error"],
    [Unreadable("malformed") EXCEPT !.expected_error_class = None],
    [Unreadable("malformed") EXCEPT !.schema_applicable = FALSE],
    [Outage EXCEPT !.expected_error_class = "rate_limit"],
    [Outage EXCEPT !.expected_final_state = "submitted"],
    [Outage EXCEPT !.decision_applicable = FALSE],
    [Clean EXCEPT !.scenario = "provider_failure"]}

Goldens == Range(V1) \cup Odd

AllDatasets ==
    {V1} \cup {ReplaceAt(V1, i, case) : i \in DOMAIN V1, case \in Odd}
         \cup {<<case>> : case \in Goldens}
         \cup {<<case, other>> : case, other \in Goldens}

\* "make quality-gate": the shipped dataset passes its baseline to the last
\* case, with a schema validity of exactly the minimum.
ShippedBaselinePasses ==
    verdict # None /\ dataset = V1 /\ fixture = "baseline" /\ matching =>
        verdict = "PASS"

=============================================================================
