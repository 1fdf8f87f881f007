----------------------------- MODULE GateProofs -----------------------------
(***************************************************************************)
(* What a PASS of the quality gate means, for any golden dataset and any   *)
(* minima.                                                                 *)
(*                                                                         *)
(* The gate sees averages only.  A rate of one is an average that no case  *)
(* can have lowered: as long as a metric's numerator equals its            *)
(* denominator, each case counted scored in full (FullSoFar).  And a       *)
(* denominator above zero was raised by some case (Evidence).              *)
(*                                                                         *)
(* That a verdict is exact needs more: the tallies are the numbers of the  *)
(* points asked and won in the cases counted (PointsTallied), each case's  *)
(* points being others than those of the cases before it (Joined).         *)
(***************************************************************************)
EXTENDS QualityGate, FiniteSetTheorems, TLAPS

\* The numerator and the denominator that case i adds to a metric.
Score(i, metric) == Scores(dataset[i], EvaluateCase(dataset[i]))[metric]

\* A rate of one so far: every case so far scored in full.
FullSoFar ==
    \A metric \in Metrics : tally[metric].num = tally[metric].den =>
        \A i \in 1..position : Score(i, metric)[1] = Score(i, metric)[2]

\* A rate of something: some case was counted.
Evidence ==
    \A metric \in Metrics : tally[metric].den > 0 =>
        \E i \in 1..position : Score(i, metric)[2] > 0

PassReaches ==
    Passed => /\ position = Len(dataset)
              /\ \A metric \in DOMAIN Minimum : Reaches(metric)

GateInvariant ==
    /\ dataset \in Datasets
    /\ tally \in [Metrics -> [num : Nat, den : Nat]]
    /\ TypeOK
    /\ FullSoFar
    /\ Evidence
    /\ PassReaches

\* A metric whose minimum is a rate of one, as field_accuracy,
\* decision_accuracy and case_success_rate in v1_fake_baseline.json.
Full(metric) == metric \in DOMAIN Minimum /\ Minimum[metric].num = Minimum[metric].den

-----------------------------------------------------------------------------
(***************************************************************************)
(* One case.                                                               *)
(***************************************************************************)
\* What is correct is among what is compared, which are finitely many fields.
LEMMA FieldsCompared ==
    ASSUME NEW case, GoldenCase(case)
    PROVE  /\ IsFiniteSet(Fields(case).compared)
           /\ Fields(case).correct \subseteq Fields(case).compared
<1>1. IsFiniteSet(DOMAIN case.expected_invoice)
  <2>1. \A S, field : IsFiniteSet(S) => IsFiniteSet(S \cup {field})
    BY FS_AddElement
  <2>2. IsFiniteSet({} \cup {"supplier_name"} \cup {"supplier_id"}
                       \cup {"purchase_order_id"} \cup {"invoice_number"}
                       \cup {"currency"} \cup {"total_amount"} \cup {"line_items"}
                       \cup {"overall_confidence"})
    BY <2>1, FS_EmptySet
  <2>3. DOMAIN case.expected_invoice \subseteq
           {} \cup {"supplier_name"} \cup {"supplier_id"}
              \cup {"purchase_order_id"} \cup {"invoice_number"}
              \cup {"currency"} \cup {"total_amount"} \cup {"line_items"}
              \cup {"overall_confidence"}
    BY DEF GoldenCase, Success
  <2>. QED
    BY <2>2, <2>3, FS_Subset
<1>. QED
  BY <1>1, FS_EmptySet DEF Fields, ScoreFields, Unscored

\* Every case has a known or an unknown scenario, and an unscored result but
\* for an invoice that was read.
LEMMA CaseResults ==
    ASSUME NEW case, GoldenCase(case)
    PROVE  \/ EvaluateCase(case) = EvaluateError(case) /\ ~case.known_scenario
           \/ /\ EvaluateCase(case) = EvaluateInvalid(case)
              /\ case.known_scenario /\ case.scenario \in Unparsable
           \/ /\ EvaluateCase(case) = EvaluateFailure(case)
              /\ case.known_scenario /\ case.scenario = "provider_failure"
           \/ /\ EvaluateCase(case) = EvaluateRead(case)
              /\ case.known_scenario /\ case.scenario \in Readable
BY DEF EvaluateCase, GoldenCase, Unparsable, Readable, Read

\* A case adds at most one full score to a metric: no numerator is more than
\* its denominator.
LEMMA ScoreTyped ==
    ASSUME NEW case, GoldenCase(case), NEW metric \in Metrics
    PROVE  /\ Scores(case, EvaluateCase(case))[metric][1] \in Nat
           /\ Scores(case, EvaluateCase(case))[metric][2] \in Nat
           /\ Scores(case, EvaluateCase(case))[metric][1]
                 <= Scores(case, EvaluateCase(case))[metric][2]
<1>. DEFINE result == EvaluateCase(case)
<1>1. /\ IsFiniteSet(result.fields.compared)
      /\ result.fields.correct \subseteq result.fields.compared
  <2>1. \/ result \in {EvaluateError(case), EvaluateInvalid(case), EvaluateFailure(case)}
        \/ result = EvaluateRead(case)
    BY CaseResults
  <2>. HIDE DEF result
  <2>2. result.fields = Unscored \/ result.fields = Fields(case)
    BY <2>1 DEF EvaluateError, EvaluateInvalid, EvaluateFailure, EvaluateRead
  <2>. QED
    BY <2>2, FieldsCompared, FS_EmptySet DEF Unscored
<1>. HIDE DEF result
<1>2. /\ Cardinality(result.fields.correct) \in Nat
      /\ Cardinality(result.fields.compared) \in Nat
      /\ Cardinality(result.fields.correct) <= Cardinality(result.fields.compared)
  BY <1>1, FS_Subset, FS_CardinalityType
<1>3. \A condition : OneIf(condition) \in {0, 1}
  BY DEF OneIf
<1>4. /\ OneIf(case.schema_applicable /\ result.schema) <= OneIf(case.schema_applicable)
      /\ OneIf(case.decision_applicable /\ result.matches) <= OneIf(case.decision_applicable)
  BY DEF OneIf
<1>5. /\ Scores(case, result)[metric][1] \in Nat
      /\ Scores(case, result)[metric][2] \in Nat
      /\ Scores(case, result)[metric][1] <= Scores(case, result)[metric][2]
  BY <1>2, <1>3, <1>4 DEF Scores, Metrics
<1>. QED
  BY <1>5 DEF result

-----------------------------------------------------------------------------
(***************************************************************************)
(* The averages.                                                           *)
(***************************************************************************)
LEMMA GateInit == Init => GateInvariant
<1>. SUFFICES ASSUME Init
              PROVE  GateInvariant
  OBVIOUS
<1>1. /\ dataset \in Datasets
      /\ position = 0
      /\ tally = [metric \in Metrics |-> [num |-> 0, den |-> 0]]
      /\ verdict = None
  BY DEF Init
<1>2. Len(dataset) \in Nat
  BY <1>1, GateAssumption
<1>3. TypeOK
  BY <1>1, <1>2 DEF TypeOK
<1>. QED
  BY <1>1, <1>3, GateAssumption
  DEF GateInvariant, FullSoFar, Evidence, PassReaches, Passed

\* One more case is added to every metric.
LEMMA EvaluateKeeps ==
    ASSUME GateInvariant, Evaluate
    PROVE  GateInvariant'
<1>. DEFINE i == position + 1
            case == dataset[i]
<1>1. /\ dataset \in Datasets
      /\ position \in 0..Len(dataset)
      /\ Len(dataset) \in Nat
      /\ i \in 1..Len(dataset)
      /\ GoldenCase(case)
      /\ tally \in [Metrics -> [num : Nat, den : Nat]]
      /\ position' = i
      /\ verdict = None
      /\ UNCHANGED <<dataset, fixture, matching, verdict>>
  BY GateAssumption DEF GateInvariant, TypeOK, Evaluate
<1>2. ASSUME NEW metric \in Metrics
      PROVE  /\ tally'[metric].num = tally[metric].num + Score(i, metric)[1]
             /\ tally'[metric].den = tally[metric].den + Score(i, metric)[2]
  BY <1>2 DEF Evaluate, Score
<1>3. \A metric \in Metrics : /\ Score(i, metric)[1] \in Nat
                              /\ Score(i, metric)[2] \in Nat
                              /\ Score(i, metric)[1] <= Score(i, metric)[2]
  BY <1>1, ScoreTyped DEF Score
<1>4. \A k, metric : Score(k, metric)' = Score(k, metric)
  BY <1>1 DEF Score, EvaluateCase, EvaluateError, EvaluateInvalid, EvaluateFailure,
     EvaluateRead, Fields, RuleMatch, Extract
<1>5. \A metric \in Metrics : /\ tally[metric].num \in Nat
                              /\ tally[metric].den \in Nat
                              /\ tally[metric].num <= tally[metric].den
  BY <1>1 DEF GateInvariant, TypeOK
<1>6. tally' \in [Metrics -> [num : Nat, den : Nat]]
  <2>1. tally' = [metric \in Metrics |->
                     [num |-> tally[metric].num + Score(i, metric)[1],
                      den |-> tally[metric].den + Score(i, metric)[2]]]
    BY DEF Evaluate, Score
  <2>. HIDE DEF i
  <2>. QED
    BY <2>1, <1>3, <1>5
<1>. HIDE DEF case
<1>7. TypeOK'
  <2>1. \A metric \in Metrics : tally'[metric].num \in 0..tally'[metric].den
    <3>. SUFFICES ASSUME NEW metric \in Metrics
                  PROVE  tally'[metric].num \in 0..tally'[metric].den
      OBVIOUS
    <3>. HIDE DEF i
    <3>. QED
      BY <1>2, <1>3, <1>5
  <2>. QED
    BY <1>1, <2>1 DEF TypeOK
<1>8. 1..position' = 1..position \cup {i}
  BY <1>1
<1>9. FullSoFar'
  <2>. SUFFICES ASSUME NEW metric \in Metrics, tally'[metric].num = tally'[metric].den,
                       NEW k \in 1..position'
                PROVE  Score(k, metric)[1] = Score(k, metric)[2]
    BY <1>4 DEF FullSoFar
  <2>1. /\ tally[metric].num = tally[metric].den
        /\ Score(i, metric)[1] = Score(i, metric)[2]
    <3>. HIDE DEF i
    <3>. QED
      BY <1>2, <1>3, <1>5
  <2>. QED
    BY <1>8, <2>1 DEF GateInvariant, FullSoFar
<1>10. Evidence'
  <2>. SUFFICES ASSUME NEW metric \in Metrics, tally'[metric].den > 0
                PROVE  \E k \in 1..position' : Score(k, metric)[2] > 0
    BY <1>4 DEF Evidence
  <2>1. tally[metric].den > 0 \/ Score(i, metric)[2] > 0
    <3>. HIDE DEF i
    <3>. QED
      BY <1>2, <1>3, <1>5
  <2>. QED
    BY <1>8, <2>1 DEF GateInvariant, Evidence
<1>11. PassReaches'
  BY <1>1, GateAssumption DEF PassReaches, Passed
<1>. QED
  BY <1>1, <1>6, <1>7, <1>9, <1>10, <1>11 DEF GateInvariant

LEMMA GateKeeps ==
    ASSUME GateInvariant, [Next]_gateVars
    PROVE  GateInvariant'
<1>1. ASSUME UNCHANGED <<dataset, fixture, position, tally>>, TypeOK', PassReaches'
      PROVE  GateInvariant'
  <2>1. \A k, metric : Score(k, metric)' = Score(k, metric)
    BY <1>1 DEF Score, EvaluateCase, EvaluateError, EvaluateInvalid, EvaluateFailure,
       EvaluateRead, Fields, RuleMatch, Extract
  <2>. QED
    BY <1>1, <2>1 DEF GateInvariant, FullSoFar, Evidence
<1>2. CASE UNCHANGED gateVars
  BY <1>1, <1>2 DEF gateVars, GateInvariant, TypeOK, PassReaches, Passed, Reaches
<1>3. CASE RefuseBaseline
  BY <1>1, <1>3, GateAssumption DEF RefuseBaseline, GateInvariant, TypeOK, PassReaches,
     Passed
<1>4. CASE Compare
  BY <1>1, <1>4, GateAssumption DEF Compare, GateInvariant, TypeOK, PassReaches,
     Passed, Reaches
<1>. QED
  BY <1>2, <1>3, <1>4, EvaluateKeeps DEF Next

\* The tallies of calculate_metrics remember what the cases counted so far
\* scored, and the verdict is what the comparison of them says.
THEOREM GateInductive == Spec => []GateInvariant
<1>. QED
  BY GateInit, GateKeeps, PTL DEF Spec

\* No rate is more than one, whatever the dataset (safe_rate).
THEOREM RatesWithinOne == Spec => []TypeOK
<1>1. GateInvariant => TypeOK
  BY DEF GateInvariant
<1>. QED
  BY <1>1, GateInductive, PTL

\* A metric that must be one, and passed, lowered by no case.
LEMMA FullMeansEvery ==
    ASSUME GateInvariant, Passed, NEW metric \in Metrics, Full(metric),
           NEW i \in DOMAIN dataset
    PROVE  Score(i, metric)[1] = Score(i, metric)[2]
<1>1. /\ tally[metric].num \in Nat /\ tally[metric].den \in Nat
      /\ tally[metric].num <= tally[metric].den
      /\ Minimum[metric].num \in Nat \ {0}
      /\ Minimum[metric].den = Minimum[metric].num
  BY GateAssumption DEF GateInvariant, TypeOK, Full
<1>2. tally[metric].num * Minimum[metric].num >= Minimum[metric].num * tally[metric].den
  BY <1>1 DEF GateInvariant, PassReaches, Reaches, Full
<1>3. tally[metric].num = tally[metric].den
  <2>1. \A a, b \in Nat, m \in Nat \ {0} : a <= b /\ a * m >= m * b => a = b
    OBVIOUS
  <2>. HIDE DEF Passed
  <2>. QED
    BY <1>1, <1>2, <2>1
<1>4. i \in 1..position
  BY GateAssumption DEF GateInvariant, PassReaches
<1>. QED
  BY <1>3, <1>4 DEF GateInvariant, FullSoFar

-----------------------------------------------------------------------------
(***************************************************************************)
(* A PASS.                                                                 *)
(***************************************************************************)
\* What must hold of a case that is a success, and whose decision counts as
\* expected if it counts.
LEMMA FaithfulCase ==
    ASSUME NEW case, GoldenCase(case), EvaluateCase(case).success,
           case.decision_applicable => EvaluateCase(case).matches
    PROVE  /\ case.known_scenario
           /\ case.expected_error_class = ErrorClass(case)
           /\ DecisionCounts(case) => case.expected_decision = Decided(case)
           /\ StateCounts(case) =>
                 case.expected_final_state = FinalState(Decided(case))
           /\ IsRead(case) /\ case.field_comparison_applicable =>
                 \A field \in DOMAIN case.expected_invoice :
                     case.expected_invoice[field] = Extract(case.scenario)[field]
<1>1. /\ Readable \cap Unparsable = {}
      /\ "provider_failure" \notin Readable \cup Unparsable
  BY DEF Readable, Read, Unparsable
<1>2. ~(EvaluateCase(case) = EvaluateError(case))
  BY DEF EvaluateError
<1>3. CASE /\ EvaluateCase(case) = EvaluateInvalid(case)
           /\ case.known_scenario /\ case.scenario \in Unparsable
  <2>1. /\ case.expected_error_class = "provider_output_error"
        /\ DecidedAsExpected(case, "needs_review")
    BY <1>3 DEF EvaluateInvalid
  <2>2. /\ ErrorClass(case) = "provider_output_error"
        /\ Decided(case) = "needs_review"
    BY <1>1, <1>3 DEF ErrorClass, Decided
  <2>. QED
    BY <1>1, <1>3, <2>1, <2>2 DEF DecidedAsExpected, IsRead
<1>4. CASE /\ EvaluateCase(case) = EvaluateFailure(case)
           /\ case.known_scenario /\ case.scenario = "provider_failure"
  <2>1. /\ case.expected_error_class = "timeout"
        /\ case.expected_decision = "provider_failure"
        /\ case.decision_applicable => DecidedAsExpected(case, "provider_failure")
    BY <1>4 DEF EvaluateFailure
  <2>2. /\ ErrorClass(case) = "timeout"
        /\ Decided(case) = "provider_failure"
    BY <1>1, <1>4 DEF ErrorClass, Decided
  <2>. QED
    BY <1>1, <1>4, <2>1, <2>2 DEF DecidedAsExpected, IsRead, StateCounts
<1>5. CASE /\ EvaluateCase(case) = EvaluateRead(case)
           /\ case.known_scenario /\ case.scenario \in Readable
  <2>1. /\ case.expected_error_class = None
        /\ Fields(case).correct = Fields(case).compared
        /\ case.decision_applicable => RuleMatch(case)
    BY <1>5 DEF EvaluateRead
  <2>2. /\ ErrorClass(case) = None
        /\ Decided(case) = DecideWorkflow(Extract(case.scenario), case.context)
    BY <1>1, <1>5 DEF ErrorClass, Decided
  <2>3. RuleMatch(case) => DecidedAsExpected(case, Decided(case))
    BY <2>2 DEF RuleMatch
  <2>4. case.field_comparison_applicable =>
           \A field \in DOMAIN case.expected_invoice :
               case.expected_invoice[field] = Extract(case.scenario)[field]
    BY <2>1 DEF Fields, ScoreFields
  <2>. QED
    BY <1>1, <1>5, <2>1, <2>2, <2>3, <2>4
       DEF DecidedAsExpected, DecisionCounts, StateCounts
<1>. QED
  BY <1>1, <1>2, <1>3, <1>4, <1>5, CaseResults

\* What full rates of success and of decisions mean of each case.
LEMMA FullRates ==
    ASSUME GateInvariant, Passed, Full("case_success_rate"), Full("decision_accuracy"),
           NEW i \in DOMAIN dataset
    PROVE  /\ GoldenCase(dataset[i])
           /\ EvaluateCase(dataset[i]).success
           /\ dataset[i].decision_applicable => EvaluateCase(dataset[i]).matches
<1>1. GoldenCase(dataset[i])
  BY GateAssumption DEF GateInvariant
<1>2. /\ Score(i, "case_success_rate")[1] = Score(i, "case_success_rate")[2]
      /\ Score(i, "decision_accuracy")[1] = Score(i, "decision_accuracy")[2]
  BY FullMeansEvery DEF Metrics
<1>. DEFINE case == dataset[i]
            result == EvaluateCase(case)
<1>3. /\ OneIf(result.success) = 1
      /\ OneIf(case.decision_applicable /\ result.matches) = OneIf(case.decision_applicable)
  BY <1>2 DEF Score, Scores
<1>. QED
  BY <1>1, <1>3 DEF OneIf

\* "Prevents silent regressions" (docs/adr/0006): after a PASS every golden
\* case came out as it is recorded, whatever the dataset, if the baseline asks
\* for full success and decision rates.  Both are needed: a provider failure
\* is a success whatever its final state says.
THEOREM PassVouchesForEveryCase ==
    ASSUME Full("case_success_rate"), Full("decision_accuracy")
    PROVE  Spec => []PassIsFaithful
<1>1. GateInvariant => PassIsFaithful
  BY FullRates, FaithfulCase DEF PassIsFaithful, Golden
<1>. QED
  BY <1>1, GateInductive, PTL

\* A PASS rests on evidence, whatever the dataset and the minima: a rate of
\* nothing is None, and never reaches a minimum (evaluate_against_thresholds).
THEOREM PassRestsOnEvidence == Spec => []PassHasEvidence
<1>1. ASSUME GateInvariant, Passed, NEW metric \in DOMAIN Minimum
      PROVE  \E i \in DOMAIN dataset :
                GoldenCase(dataset[i]) /\ Score(i, metric)[2] > 0
  <2>1. /\ position = Len(dataset)
        /\ Reaches(metric)
        /\ metric \in Metrics
        /\ \A i \in DOMAIN dataset : GoldenCase(dataset[i])
        /\ DOMAIN dataset = 1..Len(dataset)
    BY <1>1, GateAssumption DEF GateInvariant, PassReaches
  <2>2. PICK i \in 1..position : Score(i, metric)[2] > 0
    BY <1>1, <2>1 DEF GateInvariant, Evidence, Reaches
  <2>. QED
    BY <2>1, <2>2
<1>2. ASSUME NEW case, GoldenCase(case),
             Scores(case, EvaluateCase(case)).field_accuracy[2] > 0
      PROVE  /\ case.field_comparison_applicable
             /\ DOMAIN case.expected_invoice # {}
             /\ case.scenario \in Readable
  <2>1. EvaluateCase(case).fields.compared # {}
    BY <1>2, FS_EmptySet DEF Scores
  <2>2. ~(EvaluateCase(case) \in
             {EvaluateError(case), EvaluateInvalid(case), EvaluateFailure(case)})
    BY <2>1 DEF EvaluateError, EvaluateInvalid, EvaluateFailure, Unscored
  <2>3. EvaluateCase(case) = EvaluateRead(case) /\ case.scenario \in Readable
    BY <1>2, <2>2, CaseResults
  <2>. QED
    BY <2>1, <2>3 DEF EvaluateRead, Fields, ScoreFields, Unscored
<1>3. ASSUME NEW case, Scores(case, EvaluateCase(case)).decision_accuracy[2] > 0
      PROVE  case.decision_applicable
  BY <1>3 DEF Scores, OneIf
<1>4. ASSUME NEW case, Scores(case, EvaluateCase(case)).schema_validity_rate[2] > 0
      PROVE  case.schema_applicable
  BY <1>4 DEF Scores, OneIf
<1>5. GateInvariant => PassHasEvidence
  <2>. SUFFICES ASSUME GateInvariant, Passed
                PROVE  PassHasEvidence
    BY DEF PassHasEvidence
  <2>1. ASSUME "field_accuracy" \in DOMAIN Minimum
        PROVE  \E i \in DOMAIN dataset :
                  /\ Golden(i).field_comparison_applicable
                  /\ DOMAIN Golden(i).expected_invoice # {}
                  /\ Golden(i).scenario \in Readable
    BY <1>1, <1>2, <2>1 DEF Score, Golden
  <2>2. ASSUME "decision_accuracy" \in DOMAIN Minimum
        PROVE  \E i \in DOMAIN dataset : Golden(i).decision_applicable
    BY <1>1, <1>3, <2>2 DEF Score, Golden
  <2>3. ASSUME "schema_validity_rate" \in DOMAIN Minimum
        PROVE  \E i \in DOMAIN dataset : Golden(i).schema_applicable
    BY <1>1, <1>4, <2>3 DEF Score, Golden
  <2>. QED
    BY <2>1, <2>2, <2>3 DEF PassHasEvidence
<1>. QED
  BY <1>5, GateInductive, PTL

\* What the degraded fixture puts into the fields it spoils is expected of no
\* case, as in llmops/datasets/v1.
NobodyExpectsDegraded ==
    \A data \in Datasets : \A i \in DOMAIN data :
        LET expected == data[i].expected_invoice
        IN  /\ "invoice_number" \in DOMAIN expected =>
                  expected.invoice_number # "inv-degraded-wrong"
            /\ "total_amount" \in DOMAIN expected => expected.total_amount # 100
            /\ "supplier_name" \in DOMAIN expected =>
                  expected.supplier_name # "wrong supplier ltd"

\* "Degraded fixture mode must fail the gate" (docs/architecture.md): any dataset
\* that compares a spoiled field of an invoice that is read.
THEOREM DegradedNeverPasses ==
    ASSUME Full("case_success_rate"), Full("decision_accuracy"), NobodyExpectsDegraded
    PROVE  Spec => []DegradedFails
<1>1. ASSUME GateInvariant, Passed, fixture = "degraded", NEW i \in DOMAIN dataset,
             Golden(i).scenario \in Readable, Golden(i).field_comparison_applicable
      PROVE  DOMAIN Golden(i).expected_invoice \cap
                {"invoice_number", "total_amount", "supplier_name"} = {}
  <2>. DEFINE case == dataset[i]
              invoice == Extract(case.scenario)
  <2>1. \A field \in DOMAIN case.expected_invoice :
           case.expected_invoice[field] = invoice[field]
    BY <1>1, FullRates, FaithfulCase DEF Golden, IsRead
  <2>2. /\ invoice.invoice_number = "inv-degraded-wrong"
        /\ invoice.total_amount = 100
        /\ invoice.supplier_name = "wrong supplier ltd"
    <3>1. invoice = Degrade(Read[case.scenario])
      BY <1>1 DEF Extract
    <3>. DEFINE low   == [Success EXCEPT !.overall_confidence = 42]
                other == [Success EXCEPT !.currency = "GBP"]
                wrong == [Success EXCEPT !.total_amount = 99999]
    <3>2. /\ Read = [success |-> Success, low_confidence |-> low,
                     unsupported_currency |-> other, invalid_total |-> wrong]
          /\ DOMAIN low = DOMAIN Success
          /\ DOMAIN other = DOMAIN Success
          /\ DOMAIN wrong = DOMAIN Success
      BY DEF Read
    <3>. HIDE DEF low, other, wrong
    <3>3. DOMAIN Read[case.scenario] = DOMAIN Success
      <4>1. case.scenario \in {"success", "low_confidence", "unsupported_currency",
                               "invalid_total"}
        BY <1>1, <3>2 DEF Golden, Readable
      <4>. QED
        BY <3>2, <4>1
    <3>4. {"invoice_number", "total_amount", "supplier_name"}
             \subseteq DOMAIN Read[case.scenario]
      BY <3>3 DEF Success
    <3>. QED
      BY <3>1, <3>4 DEF Degrade
  <2>3. /\ "invoice_number" \in DOMAIN case.expected_invoice =>
              case.expected_invoice["invoice_number"] # "inv-degraded-wrong"
        /\ "total_amount" \in DOMAIN case.expected_invoice =>
              case.expected_invoice["total_amount"] # 100
        /\ "supplier_name" \in DOMAIN case.expected_invoice =>
              case.expected_invoice["supplier_name"] # "wrong supplier ltd"
    BY <1>1 DEF GateInvariant, NobodyExpectsDegraded
  <2>. HIDE DEF invoice, case
  <2>4. /\ "invoice_number" \notin DOMAIN case.expected_invoice
        /\ "total_amount" \notin DOMAIN case.expected_invoice
        /\ "supplier_name" \notin DOMAIN case.expected_invoice
    BY <2>1, <2>2, <2>3
  <2>. QED
    BY <2>4 DEF Golden, case
<1>2. GateInvariant => DegradedFails
  BY <1>1 DEF DegradedFails
<1>. QED
  BY <1>2, GateInductive, PTL

-----------------------------------------------------------------------------
(***************************************************************************)
(* The verdict, against all points of the dataset at once.                 *)
(***************************************************************************)
\* What one case adds is the number of its points, and of those it wins.
Winning(case, metric) == {point \in Asked(case, metric) : Wins(case, metric, point)}

LEMMA CasePoints ==
    ASSUME NEW case, GoldenCase(case), NEW metric \in Metrics
    PROVE  /\ IsFiniteSet(Asked(case, metric))
           /\ Cardinality(Asked(case, metric))
                 = Scores(case, EvaluateCase(case))[metric][2]
           /\ Cardinality(Winning(case, metric))
                 = Scores(case, EvaluateCase(case))[metric][1]
<1>. DEFINE result == EvaluateCase(case)
<1>1. /\ result.schema <=> IsRead(case)
      /\ result.fields = IF IsRead(case) THEN Fields(case) ELSE Unscored
  <2>1. /\ Readable \cap Unparsable = {}
        /\ "provider_failure" \notin Readable
    BY DEF Readable, Read, Unparsable
  <2>2. \/ /\ result \in {EvaluateError(case), EvaluateInvalid(case), EvaluateFailure(case)}
           /\ ~IsRead(case)
        \/ result = EvaluateRead(case) /\ IsRead(case)
    BY <2>1, CaseResults DEF IsRead
  <2>. HIDE DEF result
  <2>3. CASE \/ result = EvaluateError(case)
             \/ result = EvaluateInvalid(case)
             \/ result = EvaluateFailure(case)
    <3>1. result.schema = FALSE /\ result.fields = Unscored
      BY <2>3 DEF EvaluateError, EvaluateInvalid, EvaluateFailure
    <3>2. result # EvaluateRead(case)
      BY <3>1 DEF EvaluateRead
    <3>. QED
      BY <2>2, <3>1, <3>2
  <2>4. CASE result = EvaluateRead(case) /\ IsRead(case)
    BY <2>4 DEF EvaluateRead
  <2>. QED
    BY <2>2, <2>3, <2>4
<1>. HIDE DEF result
\* A metric that counts cases: one point, or none.
<1>2. /\ IsFiniteSet({}) /\ Cardinality({}) = 0
      /\ IsFiniteSet({metric}) /\ Cardinality({metric}) = 1
  BY FS_EmptySet, FS_Singleton
<1>3. CASE metric = "schema_validity_rate"
  <2>1. /\ Asked(case, metric) = IF case.schema_applicable THEN {metric} ELSE {}
        /\ Winning(case, metric) =
              IF case.schema_applicable /\ result.schema THEN {metric} ELSE {}
    BY <1>1, <1>3 DEF Asked, Winning, Wins
  <2>2. /\ Scores(case, result)[metric][2] = IF case.schema_applicable THEN 1 ELSE 0
        /\ Scores(case, result)[metric][1]
              = IF case.schema_applicable /\ result.schema THEN 1 ELSE 0
    BY <1>3 DEF Scores, OneIf
  <2>. QED
    BY <1>2, <2>1, <2>2 DEF result
<1>4. CASE metric = "decision_accuracy"
  <2>1. /\ Asked(case, metric) = IF case.decision_applicable THEN {metric} ELSE {}
        /\ Winning(case, metric) =
              IF case.decision_applicable /\ result.matches THEN {metric} ELSE {}
    BY <1>4 DEF Asked, Winning, Wins, result
  <2>2. /\ Scores(case, result)[metric][2] = IF case.decision_applicable THEN 1 ELSE 0
        /\ Scores(case, result)[metric][1]
              = IF case.decision_applicable /\ result.matches THEN 1 ELSE 0
    BY <1>4 DEF Scores, OneIf
  <2>. QED
    BY <1>2, <2>1, <2>2 DEF result
<1>5. CASE metric = "case_success_rate"
  <2>1. /\ Asked(case, metric) = {metric}
        /\ Winning(case, metric) = IF result.success THEN {metric} ELSE {}
    BY <1>5 DEF Asked, Winning, Wins, result
  <2>2. /\ Scores(case, result)[metric][2] = 1
        /\ Scores(case, result)[metric][1] = IF result.success THEN 1 ELSE 0
    BY <1>5 DEF Scores, OneIf
  <2>. QED
    BY <1>2, <2>1, <2>2 DEF result
<1>6. CASE metric = "field_accuracy"
  <2>1. /\ Asked(case, metric) = result.fields.compared
        /\ Winning(case, metric) = result.fields.correct
    BY <1>1, <1>6 DEF Asked, Winning, Wins, Fields, ScoreFields, Unscored
  <2>2. IsFiniteSet(result.fields.compared)
    BY <1>1, FieldsCompared, FS_EmptySet DEF Unscored
  <2>3. /\ Scores(case, result)[metric][2] = Cardinality(result.fields.compared)
        /\ Scores(case, result)[metric][1] = Cardinality(result.fields.correct)
    BY <1>6 DEF Scores
  <2>. QED
    BY <2>1, <2>2, <2>3 DEF result
<1>. QED
  BY <1>3, <1>4, <1>5, <1>6 DEF Metrics

\* One more case: its points are others than those before.
LEMMA Joined ==
    ASSUME NEW S, NEW T, NEW i, IsFiniteSet(S), IsFiniteSet(T), \A s \in S : s[1] # i
    PROVE  /\ IsFiniteSet(S \cup ({i} \X T))
           /\ Cardinality(S \cup ({i} \X T)) = Cardinality(S) + Cardinality(T)
<1>1. IsFiniteSet({i}) /\ Cardinality({i}) = 1
  BY FS_Singleton
<1>2. /\ IsFiniteSet({i} \X T)
      /\ Cardinality({i} \X T) = Cardinality(T)
  <2>1. Cardinality(T) \in Nat
    BY FS_CardinalityType
  <2>2. \A n \in Nat : 1 * n = n
    OBVIOUS
  <2>. QED
    BY <1>1, <2>1, <2>2, FS_Product
<1>3. S \cap ({i} \X T) = {}
  OBVIOUS
<1>4. /\ IsFiniteSet(S \cup ({i} \X T))
      /\ Cardinality(S \cup ({i} \X T))
            = Cardinality(S) + Cardinality({i} \X T) - Cardinality(S \cap ({i} \X T))
  BY <1>2, FS_Union
<1>5. /\ Cardinality(S) \in Nat
      /\ Cardinality(T) \in Nat
      /\ Cardinality(S \cap ({i} \X T)) = 0
  BY <1>3, FS_CardinalityType, FS_EmptySet
<1>. QED
  BY <1>2, <1>4, <1>5

LEMMA PointsGrow ==
    ASSUME NEW metric, NEW n \in Nat
    PROVE  /\ PointsAsked(metric, n + 1) =
                 PointsAsked(metric, n) \cup ({n + 1} \X Asked(Golden(n + 1), metric))
           /\ PointsWon(metric, n + 1) =
                 PointsWon(metric, n) \cup ({n + 1} \X Winning(Golden(n + 1), metric))
           /\ \A s \in PointsAsked(metric, n) : s[1] # n + 1
           /\ PointsWon(metric, n) \subseteq PointsAsked(metric, n)
<1>1. 1..(n + 1) = 1..n \cup {n + 1} /\ n + 1 \notin 1..n
  OBVIOUS
<1>2. PointsAsked(metric, n + 1) =
          PointsAsked(metric, n) \cup ({n + 1} \X Asked(Golden(n + 1), metric))
  BY <1>1 DEF PointsAsked
<1>3. \A s \in PointsAsked(metric, n) : s[1] # n + 1
  BY <1>1 DEF PointsAsked
<1>4. \A k \in Nat : PointsWon(metric, k) =
          {entry \in PointsAsked(metric, k) : Wins(Golden(entry[1]), metric, entry[2])}
  BY DEF PointsWon
<1>5. {entry \in {n + 1} \X Asked(Golden(n + 1), metric) :
            Wins(Golden(entry[1]), metric, entry[2])}
          = {n + 1} \X Winning(Golden(n + 1), metric)
  BY DEF Winning
<1>. QED
  BY <1>2, <1>3, <1>4, <1>5

\* The tallies are the numbers of points asked and won in the cases so far.
PointsTallied ==
    \A metric \in Metrics, n \in 0..Len(dataset) : n = position =>
        /\ IsFiniteSet(PointsAsked(metric, n))
        /\ tally[metric].den = Cardinality(PointsAsked(metric, n))
        /\ tally[metric].num = Cardinality(PointsWon(metric, n))

\* The baseline is not the one asked for, or every case has been counted and
\* the verdict is what the comparison of the tallies says.
VerdictSays ==
    verdict # None =>
        IF matching
            THEN /\ position = Len(dataset)
                 /\ Passed <=> \A metric \in DOMAIN Minimum : Reaches(metric)
            ELSE ~Passed

LEMMA PointsStay ==
    ASSUME UNCHANGED <<dataset, fixture>>
    PROVE  \A metric, n : /\ PointsAsked(metric, n)' = PointsAsked(metric, n)
                          /\ PointsWon(metric, n)' = PointsWon(metric, n)
BY DEF PointsAsked, PointsWon, Golden, Asked, Wins, IsRead, EvaluateCase, EvaluateError,
   EvaluateInvalid, EvaluateFailure, EvaluateRead, Fields, RuleMatch, Extract

LEMMA PointsCounted ==
    ASSUME GateInvariant, PointsTallied, Evaluate
    PROVE  PointsTallied'
<1>1. /\ position \in Nat
      /\ position \in 0..Len(dataset)
      /\ GoldenCase(Golden(position + 1))
      /\ position' = position + 1
      /\ UNCHANGED <<dataset, fixture>>
  BY GateAssumption DEF GateInvariant, TypeOK, Evaluate, Golden
<1>. SUFFICES ASSUME NEW metric \in Metrics
              PROVE  LET n == position + 1
                     IN  /\ IsFiniteSet(PointsAsked(metric, n))
                         /\ tally'[metric].den = Cardinality(PointsAsked(metric, n))
                         /\ tally'[metric].num = Cardinality(PointsWon(metric, n))
  BY <1>1, PointsStay DEF PointsTallied
<1>2. /\ tally'[metric].num = tally[metric].num + Score(position + 1, metric)[1]
      /\ tally'[metric].den = tally[metric].den + Score(position + 1, metric)[2]
  BY DEF Evaluate, Score
<1>. DEFINE asked == PointsAsked(metric, position)
            won   == PointsWon(metric, position)
            case  == Golden(position + 1)
<1>3. /\ IsFiniteSet(asked)
      /\ tally[metric].den = Cardinality(asked)
      /\ tally[metric].num = Cardinality(won)
  BY <1>1 DEF PointsTallied
<1>4. /\ PointsAsked(metric, position + 1) =
            asked \cup ({position + 1} \X Asked(case, metric))
      /\ PointsWon(metric, position + 1) =
            won \cup ({position + 1} \X Winning(case, metric))
      /\ \A s \in asked : s[1] # position + 1
      /\ won \subseteq asked
  BY <1>1, PointsGrow
<1>5. /\ IsFiniteSet(Asked(case, metric))
      /\ Cardinality(Asked(case, metric)) = Score(position + 1, metric)[2]
      /\ Cardinality(Winning(case, metric)) = Score(position + 1, metric)[1]
  BY <1>1, CasePoints DEF Score, Golden
<1>. HIDE DEF asked, won, case
<1>6. /\ IsFiniteSet(won)
      /\ IsFiniteSet(Winning(case, metric))
  BY <1>3, <1>4, <1>5, FS_Subset DEF Winning
<1>7. /\ IsFiniteSet(PointsAsked(metric, position + 1))
      /\ Cardinality(PointsAsked(metric, position + 1))
            = Cardinality(asked) + Cardinality(Asked(case, metric))
  <2>1. \A s \in asked : s[1] # position + 1
    BY <1>4
  <2>2. /\ IsFiniteSet(asked \cup ({position + 1} \X Asked(case, metric)))
        /\ Cardinality(asked \cup ({position + 1} \X Asked(case, metric)))
              = Cardinality(asked) + Cardinality(Asked(case, metric))
    BY <1>3, <1>5, <2>1, Joined, Zenon
  <2>. QED
    BY <1>4, <2>2, Zenon
<1>8. Cardinality(PointsWon(metric, position + 1))
         = Cardinality(won) + Cardinality(Winning(case, metric))
  <2>1. \A s \in won : s[1] # position + 1
    BY <1>4
  <2>2. Cardinality(won \cup ({position + 1} \X Winning(case, metric)))
           = Cardinality(won) + Cardinality(Winning(case, metric))
    BY <1>6, <2>1, Joined, Zenon
  <2>. QED
    BY <1>4, <2>2, Zenon
<1>. QED
  BY <1>2, <1>3, <1>5, <1>7, <1>8

\* The gate passes exactly the datasets whose points reach every minimum of
\* the baseline asked for (aggregate_metrics, evaluate_against_thresholds),
\* whatever the cases, the minima and the fixture.
THEOREM VerdictsAreExact == Spec => []VerdictIsExact
<1>1. Init => PointsTallied /\ VerdictSays
  <2>. SUFFICES ASSUME Init
                PROVE  PointsTallied /\ VerdictSays
    OBVIOUS
  <2>1. \A metric : PointsAsked(metric, 0) = {} /\ PointsWon(metric, 0) = {}
    <3>1. 1..0 = {}
      OBVIOUS
    <3>. QED
      BY <3>1 DEF PointsAsked, PointsWon
  <2>. QED
    BY <2>1, FS_EmptySet DEF Init, PointsTallied, VerdictSays
<1>2. ASSUME GateInvariant, PointsTallied, VerdictSays, [Next]_gateVars
      PROVE  PointsTallied' /\ VerdictSays'
  <2>1. CASE Evaluate
    BY <1>2, <2>1, PointsCounted DEF Evaluate, VerdictSays
  <2>2. CASE UNCHANGED <<dataset, fixture, matching, position, tally>>
    <3>1. PointsTallied'
      BY <1>2, <2>2, PointsStay DEF PointsTallied
    <3>2. \A metric : Reaches(metric)' = Reaches(metric)
      BY <2>2 DEF Reaches
    <3>3. "PASS" # "FAIL" /\ None \notin {"PASS", "FAIL"}
      BY GateAssumption
    <3>4. CASE RefuseBaseline
      <4>1. ~matching' /\ ~Passed'
        BY <3>3, <3>4 DEF RefuseBaseline, Passed
      <4>. QED
        BY <3>1, <4>1 DEF VerdictSays
    <3>5. CASE Compare
      <4>1. matching' /\ position' = Len(dataset')
        BY <3>5 DEF Compare
      <4>2. Passed' <=> \A metric \in DOMAIN Minimum : Reaches(metric)
        BY <3>3, <3>5 DEF Compare, Passed
      <4>. QED
        BY <3>1, <3>2, <4>1, <4>2 DEF VerdictSays
    <3>6. CASE UNCHANGED verdict
      BY <1>2, <2>2, <3>1, <3>2, <3>6 DEF VerdictSays, Passed
    <3>. QED
      BY <1>2, <2>2, <3>4, <3>5, <3>6 DEF Next, gateVars, Evaluate
  <2>. QED
    BY <1>2, <2>1, <2>2 DEF Next, RefuseBaseline, Compare, gateVars
<1>3. ASSUME GateInvariant, PointsTallied, VerdictSays
      PROVE  VerdictIsExact
  <2>. SUFFICES ASSUME verdict # None
                PROVE  Passed <=>
                          /\ matching
                          /\ \A metric \in DOMAIN Minimum :
                                LET asked == Cardinality(PointsAsked(metric, Len(dataset)))
                                    won   == Cardinality(PointsWon(metric, Len(dataset)))
                                IN  /\ asked > 0
                                    /\ won * Minimum[metric].den
                                          >= Minimum[metric].num * asked
    BY DEF VerdictIsExact
  <2>1. CASE ~matching
    BY <1>3, <2>1 DEF VerdictSays
  <2>2. CASE matching
    <3>1. position = Len(dataset) /\ position \in 0..Len(dataset)
      BY <1>3, <2>2 DEF VerdictSays, GateInvariant, TypeOK
    <3>2. \A metric \in DOMAIN Minimum :
             /\ tally[metric].den = Cardinality(PointsAsked(metric, Len(dataset)))
             /\ tally[metric].num = Cardinality(PointsWon(metric, Len(dataset)))
      BY <1>3, <3>1, GateAssumption DEF PointsTallied
    <3>3. Passed <=> \A metric \in DOMAIN Minimum : Reaches(metric)
      BY <1>3, <2>2 DEF VerdictSays
    <3>. QED
      BY <2>2, <3>2, <3>3 DEF Reaches
  <2>. QED
    BY <2>1, <2>2
<1>. QED
  BY <1>1, <1>2, <1>3, GateInductive, PTL DEF Spec

=============================================================================
