--------------------------- MODULE BusinessRules ---------------------------
(***************************************************************************)
(* services/worker/rules/business_rules.py.  Amounts are in cents and      *)
(* confidences in percent, so that both are integers.                      *)
(***************************************************************************)
EXTENDS Integers, Sequences, FiniteSetsExt

CONSTANT None  \* an optional value that is absent

LineSum(lines) ==
    LET LineTotal(i) == lines[i].line_total
    IN  MapThenSumSet(LineTotal, DOMAIN lines)

Differ(a, b, tolerance) == a - b > tolerance \/ b - a > tolerance

\* The codes of the issues: duplicate and supplier as the caller looked them
\* up, the total against the lines only if there are any.
ValidateInvoice(invoice, context) ==
    LET lines  == invoice.line_items
        broken == [
          negative_total |-> invoice.total_amount < 0,
          negative_line_amount |->
              \E i \in DOMAIN lines : \/ lines[i].quantity < 0
                                      \/ lines[i].unit_price < 0
                                      \/ lines[i].line_total < 0,
          unsupported_currency |->
              invoice.currency \notin context.supported_currencies,
          total_mismatch |->
              /\ lines # <<>>
              /\ Differ(LineSum(lines), invoice.total_amount,
                        context.totals_tolerance),
          low_confidence |->
              invoice.overall_confidence < context.confidence_threshold,
          auto_approval_limit_exceeded |->
              invoice.total_amount > context.auto_approval_limit,
          unknown_supplier |-> ~context.supplier_exists,
          unknown_purchase_order |->
              /\ invoice.purchase_order_id # None
              /\ ~context.purchase_order_exists,
          duplicate_invoice |-> context.is_duplicate ]
    IN  {code \in DOMAIN broken : broken[code]}

\* Whatever the issue, a person is asked.
DecideWorkflow(invoice, context) ==
    IF ValidateInvoice(invoice, context) = {} THEN "auto_approve"
                                              ELSE "needs_review"

=============================================================================
