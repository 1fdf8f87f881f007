SPECIFICATION SubmissionSpec
CONSTANTS
    None = None
    Null = Null
    Attempts = {a1, a2}
    Requests = {a1, a2}
    Commands = {r1}
    Invoices = {i1}
    Keys = {i1}
    MaxRestarts = 0
INVARIANTS
    OneInvoicePerKey
CHECK_DEADLOCK FALSE
