SPECIFICATION Spec
CONSTANTS
    None = None
    d1 = d1
    d2 = d2
    w1 = w1
    w2 = w2
    n1 = n1
    n2 = n2
    Docs = {d1}
    Workers = {w1}
    Handlers = {h1}
    Numbers = {n1, n2}
    Readings <- Unstable1
    Edits <- NoEdits
    MaxRetries = 1
    MaxInterruptions = 1
    Faults = {"workerCrash"}
INVARIANTS
    OneInvoicePerDocument
