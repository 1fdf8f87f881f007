SPECIFICATION Spec
CONSTANTS
    None = None
    d1 = d1
    d2 = d2
    w1 = w1
    w2 = w2
    n1 = n1
    n2 = n2
    Docs = {d1, d2}
    Workers = {w1, w2}
    Handlers = {h1}
    Numbers = {n1, n2}
    Readings <- SameNumber
    Edits <- EditsTyped
    MaxRetries = 1
    MaxInterruptions = 1
    Faults = {"workerCrash", "redelivery", "apiCrash", "enqueue", "redis", "pdf", "providerFatal", "erpTransport"}
INVARIANTS
    TypeOK
    LockDiscipline
    TransactionShape
    TaskNamesRow
    NoPartialWork
    ApprovedByHuman
    SubmittedIsBilled
    LedgerAgrees
    DeadLetterAfterTheEnd
PROPERTIES
    FailedByExhaustion
    LifecycleSpec
