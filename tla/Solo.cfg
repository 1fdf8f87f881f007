SPECIFICATION OperationsSpec
CONSTANTS
    None = None
    d1 = d1
    d2 = d2
    w1 = w1
    w2 = w2
    n1 = n1
    n2 = n2
    Docs = {d1, d2}
    Workers = {w1}
    Handlers = {h1}
    Watched = {d1}
    Window = 1
    Numbers = {n1, n2}
    Readings <- OftenRefused
    Edits <- EditsTyped
    MaxRetries = 1
    MaxInterruptions = 1
    Faults = {"redelivery", "enqueue", "pdf", "providerFatal"}
INVARIANTS
    NoStrayInvoice
    DuplicatesAreReviewed
    OutcomesCounted
    ErpCountersExact
    FailedAtLimit
    DepthIsFailures
    PageIsSound
PROPERTIES
    FailureShown
