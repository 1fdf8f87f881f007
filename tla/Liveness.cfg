SPECIFICATION FairSpec
CONSTANTS
    None = None
    d1 = d1
    d2 = d2
    w1 = w1
    w2 = w2
    n1 = n1
    n2 = n2
    Docs = {d1, d2}
    Workers = {w1}
    Handlers = {h1, h2}
    Numbers = {n1, n2}
    Readings <- SameNumber1
    Edits <- NoEdits
    MaxRetries = 1
    MaxInterruptions = 2
    Faults = {"workerCrash", "redelivery", "redis"}
INVARIANTS
    NoLostWork
PROPERTIES
    WorkSettles
    WorkDescends
