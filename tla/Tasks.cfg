SPECIFICATION DeskSpec
CONSTANTS
    None = None
    h1 = h1
    h2 = h2
    d1 = d1
    d2 = d2
    w1 = w1
    w2 = w2
    n1 = n1
    n2 = n2
    Docs = {d1, d2}
    Workers = {w1}
    Handlers = {h1, h2}
    Reviewers = {u1}
    Numbers = {n1, n2}
    Readings <- OftenParked
    Edits <- EditsTyped
    MaxRetries = 1
    MaxInterruptions = 1
    Faults = {"apiCrash", "enqueue", "pdf", "erpTransport"}
INVARIANTS
    SingleTask
    VerdictStands
    VerdictBilled
SYMMETRY Threads
