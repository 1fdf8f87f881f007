SPECIFICATION SubmissionSpec
CONSTANTS
    None = None
    Null = Null
    Attempts = {a1, a2, a3}
    Requests = {a1, a2, a3}
    Commands = {r1, r2}
    Invoices = {i1, i2}
    Keys = {i1, i2}
    MaxRestarts = 1
INVARIANTS
    LatestIsLast
    BilledIsLast
    AwaitedKeysAreUnique
    BilledStands
PROPERTIES
    SettledKeysStay
SYMMETRY Interchangeable
CHECK_DEADLOCK FALSE
