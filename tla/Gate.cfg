SPECIFICATION Spec
CONSTANTS
    None = None
    Datasets <- AllDatasets
    Minimum <- Baseline
INVARIANTS
    VerdictIsExact
    PassIsFaithful
    PassHasEvidence
    DegradedFails
    ShippedBaselinePasses
CHECK_DEADLOCK FALSE
