SPECIFICATION FairSpec
CONSTANTS
    None = None
    LlmMaxRetries = 2
    Classes = {"rate_limit", "timeout", "transient"}
INVARIANTS
    CallsBounded
    TransientIsExhausted
    ParkedAfterCorrection
    ReasonIsPrimarys
PROPERTIES
    Answered
