SPECIFICATION FairSpec
CONSTANTS
    Provider = {"groq", "openai"}
    Primary = "groq"
    Fallback <- TwoProviders
    Caller = {c1, c2}
    Threshold = 2
    Recovery = 1
    Attempts = 2
    MaxFailures = 3
INVARIANTS
    TypeOK
    ClosedIffBelowThreshold
    HalfOpenOnlyAfterRecovery
PROPERTY
    PrimaryRecovers
