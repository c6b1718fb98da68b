SPECIFICATION Spec
CONSTANTS
    Provider = {"groq", "openai"}
    Primary = "groq"
    Fallback <- TwoProviders
    Caller = {c1}
    Threshold = 2
    Recovery = 1
    Attempts = 1
    MaxFailures = 2
INVARIANT
    NoResponseOnlyWhenExhausted
