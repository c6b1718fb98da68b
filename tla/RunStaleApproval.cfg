SPECIFICATION Spec
CONSTANTS
    Run = {r1}
    Reviewer = {alice}
    MaxRetries = 1
    MaxCrashes = 0
    Slots = 1
    CallsMayFail = TRUE
    EmitOutcomes <- RepairedEmitter
INVARIANT
    ApprovalIsForThisGate
CHECK_DEADLOCK FALSE
