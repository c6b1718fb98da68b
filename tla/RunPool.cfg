SPECIFICATION FairSpec
CONSTANTS
    Run = {r1, r2}
    Reviewer = {alice}
    MaxRetries = 0
    MaxCrashes = 0
    Slots = 1
    CallsMayFail = FALSE
    EmitOutcomes <- RepairedEmitter
INVARIANTS
    AuditComplete
PROPERTIES
    EveryTaskSettles
CHECK_DEADLOCK FALSE
