SPECIFICATION Spec
CONSTANTS
    Run = {r1}
    Reviewer = {alice}
    MaxRetries = 1
    MaxCrashes = 0
    Slots = 1
    CallsMayFail = FALSE
    EmitOutcomes <- CommittedEmitter
INVARIANT
    TaskPersistsResult
CHECK_DEADLOCK FALSE
