SPECIFICATION Spec
CONSTANTS
    Run = {r1}
    Reviewer = {alice}
    MaxRetries = 1
    MaxCrashes = 1
    Slots = 1
    CallsMayFail = TRUE
    EmitOutcomes <- AnyEmitter
INVARIANTS
    TypeOK
    ResultMatchesRow
    AuditTruthful
    ActedOncePerExecution
    IncidentLeadsRun
    PendingLeftOnlyByFailure
PROPERTIES
    FinalUnlessRepeated
    ImplementsContract
CHECK_DEADLOCK FALSE
