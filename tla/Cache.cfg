SPECIFICATION IngestFairSpec
CONSTANTS
    w1 = w1
    a1 = a1
    a2 = a2
    r1 = r1
    r2 = r2
    r3 = r3
    r4 = r4
    r5 = r5
    r6 = r6
    r7 = r7
    r8 = r8
    Incident = {"AM-9F8E7D6C"}
    Content = {"triage", "investigating"}
    Reader = {g1}
    Writer <- Writers
    CallsMayFail = TRUE
    RawId <- Raw
    Cut <- CutRaw
    Delivery <- Requests
    Sent <- Bodies
    Triage = "triage"
    SecretSet = TRUE
INVARIANTS
    IngestTypeOK
    StaleExplained
    CreatedIsKept
    ListedOnceCreated
PROPERTY
    EventuallyFresh
