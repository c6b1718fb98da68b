SPECIFICATION Spec
CONSTANTS
    Document <- Documents
    Upload = {u1, u2}
    File <- TwoFiles
    FileTitle <- Titles
    Worker = {w1}
    ChunkSize = 3
    Overlap = 1
    MaxRestarts = 1
    CallsMayFail = TRUE
INVARIANTS
    TypeOK
    StoredWhole
    AnswerTellsStored
    IngestComplete
