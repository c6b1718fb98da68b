SPECIFICATION Spec
CONSTANTS
    Document <- Documents
    Upload = {u1}
    File <- TwoFiles
    FileTitle <- Titles
    Worker = {w1}
    ChunkSize = 3
    Overlap = 1
    MaxRestarts = 0
    CallsMayFail = TRUE
INVARIANT
    LookupNeverFailsTask
