SPECIFICATION StreamFairSpec
CONSTANTS
    Score <- Thirds
    Scale = 3
    Half = 1
    Threshold = 2
    NaNReplies = TRUE
    CallsMayFail = TRUE
    Listener = {c1}
INVARIANTS
    StreamTypeOK
    ActsOnlyWhenSure
    StatusTellsActions
    NoReplay
    EventsMatchReturn
    ToldAfterCommit
    SlackFollowsRow
    EndShowsNodes
PROPERTIES
    ImplementsCall
    ImplementsBroadcast
    EndIsHeard
CHECK_DEADLOCK FALSE
