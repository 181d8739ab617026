SPECIFICATION WallSpec
CONSTANTS
    MaxPosts = 3
    WallPageSize = 1
    SinceLimit = 1
    Polls = {k1, k2}
INVARIANTS
    NoPostMissed
    OncePerPost
    NewestFirst
    RemovedForGood
PROPERTIES
    CursorsMoveApart
CHECK_DEADLOCK FALSE
