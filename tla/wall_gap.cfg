SPECIFICATION WallSpec
CONSTANTS
    MaxPosts = 2
    WallPageSize = 1
    SinceLimit = 1
    Polls = {k1}
INVARIANTS
    GapFree
CHECK_DEADLOCK FALSE
