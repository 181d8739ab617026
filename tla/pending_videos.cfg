SPECIFICATION VideosSpec
CONSTANTS
    Videos = {v1}
    MaxTries = 2
    Rounds = {r1, r2}
    NoVideo = NoVideo
INVARIANTS
    NothingForgotten
    AnnouncedOnce
PROPERTIES
    PublishedStays
    EndIsNoticed
CHECK_DEADLOCK FALSE
