SPECIFICATION VideosSpec
CONSTANTS
    Videos = {v1}
    MaxTries = 2
    Rounds = {r1}
    NoVideo = NoVideo
PROPERTIES
    EveryVideoSettles
CHECK_DEADLOCK FALSE
