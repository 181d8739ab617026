SPECIFICATION Spec
CONSTANTS
    Callers = {c1}
    Boot = Boot
    None = None
    MaxSessions = 2
    MaxRefreshAttempts = 1
    Events <- Everything
INVARIANTS
    OneRefreshAtATime
    LimitMeansFailure
    ShownIsActing
    OwnPassport
    SignedOutForGood
PROPERTIES
    EveryCallEnds
CHECK_DEADLOCK FALSE
