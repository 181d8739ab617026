SPECIFICATION FairSpec
CONSTANTS
    Nil = Nil
    Tokens = {t1, t2}
    Reqs = {r1, r2}
    Events <- Troubled
    MaxClaimAttempts = 3
    MaxErrors = 1
INVARIANTS
    ClaimReleased
PROPERTIES
    EveryRequestAnswered
CHECK_DEADLOCK FALSE
