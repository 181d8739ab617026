SPECIFICATION Spec
CONSTANTS
    Nil = Nil
    Tokens = {t1, t2, t3}
    Reqs = {r1, r2}
    Events <- Faults
    MaxClaimAttempts = 2
    MaxErrors = 1
SYMMETRY Symmetric
INVARIANTS
    TypeOK
    ConsumedForGood
    ReplayGivesOwnSuccessor
PROPERTIES
    DeadFamilyStaysDead
CHECK_DEADLOCK FALSE
