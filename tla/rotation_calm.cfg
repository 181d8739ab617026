SPECIFICATION Spec
CONSTANTS
    Nil = Nil
    Tokens = {t1, t2, t3}
    Reqs = {r1, r2}
    Events <- Quiet
    MaxClaimAttempts = 3
    MaxErrors = 0
SYMMETRY Symmetric
INVARIANTS
    SingleSuccessor
    OneLivePerFamily
    NoFalseReuse
PROPERTIES
    ImplementsChain
CHECK_DEADLOCK FALSE
