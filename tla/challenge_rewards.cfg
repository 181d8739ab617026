SPECIFICATION StampedSpec
CONSTANTS
  Procs = {p1, p2}
  Sources = {s1, s2, s3}
  Target = 2
  YmReward = 10
  Nil = Nil
INVARIANTS RewardIsDeserved ClaimedIsPaid
PROPERTIES NothingUndone ImplementsContract EveryCallEnds
CHECK_DEADLOCK FALSE
