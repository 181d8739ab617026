SPECIFICATION Spec
CONSTANTS
  Procs = {p1, p2}
  Sources = {s1, s2, s3}
  Target = 3
  YmReward = 10
  Nil = Nil
INVARIANTS CountedIsCompleted
CHECK_DEADLOCK FALSE
