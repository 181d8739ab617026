SPECIFICATION FairSpec
CONSTANTS
  Reqs = {r1, r2}
  Refs = {a, b}
  Amounts = {1}
  MaxLedger = 4
  Nil = Nil
INVARIANTS LedgerExplainsBalance IndexNeverHit LedgerHistory
PROPERTIES FrozenWhenSuspended ImplementsLedger EveryCallEnds
CHECK_DEADLOCK FALSE
