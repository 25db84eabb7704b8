\* A count lowered while the cache still shows a version before the growth.
SPECIFICATION Spec
CONSTANTS
  Roles = {1}
  Counts = {1, 2}
  Operators = {o1}
  Settled = FALSE
  MaxEdits = 3
  MaxFaults = 0
  MaxLostAcks = 0
  MaxStale = 6
INVARIANTS RegisteredHavePods
