\* Every edit is carried out: takeovers, lost acknowledgements, failed passes.
SPECIFICATION FairSpec
CONSTANTS
  Roles = {1}
  Counts = {1, 2}
  Operators = {o1, o2}
  Settled = TRUE
  MaxEdits = 2
  MaxFaults = 1
  MaxLostAcks = 1
  MaxStale = 4
INVARIANTS TypeOK RegisteredHavePods
PROPERTIES ImplementsMembership GrownOnlyToDeclared Resizes
