\* Scaling and handover of the data instances under one coordinator.
SPECIFICATION Spec
CONSTANTS
  CoordinatorCounts = {1}
  DataCounts = {1, 2, 3}
  Foreign = {}
  Txns = {t1, t2}
  Addresses = {"pod"}
  MaxEdits = 2
  MaxMoves = 0
  MaxFaults = 1
  MaxRefusals = 2
  MaxDowns = 1
  MaxElections = 0
SYMMETRY TxnSymmetry
INVARIANTS TypeOK PlanNeverRefused MainlessOnlyInsideHandover
PROPERTIES HandoverKeepsProvenWrites ShedOnlyRetired
