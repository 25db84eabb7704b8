\* Both roles scaled under fairness: elections, moving addresses, a member a
\* human registered, one fault (a query lost without effect is also a refusal).
SPECIFICATION FairSpec
CONSTANTS
  CoordinatorCounts = {1, 3}
  DataCounts = {1, 2}
  Foreign = {9}
  Txns = {}
  Addresses = {"pod", "lb"}
  MaxEdits = 1
  MaxMoves = 1
  MaxFaults = 1
  MaxRefusals = 0
  MaxDowns = 0
  MaxElections = 1
INVARIANTS PlanNeverRefused
PROPERTIES StayingMembersUntouched Converges
