SPECIFICATION Spec
CONSTANTS
  Pods = {a, b}
  Processes = {p, q}
  Modes <- MCModes
  None = None
  MaxEdits = 2
  MaxFaults = 1
INVARIANTS TypeOK NeverLockedOut NoPodRefusesItsHash
PROPERTY RollsIntoMode
