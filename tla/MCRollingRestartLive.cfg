\* Current caches, a container failure, an edit at any moment that may need no restart.
SPECIFICATION FairSpec
CONSTANTS
  Replicas <- TwoDataOneCoordinator
  Revisions = {1, 2}
  FlagsOnly <- EitherWay
  NoRestart <- OneTwo
  Settled = FALSE
  MaxLag = 0
  MaxEdits = 1
  MaxFaults = 1
  MaxCrashes = 1
  MaxWrites = 0
INVARIANTS OneDownPerRole
PROPERTIES RollFinishes
