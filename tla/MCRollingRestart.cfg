\* Both roles rolled from caches one version late, writes and faults meanwhile.
SPECIFICATION Spec
CONSTANTS
  Replicas <- TwoDataThreeCoordinators
  Revisions = {1, 2}
  FlagsOnly <- NoPairs
  NoRestart <- NoPairs
  Settled = TRUE
  MaxLag = 1
  MaxEdits = 1
  MaxFaults = 1
  MaxCrashes = 0
  MaxWrites = 1
INVARIANTS TypeOK OneDownPerRole RestartedOncePerEdit OneFailoverPerEdit
PROPERTIES RestartKeepsProvenWrites
