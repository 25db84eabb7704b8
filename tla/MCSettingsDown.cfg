SPECIFICATION Spec
CONSTANTS
  d = d
  c = c
  e = e
  None = None
  Failed = Failed
  DataPods <- MCDataPods
  CoordinatorPods <- MCTwoCoordinators
  Licenses = {"l1", "l2"}
  Issued <- MCIssued
  Keys = {"raft", "newer", "typo"}
  Config <- MCConfig
  CoordinatorSettings = {"raft"}
  BadLevel = 9
  Specs <- MCSettingSpecs
  FirstSpec <- MCPlainSpec
  Credentials = {1}
  Owes = {}
  MaxChanges = 1
  MaxFaults = 1
  MaxStale = 0
PROPERTY ReadySeesEveryPod
