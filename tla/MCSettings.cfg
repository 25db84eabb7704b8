SPECIFICATION Spec
CONSTANTS
  d = d
  c = c
  e = e
  None = None
  Failed = Failed
  DataPods <- MCDataPods
  CoordinatorPods <- MCCoordinatorPods
  Licenses = {"l1", "l2"}
  Issued <- MCIssued
  Keys = {"raft", "newer", "typo"}
  Config <- MCConfig
  CoordinatorSettings = {"raft"}
  BadLevel = 9
  Specs <- MCSpecs
  FirstSpec <- MCFirstSpec
  Credentials = {1}
  Owes = {"unservable"}
  MaxChanges = 1
  MaxFaults = 1
  MaxStale = 1
INVARIANT TypeOK
PROPERTIES LicensedUnderItsOrganization ReadyIsEarned SettingsReachPods StatusCatchesUp
