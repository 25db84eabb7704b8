SPECIFICATION Spec
CONSTANTS
  Counts = {1, 2}
  Accesses = {"none", "LoadBalancer", "Gateway"}
  NoAddress = NoAddress
  MaxEdits = 1
  MaxFaults = 1
PROPERTIES ForeignSurvives RunningStayReachable ExposureSettles
