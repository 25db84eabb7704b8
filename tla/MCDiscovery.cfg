SPECIFICATION Spec
CONSTANTS
  Replicas = 3
  Foreign = {human}
  Nobody = Nobody
  MaxWrites = 4
  MaxFaults = 3
INVARIANTS TypeOK ViewIsCurrent FindsSteadyLeader
PROPERTY Discovers
