SPECIFICATION FairSpec
CONSTANTS
  c1 = c1
  c2 = c2
  w1 = w1
  w2 = w2
  w3 = w3
  w4 = w4
  Containers <- TwoContainers
  Workers <- FourWorkers
  Home <- Placement
  MaxFaults = 2
  Nobody = Nobody
  Gone = Gone
CHECK_DEADLOCK FALSE
INVARIANTS
  TypeOK
  SchemaMatchesVersion
  HeadWhenScripted
  LockOnlyWhileUpgrading
PROPERTIES
  HookUpgradesNeverCollide
  ComesUp
