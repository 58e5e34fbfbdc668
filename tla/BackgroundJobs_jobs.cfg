SPECIFICATION FairSpec
CONSTANTS
  Jobs = {j1, j2}
  MaxTasks = 1
  MaxFaults = 1
  Roots = {r1, r2}
  MaxTouches = 2
  MaxPatches = 1
  Grabs = {a1, a2}
  Fetches = {b1}
  MaxAttempts = 2
INVARIANTS
  TypeOK
  CountsAddUp
  RegistryIsTruthful
  OneAtATime
  RunningHasItsJob
  NoChangeIsForgotten
  
  ClaimsAreHeld
  TrackedOnce
PROPERTIES
  WorkGetsDone
CHECK_DEADLOCK FALSE
