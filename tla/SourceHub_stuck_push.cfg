SPECIFICATION FairSpec
CONSTANTS
  Grants = {g1}
  Length = 2
  TunnelCapacity = 1
  WireCapacity = 1
  MaxEpoch = 1
PROPERTIES
  OverFreesTheTunnel
CHECK_DEADLOCK FALSE
