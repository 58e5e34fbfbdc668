SPECIFICATION ReaderSpec
CONSTANTS
  Grants = {g1}
  Length = 2
  TunnelCapacity = 1
  WireCapacity = 1
  MaxEpoch = 2
INVARIANTS
  TypeOK
  BytesAddUp
  NoLostWakeup
  EvictedIsOver
PROPERTIES
  AttachSparesItsOwn
  
  ImplementsGrant
  ReadsEnd
CHECK_DEADLOCK FALSE
