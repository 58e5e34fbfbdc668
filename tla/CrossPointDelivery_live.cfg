SPECIFICATION FairSpec
CONSTANTS
  Rows = {r1, r2}
  Devices = {d1}
  MaxTasks = 2
  MaxDue = 2
  MaxAttempts = 2
  MaxRetries = 0
  MaxFaults = 1
  MaxCrashes = 1
PROPERTIES QueuedIsServed DeliveriesSettle
CHECK_DEADLOCK FALSE
