SPECIFICATION Spec
CONSTANTS
  Rows = {r1, r2}
  Devices = {d1, d2}
  MaxTasks = 3
  MaxDue = 2
  MaxAttempts = 2
  MaxRetries = 1
  MaxFaults = 1
  MaxCrashes = 1
SYMMETRY Symmetry
CONSTRAINT Bound
INVARIANTS TypeOK OneTransferPerDevice InFlightIsOwned BudgetHolds CompletedWasDelivered AttemptsRise
PROPERTIES HistoryStands 
CHECK_DEADLOCK FALSE
