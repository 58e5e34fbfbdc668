SPECIFICATION Spec
CONSTANTS
    j1 = j1
    j2 = j2
    Job = {j1}
    Worker = {1}
    Local = {j1}
    Capable <- AllCapable
    Awaited = {j1}
    Cancellable = {j1}
    Uploader = {1}
    MaxSessions = 1
    MaxRestarts = 1
    MaxDrops = 1
    NoJob = NoJob
    Sweeper = Sweeper
INVARIANTS
    TypeOK
    SingleRunner
    NoJobIsStranded
    NoWaiterIsForgotten
PROPERTIES
    ImplementsLifecycle
CHECK_DEADLOCK FALSE
