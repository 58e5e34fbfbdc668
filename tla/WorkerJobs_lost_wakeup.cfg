SPECIFICATION Spec
CONSTANTS
    j1 = j1
    j2 = j2
    Job = {j1}
    Worker = {1}
    Local = {}
    Capable <- AllCapable
    Awaited = {}
    Cancellable = {}
    Uploader = {}
    MaxSessions = 1
    MaxRestarts = 0
    MaxDrops = 0
    NoJob = NoJob
    Sweeper = Sweeper
INVARIANTS
    ParkedMeansNobodyCan
CHECK_DEADLOCK FALSE
