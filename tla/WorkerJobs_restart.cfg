SPECIFICATION FairSpec
CONSTANTS
    j1 = j1
    j2 = j2
    Job = {j1}
    Worker = {1}
    Local = {}
    Capable <- AllCapable
    Awaited = {}
    Cancellable = {}
    Uploader = {}
    MaxSessions = 1
    MaxRestarts = 1
    MaxDrops = 0
    NoJob = NoJob
    Sweeper = Sweeper
PROPERTIES
    UnassignedIsRouted
CHECK_DEADLOCK FALSE
