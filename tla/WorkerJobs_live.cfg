SPECIFICATION FairSpec
CONSTANTS
    j1 = j1
    j2 = j2
    Job = {j1, j2}
    Worker = {1}
    Local = {}
    Capable <- AllCapable
    Awaited = {j1}
    Cancellable = {}
    Uploader = {}
    MaxSessions = 1
    MaxRestarts = 0
    MaxDrops = 0
    NoJob = NoJob
    Sweeper = Sweeper
PROPERTIES
    UnassignedIsRouted
    OfferLeavesAbsentWorker
    EndedJobFreesItsCaller
CHECK_DEADLOCK FALSE
