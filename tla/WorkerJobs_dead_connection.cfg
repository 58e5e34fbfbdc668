SPECIFICATION Spec
CONSTANTS
    j1 = j1
    j2 = j2
    Job = {j1}
    Worker = {1}
    Local = {}
    Capable <- AllCapable
    Awaited = {}
    Cancellable = {j1}
    Uploader = {}
    MaxSessions = 1
    MaxRestarts = 0
    MaxDrops = 0
    NoJob = NoJob
    Sweeper = Sweeper
INVARIANTS
    HubHoldsSockets
CHECK_DEADLOCK FALSE
