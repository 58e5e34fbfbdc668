SPECIFICATION Spec
CONSTANTS
    j1 = j1
    j2 = j2
    Job = {j1}
    Worker = {1}
    Local = {}
    Capable <- AllCapable
    Awaited = {}
    Cancellable = {j1}
    Uploader = {1}
    MaxSessions = 1
    MaxRestarts = 0
    MaxDrops = 0
    NoJob = NoJob
    Sweeper = Sweeper
PROPERTIES
    DoneKeepsItsBytes
CHECK_DEADLOCK FALSE
