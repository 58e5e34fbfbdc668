SPECIFICATION Spec
CONSTANTS
    j1 = j1
    j2 = j2
    Job = {j1}
    Worker = {1, 2}
    Local = {}
    Capable <- AllCapable
    Awaited = {}
    Cancellable = {}
    Uploader = {}
    MaxSessions = 2
    MaxRestarts = 0
    MaxDrops = 0
    NoJob = NoJob
    Sweeper = Sweeper
INVARIANTS
    NoJobIsStranded
    
PROPERTIES
    ImplementsLifecycle
CHECK_DEADLOCK FALSE
