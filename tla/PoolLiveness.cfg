SPECIFICATION FairSpec
CONSTANTS
    a = a
    b = b
    c = c
    w1 = w1
    w2 = w2
    cl = cl
    NoJob = NoJob
    Worker = {w1, w2}
    Client = {cl}
    Job = {a, b}
    Program <- ParentAndChild
    Root = {a}
    Cancelable = {b}
    Watch <- WatchParent
    Outcome = {"completed"}
    Fault = {"shutdown", "refuse"}
    PanicLimit = 3
PROPERTIES
    JobsEnd
    WaitsReturn
    StoppedDrains
    CancelEnds
CHECK_DEADLOCK FALSE
