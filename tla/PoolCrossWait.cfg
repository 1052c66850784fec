SPECIFICATION FairSpec
CONSTANTS
    a = a
    b = b
    c = c
    w1 = w1
    w2 = w2
    cl = cl
    NoJob = NoJob
    Worker = {w1}
    Client = {}
    Job = {a, b, c}
    Program <- CrossWait
    Root = {a, c}
    Cancelable = {}
    Watch <- WatchNone
    Outcome = {"completed"}
    Fault = {}
    PanicLimit = 3
PROPERTIES
    WaitIsHonoured
CHECK_DEADLOCK FALSE
