SPECIFICATION Spec
CONSTANTS
    a = a
    b = b
    c = c
    w1 = w1
    w2 = w2
    cl = cl
    NoJob = NoJob
    Worker = {w1, w2}
    Client = {}
    Job = {a, b, c}
    Program <- Family
    Root = {a, c}
    Cancelable = {a}
    Watch <- WatchNone
    Outcome = {"completed", "panic"}
    Fault = {"load", "prepare", "panic", "shutdown"}
    PanicLimit = 2
SYMMETRY WorkerSymmetry
INVARIANTS
    SingleOwner
    NoWakeupIsLost
PROPERTIES
    ImplementsLifecycle
CHECK_DEADLOCK FALSE
