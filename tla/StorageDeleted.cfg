SPECIFICATION Spec
CONSTANTS
    f = f
    p = p
    c = c
    a1 = a1
    a2 = a2
    Foreground = f
    Job = {p, c}
    NoSession = NoSession
    Caller <- Siblings
    Address = {a1, a2}
    Owner <- AllOfForeground
    Sizes = {1}
    PerJob = 4
    Limit = 8
    MaxWrites = 3
INVARIANTS
    DeletedIsUndefined
CHECK_DEADLOCK FALSE
