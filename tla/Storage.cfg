SPECIFICATION Spec
CONSTANTS
    f = f
    p = p
    c = c
    a1 = a1
    a2 = a2
    Foreground = f
    Job = {p, c}
    NoSession = NoSession
    Caller <- Siblings
    Address = {a1, a2}
    Owner <- AllOfForeground
    Sizes = {1, 2}
    PerJob = 3
    Limit = 4
    MaxWrites = 4
INVARIANTS
    BudgetExact
    NewestWins
    AllOrNothing
CHECK_DEADLOCK FALSE
