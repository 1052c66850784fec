SPECIFICATION FairSpec
CONSTANTS
    s1 = s1
    s2 = s2
    c1 = c1
    c2 = c2
    Submitter = {s1, s2}
    Shutter = {c1}
    Workers = 2
    Fault = {"spawn", "panic"}
INVARIANTS
    ThreadsAreListed
    SiblingsAreAccounted
PROPERTIES
    NeverReopens
    JobsEnd
    ShutdownReturns
    ThreadsLeave
CHECK_DEADLOCK FALSE
