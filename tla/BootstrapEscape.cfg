SPECIFICATION Spec
CONSTANTS
    s1 = s1
    s2 = s2
    c1 = c1
    c2 = c2
    Submitter = {s1}
    Shutter = {c1}
    Workers = 2
    Fault = {"spawn"}
INVARIANTS
    NoThreadEscapes
CHECK_DEADLOCK FALSE
