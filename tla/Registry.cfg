SPECIFICATION Spec
CONSTANTS
    j1 = j1
    j2 = j2
    j3 = j3
    k1 = k1
    NoKey = NoKey
    Job = {j1, j2, j3}
    Key = {k1}
    ParamBytes = {1, 2}
    ErrorBytes = {2}
    MessageBytes = {1, 2}
    MaxInflight = 2
    MaxLiveBytes = 2
    MaxHistoryJobs = 2
    MaxHistoryBytes = 6
    MaxSingle = 6
    MaxError = 1
    MaxMessage = 3
SYMMETRY Symmetry
CONSTRAINT OneSpeaks
INVARIANTS
    Accounting
    KeyExclusive
    NobodyForgotten
    ClaimHeld
    PublicationMatrix
    MessagesOnce
PROPERTIES
    HistoryIsFinal
    ImplementsLifecycle
CHECK_DEADLOCK FALSE
