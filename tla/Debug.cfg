SPECIFICATION FairSpec
CONSTANTS
    Code <- MCCode
    Main = "main"
    Asks <- MCAsks
    MaxAsks = 5
    MaxDepth = 2
INVARIANTS
    NothingIsLost
    ConfirmedIsCompared
    FramesShowTheirCalls
PROPERTIES
    StopsOncePerPass
    RequestsAreServed
CHECK_DEADLOCK FALSE
