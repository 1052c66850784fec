SPECIFICATION Spec
CONSTANTS
    Code <- MCCode
    Main = "main"
    Asks <- MCAsks
    MaxAsks = 5
    MaxDepth = 2
PROPERTIES
    NextLeavesItsLine
CHECK_DEADLOCK FALSE
