SPECIFICATION Spec
CONSTANTS
    Param = {a, b}
    Requests <- OneByOne
    MaxDepth = 3
    MaxCount = 1
SYMMETRY Symmetry
INVARIANTS
    NothingIsLeftHalfDone
    SafeModeHolds
PROPERTIES
    WritesRemain
    ModesAreRestored
CHECK_DEADLOCK FALSE
