SPECIFICATION FairSpec
CONSTANTS
    Slot <- MCSlot
    Body <- MCBody
    Code <- MCCode
    Main <- MCMain
    Eval <- MCEval
    MaxEval = 1
    Fault = {"prepare", "refuse", "answer", "cancel", "terminate", "drop"}
INVARIANTS
    OnePlace
    Producers
    StuckMeansCycle
    FilesAreKept
PROPERTIES
    NoOvertaking
    EvaluationIsAlone
    ExecutionEnds
CHECK_DEADLOCK FALSE
