CONSTANTS
    Traces <- AllTraces
    MaxRecords = 2
    MaxObjects = 3
SPECIFICATION Spec
INVARIANTS
    ReadsMessage
    CheckedSurvives
CHECK_DEADLOCK FALSE
