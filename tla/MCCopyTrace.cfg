CONSTANT Cases <- AllCases
SPECIFICATION Spec
INVARIANTS
    TypeOK
    FlagGuards
PROPERTIES
    ImplementsCopy
    CopyCompletes
CHECK_DEADLOCK FALSE
