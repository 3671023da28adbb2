CONSTANTS
    Views <- Objects
    Digits = {4, 9}
    Size = 64
    MaxWrites = 2
SPECIFICATION Spec
INVARIANTS
    TypeOK
    GettersStayNear
PROPERTIES
    AssignOnlyOwn
    SetThenGet
    AssignStaysNear
CHECK_DEADLOCK FALSE
