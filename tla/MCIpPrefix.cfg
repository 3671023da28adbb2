CONSTANTS
    Strings <- SomeStrings
    Arrays <- SomeArrays
    Lengths <- Asked
    MaxObjects = 3
    MaxCalls = 5
SPECIFICATION Spec
INVARIANTS
    TypeOK
    CountedOnce
    OrderTotal
    PrefixesNest
    FirstBitIsFirst
PROPERTIES
    NetworkContains
CHECK_DEADLOCK FALSE
