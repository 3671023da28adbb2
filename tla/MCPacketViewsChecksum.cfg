CONSTANTS
    Shapes <- EveryKind
    Misread <- SomeMisread
    MaxPi = 2
    MaxReads = 1
SPECIFICATION Spec
INVARIANT ChecksumInTransportHeader
CHECK_DEADLOCK FALSE
