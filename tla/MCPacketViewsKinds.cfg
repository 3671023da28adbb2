CONSTANTS
    Shapes <- EveryKind
    Misread <- SomeMisread
    MaxPi = 2
    MaxReads = 1
SPECIFICATION Spec
INVARIANTS
    TypeOK
    PktKindHasPacket
    TagMatchesProtocol
PROPERTIES
    TcpPayloadAfterHeader
    RetagIsForGood
CHECK_DEADLOCK FALSE
