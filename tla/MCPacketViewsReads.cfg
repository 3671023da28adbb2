CONSTANTS
    Shapes <- TwoPackets
    Misread <- FewMisread
    MaxPi = 2
    MaxReads = 2
SPECIFICATION Spec
INVARIANTS
    RootDescribesCurrent
    OnlyTransportMixesPackets
CHECK_DEADLOCK FALSE
