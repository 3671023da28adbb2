CONSTANTS
    Octets = 2
    OctetBits = 2
    Packets <- SomePackets
    Homes = {"v4", "v6"}
    HomePrefix <- HomeNets
    FlowLengths = {0, 1}
    HomeLengths = {1, 2}
    MaxPackets = 4
SPECIFICATION Spec
INVARIANTS
    TypeOK
    OneEntryPerFlow
    OneHomeEntry
PROPERTY ImplementsCounts
CHECK_DEADLOCK FALSE
