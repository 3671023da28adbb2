CONSTANTS
    Second = 2
    Timeouts = {0, 1, 2}
    Sleeps <- Waits
    MaxWaiting = 2
SPECIFICATION FairSpec
INVARIANTS
    TypeOK
    StartedMirrorsHandle
    TimeoutNotEarly
PROPERTIES
    PacketEndsRead
    QuietReadEnds
CHECK_DEADLOCK FALSE
