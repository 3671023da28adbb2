CONSTANTS
    Packets <- Objects
    Wanted = {2, 3}
    MaxChunks = 4
SPECIFICATION Spec
INVARIANTS
    TypeOK
    OptionsFit
    OptionAgrees
    ChunksCover
PROPERTIES
    CallsEnd
CHECK_DEADLOCK FALSE
