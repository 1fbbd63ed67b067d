\* Chunks of three bytes, a cache of two of them.
CONSTANTS
    Files = {"a", "b", "t"}
    Texts = {"t"}
    LengthOf <- McLengthOf
    NameLength <- McNameLength
    ChunkLength = 3
    Slots = 2
    SizeOf <- McSizeOf
    Word = 65536
    MaxStamp = 4
    MaxRuns = 2
SPECIFICATION Spec
CHECK_DEADLOCK FALSE
INVARIANTS
    ReadsExact
    CacheIsLru
    NothingLost
