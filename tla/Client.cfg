\* Two servers, of which one has a key, and a pipe that holds two commands.
CONSTANTS
    Hosts = {"one", "two"}
    HasKey = {"two"}
    Words = {"ant", "bat", "cow"}
    Defs <- McDefs
    Near <- McNear
    Jobs <- McJobs
    Pipe = 2
    Room = 2
    RoomBack = 2
SPECIFICATION Spec
INVARIANTS
    RepliesMatch
    CommandsDelivered
    NoFreedText
    NeverBlocked
    ExitAsDocumented
PROPERTIES
    ClientEnds
