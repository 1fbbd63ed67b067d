\* SHOW INFO of an entry that has a line of one dot.
CONSTANTS
    Requests <- DotInfo
    LineLimit = 4
    CommandLimit = 2
    MaxRequests = 1
    MaxSignals = 0
SPECIFICATION ChannelSpec
INVARIANTS
    EveryTextEnds
CHECK_DEADLOCK FALSE
