\* Two requests, sent ahead or not, of eight kinds; either end may die in the
\* middle of a write, and one signal may cut a write short.
CONSTANTS
    Requests <- McRequests
    LineLimit = 3
    CommandLimit = 2
    MaxRequests = 2
    MaxSignals = 1
SPECIFICATION ChannelSpec
INVARIANTS
    ChannelTypes
    CommandsArrive
    TextsArrive
    InSync
\* a session that is over stays over
CHECK_DEADLOCK FALSE
