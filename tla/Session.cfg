\* One session under every timer, four kinds of access lists and a query
\* limit the client reaches: safety, refinement and liveness.
CONSTANTS
    ann = ann
    bob = bob
    both = both
    inner = inner
    part = part
    Users = {ann, bob}
    Nobody = Nobody
    Dbs = {both, inner, part}
    Invisible = {inner}
    Members <- McMembers
    Policies <- McPolicies
    Timings = {"limit_time", "delay"}
    LimitQueries = 4
    Commands <- McCommands
    MaxLines = 4
    MaxAhead = 1
SPECIFICATION FairSpec
INVARIANTS
    TypeOK
    AccessAsGranted
    NoIdleTimerWhileWorking
PROPERTIES
    ImplementsProtocol
    LimitedSessionsEnd
    LinesDealtWith
\* a session that is closed stays closed
CHECK_DEADLOCK FALSE
