\* Is an idle client always dropped under delay?  One empty line.
CONSTANTS
    ann = ann
    bob = bob
    both = both
    inner = inner
    part = part
    Users = {ann, bob}
    Nobody = Nobody
    Dbs = {both, inner, part}
    Invisible = {inner}
    Members <- McMembers
    Policies <- McPolicies
    Timings = {"delay"}
    LimitQueries = 4
    Commands <- EmptyLine
    MaxLines = 1
    MaxAhead = 1
SPECIFICATION FairSpec
PROPERTIES
    IdleClientsDropped
\* a session that is closed stays closed
CHECK_DEADLOCK FALSE
