\* The parent process: safety, refinement and liveness with two clients, one or
\* two slots, two signals from the administrator, one edit of the file.
CONSTANTS
    Conns = {c1, c2}
    Configs <- MixedConfigs
    LimitTime = TRUE
    Preprocessor = FALSE
    MaxSignals = 2
    MaxEdits = 1
    Unloaded = Unloaded
    Nothing = Nothing
SPECIFICATION FairSpec
INVARIANTS
    TypeOK
    SlotAccounting
    ZombiesAnnounced
    NoConnectionLeaked
PROPERTIES
    DaemonsWithinLimit
    ImplementsService
    EveryClientAnswered
    SlotsComeBack
\* the parent may exit, which stops the system
CHECK_DEADLOCK FALSE
