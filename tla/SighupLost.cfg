\* Is every SIGHUP honoured?  One client, one configuration file that is in
\* order and never changes, no timestamp interval (the default).
CONSTANTS
    Conns = {c1}
    Configs <- OneConfig
    LimitTime = TRUE
    Preprocessor = FALSE
    MaxSignals = 2
    MaxEdits = 0
    Unloaded = Unloaded
    Nothing = Nothing
SPECIFICATION FairSpec
PROPERTIES
    SighupReloads
\* the parent may exit, which stops the system
CHECK_DEADLOCK FALSE
