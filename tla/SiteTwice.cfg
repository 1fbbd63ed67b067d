\* The same instances; is a site directive that finds site_info set a second one?
CONSTANTS
    Builtin <- McBuiltin
    FirstNew = 10
    CompiledDefault = 3
    Options <- McOptions
    Files <- McFiles
    MaxSignals = 3
SPECIFICATION Spec
INVARIANTS
    SiteTwice
\* the process may exit
CHECK_DEADLOCK FALSE
