\* Seven configuration files, three signals.
CONSTANTS
    Builtin <- McBuiltin
    FirstNew = 10
    CompiledDefault = 3
    Options <- McOptions
    Files <- McFiles
    MaxSignals = 3
SPECIFICATION Spec
INVARIANTS
    TypeOK
    SearchesReadOpen
    EverythingClosed
    NumbersSound
\* the process may exit
CHECK_DEADLOCK FALSE
