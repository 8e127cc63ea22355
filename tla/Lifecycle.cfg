CONSTANTS
    Codes = {0, 3}
    MaxSignals = 2
SPECIFICATION LiveSpec
INVARIANTS
    TypeOK
    NoOrphan
    KillsOwnChild
    CleanExit
    ChildOnPty
PROPERTIES
    SignalEndsRun
    ExitEndsRun
CHECK_DEADLOCK FALSE
