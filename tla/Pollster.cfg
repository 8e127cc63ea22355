CONSTANTS
    Fd = {f1, f2, f3}
    MaxFds = 2
SYMMETRY FdSymmetry
SPECIFICATION Spec
INVARIANTS
    TypeOK
    CallsAccepted
    InSync
    NeverRefused
PROPERTIES
    NoStaleEvent
    RunsAsThread
CHECK_DEADLOCK FALSE
