CONSTANTS
    Fd = {"pty", "server", "client", "console"}
    UsePty = TRUE
    Conns = {c1}
    NoConn = NoConn
    Capacity = 2
    PipeCap = 1
    SockCap = 1
    ConsoleCap = 1
    DrainSize = 1
    MaxFds = 5
    OutBytes = 2
    ErrBytes = 0
    InBytes = 1
    Closes = 2
SPECIFICATION LiveSpec
INVARIANTS
    OutputWakeup
    InputWakeup
PROPERTIES
    CloseEndsWorker
    DeadClientReleased
    ChildUnblocked
CHECK_DEADLOCK FALSE
