CONSTANTS
    Fd = {"pty", "server", "client", "console"}
    UsePty = TRUE
    Conns = {c1}
    NoConn = NoConn
    Capacity = 2
    PipeCap = 1
    SockCap = 1
    ConsoleCap = 1
    DrainSize = 1
    MaxFds = 5
    OutBytes = 5
    ErrBytes = 0
    InBytes = 2
    Closes = 0
SPECIFICATION LiveSpec
INVARIANTS
    TypeOK
    OutputWakeup
    InputWakeup
PROPERTIES
    ChildUnblocked
CHECK_DEADLOCK FALSE
