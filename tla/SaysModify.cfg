CONSTANTS
    Fd = {"stdin", "stdout", "stderr", "server", "client", "console"}
    UsePty = FALSE
    Conns = {c1}
    NoConn = NoConn
    Capacity = 1
    PipeCap = 1
    SockCap = 1
    ConsoleCap = 1
    DrainSize = 1
    MaxFds = 5
    OutBytes = 2
    ErrBytes = 1
    InBytes = 1
    Closes = 2
SPECIFICATION Spec
INVARIANTS
    ModifyAssertionHolds
CHECK_DEADLOCK FALSE
