CONSTANTS
    Fd = {"pty", "server", "client", "console"}
    UsePty = TRUE
    Conns = {c1}
    NoConn = NoConn
    Capacity = 1
    PipeCap = 1
    SockCap = 1
    ConsoleCap = 1
    DrainSize = 1
    MaxFds = 5
    OutBytes = 2
    ErrBytes = 0
    InBytes = 1
    Closes = 2
SPECIFICATION Spec
INVARIANTS
    WritableAssertionHolds
CHECK_DEADLOCK FALSE
