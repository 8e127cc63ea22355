CONSTANTS
    Fd = {"stdin", "stdout", "stderr", "server", "client", "console"}
    UsePty = FALSE
    Conns = {c1}
    NoConn = NoConn
    Capacity = 1
    PipeCap = 1
    SockCap = 1
    ConsoleCap = 1
    DrainSize = 1
    MaxFds = 5
    OutBytes = 0
    ErrBytes = 1
    InBytes = 0
    Closes = 0
SPECIFICATION LiveSpec
PROPERTIES
    StderrRead
CHECK_DEADLOCK FALSE
