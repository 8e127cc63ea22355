CONSTANTS
    Fd = {"pty", "server", "client", "console"}
    UsePty = TRUE
    Conns = {c1}
    NoConn = NoConn
    Capacity = 1
    PipeCap = 2
    SockCap = 1
    ConsoleCap = 1
    DrainSize = 1
    MaxFds = 5
    OutBytes = 2
    ErrBytes = 0
    InBytes = 1
    Closes = 2
SPECIFICATION Spec
PROPERTIES
    ReadBeforeHangup
CHECK_DEADLOCK FALSE
