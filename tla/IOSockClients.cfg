CONSTANTS
    Fd = {"pty", "server", "client", "console"}
    UsePty = TRUE
    Conns = {c1, c2}
    NoConn = NoConn
    Capacity = 2
    PipeCap = 1
    SockCap = 1
    ConsoleCap = 1
    DrainSize = 1
    MaxFds = 5
    OutBytes = 2
    ErrBytes = 0
    InBytes = 1
    Closes = 1
SPECIFICATION LiveSpec
INVARIANTS
    InterestInSync
    ConsoleQuiet
    AssertionsHold
PROPERTIES
    ImplementsPollster
    BacklogAnswered
CHECK_DEADLOCK FALSE
