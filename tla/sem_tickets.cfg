CONSTANTS
    SliceBase = 1
    SliceStep = 1
    NiceScale = 1
    NiceBias = 0
    IdlePri = 0
    Idle = idle
    Threads = {a, b}
    Creators = {idle}
    BootThreads = {}
    Waiters = {a, b}
    Quitters = {}
    WaitQueues = {w1}
    Timeouts = {}
    MaxTicket <- MCMaxTicket
    NIL = NIL
    INFINIT = INFINIT
SPECIFICATION SemSpec
INVARIANTS TicketsAccounted SleeperReachable
PROPERTY WokenFromHead
SYMMETRY MCSymmetry
CHECK_DEADLOCK FALSE
