CONSTANTS
    SliceBase = 1
    SliceStep = 1
    NiceScale = 1
    NiceBias = 0
    IdlePri = 0
    Idle = idle
    Threads = {a, b}
    Creators = {idle}
    BootThreads = {}
    Waiters = {}
    Quitters = {a, b}
    WaitQueues = {w1}
    Timeouts = {}
    NIL = NIL
    INFINIT = INFINIT
SPECIFICATION FairSpec
PROPERTIES ReadyRuns ExitedReclaimed
CHECK_DEADLOCK FALSE
