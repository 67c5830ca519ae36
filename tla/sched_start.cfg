CONSTANTS
    SliceBase = 1
    SliceStep = 1
    NiceScale = 1
    NiceBias = 0
    IdlePri = 0
    Idle = idle
    Threads = {a, b}
    Creators = {idle}
    BootThreads = {}
    Waiters = {}
    Quitters = {}
    WaitQueues = {w1}
    Timeouts = {}
    NIL = NIL
    INFINIT = INFINIT
SPECIFICATION Spec
INVARIANT ThreadsStartReady
CHECK_DEADLOCK FALSE
