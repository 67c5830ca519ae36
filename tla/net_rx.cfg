CONSTANTS
    SliceBase = 1
    SliceStep = 1
    NiceScale = 1
    NiceBias = 0
    IdlePri = 0
    Idle = idle
    Threads = {netproc}
    Creators = {idle}
    BootThreads = {netproc}
    Waiters = {netproc}
    Quitters = {}
    WaitQueues = {rxefsem}
    Timeouts = {}
    MaxTicket <- MCMaxTicket
    NetProc = netproc
    RxefSem = rxefsem
    Frames = {f1, f2}
    NIL = NIL
    INFINIT = INFINIT
SPECIFICATION NetFairSpec
INVARIANTS NoSleepOnFrames
PROPERTIES FramesTaken
CHECK_DEADLOCK FALSE
