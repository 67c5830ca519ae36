CONSTANTS
    SliceBase = 1
    SliceStep = 1
    NiceScale = 1
    NiceBias = 0
    IdlePri = 0
    Idle = idle
    Threads = {a, b}
    Creators = {idle, a}
    BootThreads = {}
    Waiters = {a}
    Quitters = {b}
    WaitQueues = {w1}
    Timeouts = {}
    NIL = NIL
    INFINIT = INFINIT
SPECIFICATION Spec
INVARIANTS IInv TypeOK OneList IdleReady SliceWithinGrant BackupSpent
CHECK_DEADLOCK FALSE
