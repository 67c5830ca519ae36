CONSTANTS
    SliceBase = 1
    SliceStep = 0
    NiceScale = 0
    NiceBias = 0
    IdlePri = 0
    Idle = idle
    Threads = {cmdline}
    Creators = {idle}
    BootThreads = {cmdline}
    Waiters = {cmdline}
    Quitters = {}
    WaitQueues = {kbdsem}
    Timeouts = {}
    MaxTicket <- MCMaxTicket
    Reader = cmdline
    KbdSem = kbdsem
    RingSize = 3
    Keys = {letter, mute}
    Letters = {letter}
    Mute = {mute}
    NIL = NIL
    INFINIT = INFINIT
    Hosts = {p1, p2}
    Macs = {m1, m2, m3}
    OwnIp = ip0
    OwnMac = mac0
    AnyIp = any
    PortAll = all
    ServerPort = sp
    Ports = {q1, q2}
    ListSize = 2
    NRxDesc = 4
    MaxRxFrames = 9
    MaxLinkPolls = 10
    RxCells = 7
    FrameLens = {4, 5, 9}
    MaxRtlFrames = 4
    Chunks = 3
    MaxRetry = 3
    MaxMishaps = 2
    Heads = 2
    TrackSects = 3
    PartStart = 5
    NSectorSize = 4
    SectNumSize = 8
    Addrs = {0, 2, 5}
    Sizes = {1, 2, 3}
    Partitions = {part0, part1}
    NoPart = NoPart
    FsPages = {1, 2, 3}
    NoFsPage = 0
    Dirs = {"root", "A", "B", "AB"}
    RootDir = "root"
    Listing <- MCListing
    Paths <- MCPaths
    PrefixNames <- MCPrefix
    MaxDepth = 3
    DirectBlocks = 3
    PerBlock = 3
    WordSize = 64
    MaxFileBlocks = 26
    Typed = {"a", "c", " "}
    NUL = "0"
    SP = " "
    NL = "n"
    Commands <- MCCommands
    BuffSize = 7
    ArgvSize = 2
    Elements = {1, 2, 3, 4}
    MaxElements = 5
    ModFiles <- MCModFiles
    ModBuffs = {b1, b2, b3}
    NoName = NoName
SPECIFICATION DevicesSpec
INVARIANTS NoCharOnlyIfStray ArpSound AnswersAsker RxComplete OwnBits FramesWhole RamWritten TransferWhole MountsOwnPages FileWhole LineAsShown LibraryRight ModulesAccounted
PROPERTIES RingIsFifo KeyWakesReader
CHECK_DEADLOCK FALSE
