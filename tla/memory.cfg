CONSTANTS
    NPages = 9
    RankNum = 3
    Areas = {"low", "normal"}
    Begin <- MCBegin
    Size <- MCSize
    Usable <- MCUsable
    Callers = {c1, c2}
    NIL = NIL
    Slabs = {1, 2, 3, 4}
    BlocksPerSlab = 2
    SlabCallers = {k1}
    NULL = NULL
    Node = {1, 3, 5, 7, 9, 11, 13, 15, 17, 18}
    Nil = 0
    Span = 2
    Probes = {0, 4, 6, 10, 19}
    RamSizes = {12, 16}
    SystemEnds = {2, 3}
    BiosBegin = 5
    BiosSize = 3
    ExtentRam = 8
    MaxRanges = 10
    Tasks0 = idle
    NewTasks = {netproc, cmdline, test}
    Regions = 5
    NormalRegions = 2
    TableSize = 2
    PageTables = {1, 2, 3, 4, 5, 6, 7, 8, 9, 10, 11, 12}
    Devices <- MCDevices
    NoTable = 0
SPECIFICATION MemorySpec
INVARIANTS Partitioned ListsConsistent Coalesced BlocksAccounted SlabListsAgree AvlBalanced RangesTile RefusedForCause MappedAtCreation
PROPERTIES AvlIsSet IsPool MappingsKept
SYMMETRY MCSymmetry
CHECK_DEADLOCK FALSE
