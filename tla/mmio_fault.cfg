CONSTANTS
    Tasks0 = idle
    NewTasks = {netproc, cmdline}
    Regions = 5
    NormalRegions = 2
    TableSize = 2
    PageTables = {1, 2, 3, 4, 5}
    Devices <- MCDevices
    NoTable = 0
SPECIFICATION SpaceSpec
INVARIANT DeviceReached
CHECK_DEADLOCK FALSE
