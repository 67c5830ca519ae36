CONSTANTS
    Slabs = {1, 2}
    BlocksPerSlab = 2
    SlabCallers = {k1, k2}
    NULL = NULL
SPECIFICATION SlabSpec
INVARIANT FreeFindsSlab
CHECK_DEADLOCK FALSE
