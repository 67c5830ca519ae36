CONSTANTS
    NTxDesc = 32
    CardTxDesc = 16
    MaxTxFrames = 20
SPECIFICATION TxRingSpec
INVARIANT SentInOrder
CHECK_DEADLOCK FALSE
