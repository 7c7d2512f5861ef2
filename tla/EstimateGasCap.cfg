CONSTANTS
    GasLimit = 12
    TxMaxGas = 10
SPECIFICATION Spec
INVARIANT
    CapSufficesIsFound
CHECK_DEADLOCK FALSE
