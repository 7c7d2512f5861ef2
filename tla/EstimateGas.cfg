CONSTANTS
    GasLimit = 12
    TxMaxGas = 10
SPECIFICATION Spec
INVARIANTS
    EstimateIsLeastGas
PROPERTIES
    EstimateTerminates
CHECK_DEADLOCK FALSE
