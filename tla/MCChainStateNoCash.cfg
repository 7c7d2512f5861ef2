CONSTANTS
    alice = alice
    bob = bob
    carol = carol
    dave = dave
    tA = tA
    tB = tB
    tC = tC
    tD = tD
    tE = tE
    aA = aA
    aB = aB
    aC = aC
    aD = aD
    aE = aE
    None = None
    Accts <- MCAccts
    TxIds <- MCTxIds
    Tx <- MCTx
    Genesis <- MCGenesis
    Mcis <- MCMcis
    MaxFaults = 2
    Aps <- MCAps
    Ap <- MCAp
    McApproves <- MCMcApproves
    WitnessCount = 2
    InitialWitnesses <- MCInitialWitnesses
    EpochPeriod = 1
SPECIFICATION Spec
INVARIANT NotEnoughCashConsumesNonce
CHECK_DEADLOCK FALSE
