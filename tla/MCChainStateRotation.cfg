CONSTANTS
    alice = alice
    bob = bob
    carol = carol
    dave = dave
    tA = tA
    tB = tB
    tC = tC
    tD = tD
    tE = tE
    aA = aA
    aB = aB
    aC = aC
    aD = aD
    aE = aE
    None = None
    Accts <- MCAccts
    TxIds <- MCTxIds
    Tx <- MCTx
    Genesis <- MCGenesis
    Mcis <- MCMcis
    MaxFaults = 1
    Aps <- MCAps
    Ap <- MCApFuture
    McApproves <- MCMcApproves
    WitnessCount = 2
    InitialWitnesses <- MCInitialWitnesses
    EpochPeriod = 1
SPECIFICATION Spec
INVARIANT RotationMatchesReference
CHECK_DEADLOCK FALSE
