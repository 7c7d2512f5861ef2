CONSTANTS
    NumBlocks = 3
    Rank <- MCRank
    w1 = w1
    w2 = w2
    Senders <- MCSenders
    Witnesses <- MCWitnesses
    GenesisFrom = w1
    MaxParents = 2
    SkiplistDivisor = 2
    Finality = TRUE
    None = None
SPECIFICATION FairSpec
PROPERTIES
    ClaimedMciBecomesStable
CHECK_DEADLOCK FALSE
