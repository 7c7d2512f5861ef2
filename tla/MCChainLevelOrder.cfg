CONSTANTS
    NumBlocks = 5
    Rank <- MCRank5
    w1 = w1
    w2 = w2
    Senders <- MCSenders
    Witnesses <- MCOneWitness
    GenesisFrom = w1
    MaxParents = 2
    SkiplistDivisor = 2
    Finality = TRUE
    None = None
SPECIFICATION Spec
ACTION_CONSTRAINT MCFixedAuthors
INVARIANT
    StableIndexOrder
CHECK_DEADLOCK FALSE
