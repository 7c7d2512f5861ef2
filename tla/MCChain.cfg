CONSTANTS
    NumBlocks = 4
    Rank <- MCRank
    w1 = w1
    w2 = w2
    Senders <- MCSenders
    Witnesses <- MCWitnesses
    GenesisFrom = w1
    MaxParents = 2
    SkiplistDivisor = 2
    Finality = FALSE
    None = None
SPECIFICATION Spec
INVARIANTS
    TypeOK
    MainChainIsBestParentPath
    FreeTipsAreChildless
    StableSetIsPastOfLastStable
    StableIndexOrder
    SkipListMatchesReference
    McInfoOfStableBlocks
    ForkDetection
    IncludedMciFresh
PROPERTIES
    StableIsFinal
    RefinesStableLedger
CHECK_DEADLOCK FALSE
VIEW MCSafetyView
