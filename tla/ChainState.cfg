CONSTANTS
    Null = Null
    Blocks <- ForkedBranches
    Parent <- ForkedBranchesParent
    BadBlocks = {6}
    BadConnect = {5}
    MaxReorgDepth = 1
    FinalizeHeaders = TRUE
    ParkDeepReorg = TRUE
    AutomaticUnparking = TRUE
    Operations = {}
    MaxCalls = 0
    CallsWait = TRUE

SPECIFICATION Spec

INVARIANTS
    NoAssertFails
    NoBlockIsStranded
    QuiescentMeansBestTip
    FindMostWorkChainIsBest

PROPERTIES
    ReorgKeepsFinalized
    ActivationMakesProgress
