CONSTANTS
    Null = Null
    Blocks <- TwoBranches
    Parent <- TwoBranchesParent
    BadBlocks = {}
    BadConnect = {}
    MaxReorgDepth <- NoFinalization
    FinalizeHeaders = TRUE
    ParkDeepReorg = TRUE
    AutomaticUnparking = TRUE
    Operations = {"invalidate"}
    MaxCalls = 1
    CallsWait = FALSE

SPECIFICATION Spec

INVARIANTS
    ActiveChainIsValidWhenIdle
