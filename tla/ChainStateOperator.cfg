CONSTANTS
    Null = Null
    Blocks <- ShortBranches
    Parent <- ShortBranchesParent
    BadBlocks = {}
    BadConnect = {}
    MaxReorgDepth <- NoFinalization
    FinalizeHeaders = TRUE
    ParkDeepReorg = TRUE
    AutomaticUnparking = TRUE
    Operations = {"park", "unpark", "precious", "finalize", "invalidate", "reconsider"}
    MaxCalls = 2
    CallsWait = TRUE

SPECIFICATION Spec
CHECK_DEADLOCK FALSE

INVARIANTS
    CandidatesAreCompleteWhenIdle
    FinalizedIsOnTheTipsFork
    ChildFlagsHaveAnOrigin
    ActiveChainIsValidWhenIdle
