SPECIFICATION FairSpec
CONSTANTS
    None = None
    Shared = Shared
    Blocks <- MCBlocks
    Parent <- MCParent
    nHeight <- MCHeight
    Genesis = 0
    SharedIn = {1, 5}
    InitialTips = {None, 3}
    InitialLocators = {None, 0}
    Faults = TRUE
    MaxTipChanges = 2
    MaxFlushes = 1
    MaxRestarts = 1
INVARIANTS
    
    QuietMeansCaughtUp
    OnlyTheNextBlockIsMissing
PROPERTY
    SyncEnds
CHECK_DEADLOCK FALSE
