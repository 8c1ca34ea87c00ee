CONSTANTS
    g = g
    c1 = c1
    a2 = a2
    b2 = b2
    b3 = b3
    o1 = o1
    o2 = o2
    Null = Null
    Genesis = g
    Blocks <- MCBlocks
    Outpoints <- MCOutpoints
    Parent <- MCParent
    nHeight <- MCHeight
    Vtx <- MCVtx
    MaxCrashes = 2

SPECIFICATION Spec

INVARIANTS
    DatabaseMatchesItsHeads
    TipIsBestBlocksUtxo
    TipCanBeDisconnected
    RestartIsPossible

PROPERTIES
    ComesBack
