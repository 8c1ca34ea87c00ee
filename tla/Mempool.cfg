SPECIFICATION Spec
CONSTANTS
    Proofs = {"q1", "q2", "q3"}
    OutPoint <- MCOutPoint
    MaxOrphans = 1
    Txs = {"t1", "t2", "t3", "d", "e"}
    Coins = {"c1", "c2"}
    Inputs <- MCInputs
    FeeRate <- MCFeeRate
    Genuine = {"q1", "q2"}
    Spenders <- MCSpenders
    Blocks = {"g", "a1", "a2", "b1", "b2"}
    Genesis = "g"
    Parent <- MCParent
    Vtx <- MCVtx
    Bad = {"b2"}
    Upgrade = {"a2"}
    NoTx = NoTx
    NoProof = NoProof
    NoBlock = NoBlock
    MaxMempool = 3
    MaxQueue = 3
    MaxUnwind = 1
INVARIANTS
    MempoolIsConsistent
    ProofsMatchPool
    NoProofIsOverlooked
    NothingIsLost
CHECK_DEADLOCK FALSE
