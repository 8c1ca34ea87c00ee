CONSTANTS
    o1 = o1
    o2 = o2
    o3 = o3
    c1 = c1
    c2 = c2
    b1 = b1
    b2 = b2
    Spent = Spent
    Null = Null
    Outpoints <- MCOutpoints
    Coins <- MCCoins
    Blocks <- MCBlocks
    Unspendable <- MCUnspendable
SPECIFICATION Spec
INVARIANTS
    
    
    FlushIsComplete
PROPERTY ImplementsUtxoSet
