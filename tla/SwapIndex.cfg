SPECIFICATION Spec
CONSTANTS
    Ads = {"x1", "x2", "x3", "y", "z"}
    KeyOf <- MCKeyOf
    Version <- MCVersion
    Want <- MCWant
    NoToken = NoToken
    OutPoint <- MCSame
    TokenAndHash <- MCSame
    Blocks = {"g", "a1", "a2", "a3", "a4", "b2", "b3", "b4", "b5", "c4", "c5", "c6", "c7", "e6", "e7", "e8", "e9"}
    Genesis = "g"
    Parent <- MCParent
    nHeight <- MCHeight
    AdsOf <- MCAdsOf
    Spends <- MCSpends
    historyBlocks = 3
    MaxReorg = 3
    MaxPending = 3
INVARIANTS
    WantTablesMirror
    
CHECK_DEADLOCK FALSE
