---------------------------- MODULE MCBaseIndex ----------------------------
EXTENDS BaseIndex

\* Blocks 1 and 2 on the genesis block 0, 3 and 4 on top of 1, 5 and 6 on 2.
MCBlocks == 0..6
MCParent == [b \in MCBlocks |->
    CASE b = 0 -> None
      [] b \in {1, 2} -> 0
      [] b = 3 -> 1 [] b = 4 -> 3
      [] b = 5 -> 2 [] b = 6 -> 5]
MCHeight == [b \in MCBlocks |->
    CASE b = 0 -> 0 [] b \in {1, 2} -> 1 [] b \in {3, 5} -> 2 [] b \in {4, 6} -> 3]
=============================================================================
