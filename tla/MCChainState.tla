--------------------------- MODULE MCChainState ---------------------------
(***************************************************************************)
(* Two branches over the genesis block, 1-2 and 3-4-5: the second one is   *)
(* long enough to be parked by the first and to be unparked again.         *)
(***************************************************************************)
EXTENDS ChainState

TwoBranches == 0..5
TwoBranchesParent == [b \in TwoBranches |->
    CASE b = 0 -> Null
      [] b \in {1, 3} -> 0
      [] OTHER -> b - 1]

ForkedBranches == 0..6
ForkedBranchesParent == [b \in ForkedBranches |->
    IF b = 6 THEN 3 ELSE TwoBranchesParent[b]]

ShortBranches == 0..4
ShortBranchesParent == [b \in ShortBranches |-> TwoBranchesParent[b]]
\* -maxreorgdepth=-1: no block is ever finalized automatically.
NoFinalization == -1

===========================================================================
