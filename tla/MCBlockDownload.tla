--------------------------- MODULE MCBlockDownload ---------------------------
(* A chain of three good blocks and a branch that starts with a bad one.   *)
EXTENDS BlockDownload

CONSTANTS g, a1, a2, a3, x1, p1, p2

MCBlocks == {g, a1, a2, a3, x1}

MCParent(b) == CASE b = a1 -> g [] b = a2 -> a1 [] b = a3 -> a2 [] b = x1 -> g

MCChainOf(p) == IF p = p1 THEN {a3} ELSE {a3, x1}

=============================================================================
