-------------------------- MODULE MCCoinsRecovery --------------------------
(***************************************************************************)
(* A tree of two branches over c1.  Branch a spends o1 by a transaction    *)
(* that branch b has one block later, together with one that spends its    *)
(* output o2: the same coin has two heights, and a transaction spends an   *)
(* output of its own block.                                                *)
(***************************************************************************)
EXTENDS CoinsRecovery, TLC

CONSTANTS g, c1, a2, b2, b3, o1, o2

MCBlocks == {g, c1, a2, b2, b3}
MCOutpoints == {o1, o2}

MCParent == (g :> Null) @@ (c1 :> g) @@ (a2 :> c1) @@ (b2 :> c1) @@ (b3 :> b2)

MCHeight == (g :> 0) @@ (c1 :> 1) @@ (a2 :> 2) @@ (b2 :> 2) @@ (b3 :> 3)

Tx(ins, outs) == [ins |-> ins, outs |-> outs]

MCVtx ==
    (g :> {}) @@ (c1 :> {Tx({}, {o1})})
    @@ (a2 :> {Tx({}, {}), Tx({o1}, {o2})})
    @@ (b2 :> {Tx({}, {})})
    @@ (b3 :> {Tx({}, {}), Tx({o1}, {o2}), Tx({o2}, {})})
=============================================================================
