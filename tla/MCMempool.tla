----------------------------- MODULE MCMempool ------------------------------
(* A chain of transactions t1, t2, t3 with a second parent e of t3, a      *)
(* double spend d of t1, two branches that mine them in different orders   *)
(* and proofs about the output both spend: of t1 and d, of another pair,   *)
(* and one that is not good.                                              *)
EXTENDS Mempool

MCInputs(t) ==
    CASE t = "t1" -> {"c1"} [] t = "t2" -> {"t1"} [] t = "t3" -> {"t2", "e"}
      [] t = "d"  -> {"c1"} [] t = "e"  -> {"c2"}

MCFeeRate(t) ==
    CASE t = "t1" -> 3 [] t = "t2" -> 4 [] t = "t3" -> 2 [] t = "d" -> 5 [] t = "e" -> 1

MCOutPoint(q) == "c1"

MCSpenders(q) == IF q = "q1" THEN {"t1", "d"} ELSE {}

MCParent(b) ==
    CASE b = "a1" -> "g" [] b = "a2" -> "a1" [] b = "b1" -> "g" [] b = "b2" -> "b1"

(* Sorted by id, so a child may stand before its parent. *)
MCVtx(b) ==
    CASE b = "a1" -> <<"t1">> [] b = "a2" -> <<"t3", "t2", "e">> [] b = "b1" -> <<"d">>
      [] OTHER -> <<>>

=============================================================================
