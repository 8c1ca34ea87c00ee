---------------------------- MODULE MCSwapIndex -----------------------------
(* Four orders of version 2, three with a wanted token, and one of version  *)
(* 1.  The branches a, b, c and e advertise and spend them in different    *)
(* blocks.  Within a branch an order is advertised once, and no two orders *)
(* of a token offer outputs of one transaction.                            *)
EXTENDS SwapIndex

MCKeyOf(a) == CASE a = "x1" -> "k1" [] a = "x2" -> "k2" [] a = "x3" -> "k3" [] a = "y" -> "k4" [] a = "z" -> "k5"

MCVersion(a) == IF a = "y" THEN 1 ELSE 2

MCWant(a) == IF a \in {"x1", "x2", "z"} THEN "w" ELSE NoToken

MCParent == [b \in Blocks \ {Genesis} |->
    CASE b = "a1" -> "g"  [] b = "a2" -> "a1" [] b = "a3" -> "a2" [] b = "a4" -> "a3"
      [] b = "b2" -> "a1" [] b = "b3" -> "b2" [] b = "b4" -> "b3" [] b = "b5" -> "b4"
      [] b = "c4" -> "b3" [] b = "c5" -> "c4" [] b = "c6" -> "c5" [] b = "c7" -> "c6"
      [] b = "e6" -> "c5" [] b = "e7" -> "e6" [] b = "e8" -> "e7" [] b = "e9" -> "e8"]

MCHeight == [b \in Blocks |->
    CASE b = "g" -> 0 [] b = "a1" -> 1 [] b \in {"a2", "b2"} -> 2 [] b \in {"a3", "b3"} -> 3
      [] b \in {"a4", "b4", "c4"} -> 4 [] b \in {"b5", "c5"} -> 5 [] b \in {"c6", "e6"} -> 6
      [] b \in {"c7", "e7"} -> 7 [] b = "e8" -> 8 [] b = "e9" -> 9]

MCAdsOf(b) ==
    CASE b = "a1" -> <<"x1", "x3">> [] b = "a2" -> <<"x2">> [] b = "b2" -> <<"y">>
      [] b = "b3" -> <<"x2">> [] b = "e6" -> <<"z">> [] OTHER -> <<>>

MCSpends(b) ==
    CASE b = "a1" -> {"u"} [] b = "a2" -> {"k1"} [] b = "a3" -> {"k2"} [] b = "a4" -> {"k3"}
      [] b = "b2" -> {"k3"} [] b = "b3" -> {"k1", "k4"} [] b = "b4" -> {"k2"}
      [] b = "c4" -> {"v"} [] b = "c5" -> {"k2"}
      [] b = "e6" -> {"x"} [] b = "e8" -> {"k5"} [] OTHER -> {}

MCSame(k) == k

=============================================================================
