------------------------------ MODULE MCTUITree ------------------------------
(***************************************************************************)
(* A tree of seven nodes, two levels below the root:                       *)
(*   1 -> 2, 5, 6;  2 -> 3;  3 -> 4;  6 -> 7.                              *)
(***************************************************************************)
EXTENDS TUITree

MCLast == [n \in 1 .. 7 |-> CASE n = 1 -> 7 [] n \in {2, 3} -> 4
                              [] n = 6 -> 7 [] OTHER -> n]
MCHit == [f \in Filters |-> CASE f = "deep" -> {4, 7} [] f = "inner" -> {2, 3, 6}
                              [] OTHER -> {}]
=============================================================================
