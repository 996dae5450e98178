------------------------------ MODULE MCMetaDiff ------------------------------
(***************************************************************************)
(* Two balances and an entry without one.  Integers have two bits, so      *)
(* that a balance may be any of them.                                      *)
(***************************************************************************)
EXTENDS MetaDiff

MCMin == -2
MCAmounts == [k \in Keys |-> CASE k = "account" -> -2 .. 1
                                [] k = "trustline" -> {1}
                                [] OTHER -> {0}]
=============================================================================
