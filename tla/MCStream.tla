------------------------------ MODULE MCStream ------------------------------
(***************************************************************************)
(* Finite instances of StreamRoundTrip.                                    *)
(***************************************************************************)
EXTENDS StreamRoundTrip

\* With Radix = 16: every unit is written with four of the units 6 and 7.
MCEnc ==
  [u \in 0 .. 15 |-> <<6 + (u \div 8), 6 + ((u \div 4) % 2),
                       6 + ((u \div 2) % 2), 6 + (u % 2)>>]

\* The instance is one of those about which theorems are proved.
ASSUME MCHypotheses == FitsWord /\ NoTextHeader /\ EncIsText
=============================================================================
