------------------------------- MODULE MCTUIRun -------------------------------
(***************************************************************************)
(* Short inputs on the tree 1 -> 2, 4;  2 -> 3: every one of up to four    *)
(* bytes, and up to three arrows, broken off at any byte.  The byte "f" is *)
(* also the text of a search.                                              *)
(***************************************************************************)
EXTENDS TUIRun

Seqs == INSTANCE SequencesExt

MCLast == [n \in 1 .. 4 |-> CASE n = 1 -> 4 [] n = 2 -> 3 [] OTHER -> n]
MCHit == [f \in Filters |-> {3}]

MaxTyped == 4
Keys == {"A", "B", "C", "D", "H", "F"}
Typed == {"ESC", "[", "A", "B", "D", "/", "f", "CR", "q", "e"}
MCTypedBytes == Typed \cup Keys

Arrows(ks) == Seqs!FlattenSeq([i \in DOMAIN ks |-> <<"ESC", "[", ks[i]>>])

MCInputs ==
  Seqs!BoundedSeq(Typed, MaxTyped)
    \cup {SubSeq(Arrows(ks), 1, n) : ks \in [1 .. 3 -> Keys], n \in 0 .. 9}
=============================================================================
