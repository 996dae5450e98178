----------------------------- MODULE MCStreamRaw -----------------------------
(***************************************************************************)
(* StreamParser over every short stream, well formed or not, and a caller  *)
(* that may go on calling after an error.                                  *)
(***************************************************************************)
EXTENDS StreamParser, SequencesExt

CONSTANTS RawUnits, RawLen, Limits

\* With Radix = 16: a unit is written with two of the units 4 to 7.
MCEnc == [u \in 0 .. 15 |-> <<4 + (u \div 4), 4 + (u % 4)>>]

RawInit ==
  /\ input \in BoundedSeq(RawUnits, RawLen) /\ tail \in {"eof", "ioerr"}
  /\ framing \in Configurations
  /\ maxRecordSize \in Limits
  /\ NewStreamParser

RawSpec == RawInit /\ [][Next]_vars
=============================================================================
