------------------------------ MODULE MCLineDiff ------------------------------
(***************************************************************************)
(* Every pair of short values, and long values with few differences.       *)
(***************************************************************************)
EXTENDS LineDiff

CONSTANTS
  ShortLen,   \* length of the short values
  LongLen     \* length of the long ones

MCLines == 1 .. (2 * LongLen + 1)
MCContexts == {-1, 0, 1, 2}

\* Short values have three lines to choose from.  The long left value is
\* 1 .. LongLen; on the right any of its lines may be changed, or a line may
\* follow, which puts the table over its limit.
MCInit ==
  /\ \/ left \in BoundedSeq(1 .. 3, ShortLen) /\ right \in BoundedSeq(1 .. 3, ShortLen)
     \/ /\ left = [k \in 1 .. LongLen |-> k]
        /\ \E changed \in SUBSET (1 .. LongLen), extra \in {0, 1} :
             /\ extra = 1 => changed \subseteq {2}
             /\ right = [k \in 1 .. LongLen + extra |->
                        IF k \in changed \/ k > LongLen THEN k + LongLen ELSE k]
  /\ selected \in {Lines, Lines \ {1}} /\ context \in Contexts
  /\ phase = "start" /\ i = 0 /\ j = 0 /\ pairs = << >> /\ hunks = << >>

MCSpec == MCInit /\ [][DiffNext]_diffVars
=============================================================================
