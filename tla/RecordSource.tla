---------------------------- MODULE RecordSource ----------------------------
(***************************************************************************)
(* What a stream reader promises its caller, with no framing in sight: the *)
(* records that were written, in order, one a call; the end of the stream  *)
(* only after the last of them; a record over the limit is refused and     *)
(* nothing is returned after it.  A stream that is not intact, because its *)
(* end is missing or its reader fails there, may say so once the records   *)
(* before the damage are returned, and may return what is left of the      *)
(* damaged one.                                                            *)
(***************************************************************************)
EXTENDS Naturals, Sequences

VARIABLES
  limit,                  \* size that a record may not exceed
  intact,                 \* whether the stream is all there
  remaining,              \* whole records not yet returned
  returned,               \* records returned so far
  status                  \* "open", "ended", "refused" or "failed"

sourceVars == <<limit, intact, remaining, returned, status>>

Return ==
  /\ status = "open" /\ remaining # << >> /\ Len(Head(remaining)) <= limit
  /\ returned' = Append(returned, Head(remaining))
  /\ remaining' = Tail(remaining)
  /\ UNCHANGED <<limit, intact, status>>

\* What is left of a damaged record is taken for a record.
ReturnTorn ==
  /\ status = "open" /\ remaining = << >> /\ ~intact
  /\ Len(returned') = Len(returned) + 1
  /\ SubSeq(returned', 1, Len(returned)) = returned
  /\ UNCHANGED <<limit, intact, remaining, status>>

End ==
  /\ status = "open" /\ remaining = << >>
  /\ status' = "ended"
  /\ UNCHANGED <<limit, intact, remaining, returned>>

Refuse ==
  /\ status = "open"
  /\ IF remaining = << >> THEN ~intact ELSE Len(Head(remaining)) > limit
  /\ status' = "refused"
  /\ UNCHANGED <<limit, intact, remaining, returned>>

Fail ==
  /\ status = "open" /\ remaining = << >> /\ ~intact
  /\ status' = "failed"
  /\ UNCHANGED <<limit, intact, remaining, returned>>

SourceInit == returned = << >> /\ status = "open"
SourceNext == Return \/ ReturnTorn \/ End \/ Refuse \/ Fail

\* A caller that keeps asking is answered until the source is exhausted.
SourceSpec ==
  SourceInit /\ [][SourceNext]_sourceVars
    /\ WF_sourceVars(Return \/ End \/ Refuse)

=============================================================================
