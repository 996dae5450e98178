--------------------------- MODULE StreamRoundTrip ---------------------------
(***************************************************************************)
(* A stream written by the writers of stream_parser.go and read back by    *)
(* its StreamParser, whole or cut short, by a caller that stops at the     *)
(* first error, as Drain, runStream and DecodeEach do.                     *)
(***************************************************************************)
EXTENDS StreamWriters

CONSTANTS
  RecordUnits,     \* the unit values that records are made of
  MaxRecords,
  MaxUnits,        \* units in all the records together
  Fragments,       \* maxFragmentSize values of the record-marking writer
  Limits           \* maxRecordSize values of the parser

ASSUME RoundTripAssumption ==
  /\ RecordUnits \subseteq Units
  /\ MaxRecords \in Nat /\ MaxUnits \in Nat
  /\ Fragments \subseteq Nat /\ Limits \subseteq 1 .. (WordSpan - 1)

VARIABLES
  written,   \* the records that were written
  writer,    \* the writer that framed them
  ends,      \* where each of them ends in the stream
  lost       \* units cut off the end of the stream

rtVars == <<vars, written, writer, ends, lost>>

Writers ==
  [framing : {"recordMarking"}, frag : Fragments]
    \cup [framing : {"lengthPrefixed", "base64Lines"}, frag : {0}]

\* Detection looks at the first header only: it recognises record marking
\* only where the first fragment is the last one of its record.
DetectableWriter(w, recs) ==
  (w.framing = "recordMarking" /\ w.frag # 0 /\ recs # << >>) =>
    Len(recs[1]) <= w.frag

Init0 ==
  /\ written \in {recs \in BoundedSeq(BoundedSeq(RecordUnits, MaxUnits), MaxRecords) :
                     Len(FlattenSeq(recs)) <= MaxUnits}
  /\ writer \in Writers
  /\ framing \in {writer.framing, "auto"}
  /\ maxRecordSize \in Limits
  /\ ends = [k \in DOMAIN written |-> Len(WrittenAll(SubSeq(written, 1, k), writer))]
  /\ NewStreamParser

\* Where the first k records end.
EndOf(k) == IF k = 0 THEN 0 ELSE ends[k]

\* The stream, or what is left of it when the end is cut off or the reader
\* fails there, read with a framing that the parser is told or can detect.
InitCut ==
  /\ Init0 /\ tail \in {"eof", "ioerr"}
  /\ framing = "auto" => DetectableWriter(writer, written)
  /\ lost \in 0 .. Len(WrittenAll(written, writer))
  /\ input = SubSeq(WrittenAll(written, writer), 1,
                    Len(WrittenAll(written, writer)) - lost)

\* The caller's loop: Next, or Drain, until an error comes back.
CallerNext ==
  /\ outcome = {}
  /\ CallNext \/ CallDrain
  /\ UNCHANGED <<written, writer, ends, lost>>

ParserReads == Read /\ UNCHANGED <<written, writer, ends, lost>>

\* The caller has its error and stops.
CallerDone ==
  /\ outcome # {} /\ pc = "idle"
  /\ UNCHANGED rtVars

RTNext == CallerNext \/ ParserReads \/ CallerDone

Fairness == WF_rtVars(outcome = {} /\ CallNext /\ UNCHANGED <<written, writer, ends, lost>>)
            /\ WF_rtVars(ParserReads)

CutSpec == InitCut /\ [][RTNext]_rtVars /\ Fairness

\* What is proved of all streams is proved of records whose length leaves the
\* last-fragment bit alone, and of lengths whose prefix does not read as text:
\* detection takes a header of four letters for base64 and reads on as that.
FitsWord == MaxUnits < RFC5531LastFragMask
NoTextHeader ==
  \A h \in 0 .. MaxUnits : ~(h \div Radix \in TextUnits /\ h % Radix \in TextUnits)
\* What is proved of lines rests on the letters of base64: detection takes them,
\* and the end of a line, for text, and none of them is a blank.
EncIsText ==
  /\ Newline \in TextUnits
  /\ \A u \in Units : Enc[u] \in Seq(TextUnits \ SpaceUnits)

-----------------------------------------------------------------------------
(***************************************************************************)
(* Properties.                                                             *)
(***************************************************************************)
\* The records a reader can hope for: an empty record is a blank line in
\* base64, which the reader skips.
Expected ==
  IF writer.framing = "base64Lines"
  THEN FlattenSeq([k \in DOMAIN written |->
                     IF written[k] = << >> THEN << >> ELSE <<written[k]>>])
  ELSE written

\* How many records lie wholly inside what is left of the stream.
Complete == Cardinality({k \in DOMAIN written : ends[k] <= Len(input)})

\* How many records that are not empty lie wholly inside what is left.
CompleteLines ==
  Cardinality({k \in DOMAIN written : written[k] # << >> /\ ends[k] <= Len(input)})

\* The records a reader of what is left can hope for.
WholeRecords ==
  SubSeq(Expected, 1,
         IF writer.framing = "base64Lines" THEN CompleteLines ELSE Complete)

\* A stream behaves as the abstract source of the records that were written:
\* the same records in the same order, the end only after the last that is
\* whole, a refusal exactly for a record over the limit, an error only where
\* something is missing, and all of it eventually.
Source == INSTANCE RecordSource WITH
  limit     <- maxRecordSize,
  intact    <- lost = 0 /\ tail = "eof",
  remaining <- SubSeq(WholeRecords, Len(delivered) + 1, Len(WholeRecords)),
  returned  <- delivered,
  status    <- CASE outcome = {} -> "open"
                 [] "EOF" \in outcome -> "ended"
                 [] "ErrRecordTooLarge" \in outcome -> "refused"
                 [] OTHER -> "failed"
ReadsWhatWasWritten == Source!SourceSpec

\* Between two calls BytesRead stands at the end of a record: exactly the
\* units of the records returned so far have been counted, headers of every
\* fragment included.
BytesReadAtBoundary ==
  pc = "idle" /\ outcome = {} /\ writer.framing # "base64Lines" =>
    totalBytes = EndOf(Len(delivered))

\* Wherever a binary stream is cut, the caller is given all the records before
\* the cut and never a piece of the torn one.
OnlyWholeRecords ==
  writer.framing # "base64Lines" =>
    /\ delivered = SubSeq(written, 1, Len(delivered))
    /\ Len(delivered) <= Complete
    /\ outcome # {} /\ outcome # {"ErrRecordTooLarge"} =>
         Len(delivered) = Complete

\* A cut base64 stream can cost the end of its last line, which is then
\* returned shorter than it was written; the lines before it are all returned,
\* untouched.
OnlyLastLineTorn ==
  writer.framing = "base64Lines" =>
    /\ Len(delivered) <= Len(Expected)
    /\ outcome # {} /\ outcome # {"ErrRecordTooLarge"} =>
         Len(delivered) >= CompleteLines
    /\ \A i \in 1 .. Len(delivered) :
         IF i < Len(delivered) \/ lost = 0 THEN delivered[i] = Expected[i]
         ELSE IsPrefix(delivered[i], Expected[i])

\* Every loop over Next comes to its end, Drain's included, however often a
\* header announces an empty fragment and however many lines are blank.
DrainTerminates == draining ~> ~draining

\* Next: "Returns io.EOF when the end of the stream is reached cleanly", so once
\* its framing is known a stream that was cut inside a record neither closes the
\* parser nor drains without an error.
TruncationSurfaces ==
  /\ writer.framing # "base64Lines" /\ Framing # "auto"
  /\ closed /\ drain.status = "done" /\ drain.err = {}
  => Len(input) = EndOf(Len(delivered))

\* Wherever a stream is cut, the caller is given what was written before the
\* cut, in order and once: a torn binary record is withheld (readRecordMarking,
\* readLengthPrefixed), and only the last line of a text can come back shorter.
RecordsDelivered ==
  OnlyWholeRecords /\ OnlyLastLineTorn

=============================================================================
