---------------------------- MODULE StreamWriters ----------------------------
(***************************************************************************)
(* The writers of pkg/lens/stream_parser.go: WriteRecordMarking,           *)
(* WriteLengthPrefixed and WriteBase64Line, as the units they append.      *)
(***************************************************************************)
EXTENDS StreamParser, SequencesExt

\* binary.BigEndian.PutUint32.
PutUint32(h) == <<h \div Radix, h % Radix>>

\* RFC5531LastFragMask | n.
WithLastBit(n) == RFC5531LastFragMask + (n % RFC5531LastFragMask)

\* The fragment of rec that starts after offset, maxFragmentSize units at most.
Fragment(rec, offset, maxFragmentSize) ==
  LET remaining == Len(rec) - offset
      chunkSize == IF remaining <= maxFragmentSize THEN remaining
                   ELSE maxFragmentSize
      headerVal == IF remaining <= maxFragmentSize THEN WithLastBit(chunkSize)
                   ELSE chunkSize
  IN  PutUint32(headerVal) \o SubSeq(rec, offset + 1, offset + chunkSize)

\* The loop that splits a record takes the offsets below its length.
Offsets(rec, maxFragmentSize) ==
  [k \in 1 .. ((Len(rec) + maxFragmentSize - 1) \div maxFragmentSize) |->
     (k - 1) * maxFragmentSize]

WriteRecordMarking(rec, maxFragmentSize) ==
  IF rec = << >> THEN PutUint32(RFC5531LastFragMask)
  ELSE IF maxFragmentSize = 0 \/ maxFragmentSize >= Len(rec)
  THEN PutUint32(WithLastBit(Len(rec))) \o rec
  ELSE LET offsets == Offsets(rec, maxFragmentSize)
       IN  FlattenSeq([k \in DOMAIN offsets |->
                         Fragment(rec, offsets[k], maxFragmentSize)])

WriteLengthPrefixed(rec) == PutUint32(Len(rec) % WordSpan) \o rec

WriteBase64Line(rec) ==
  Append(FlattenSeq([i \in DOMAIN rec |-> Enc[rec[i]]]), Newline)

\* A writer is a framing and, for record marking, its maxFragmentSize.
Written(rec, writer) ==
  CASE writer.framing = "recordMarking"  -> WriteRecordMarking(rec, writer.frag)
    [] writer.framing = "lengthPrefixed" -> WriteLengthPrefixed(rec)
    [] writer.framing = "base64Lines"    -> WriteBase64Line(rec)

WrittenAll(recs, writer) ==
  FlattenSeq([i \in DOMAIN recs |-> Written(recs[i], writer)])

=============================================================================
