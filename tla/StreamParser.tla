---------------------------- MODULE StreamParser ----------------------------
(***************************************************************************)
(* The framed-record reader of pkg/lens/stream_parser.go: StreamParser,    *)
(* its Next and Drain calls and the three framings they read.              *)
(*                                                                         *)
(* A stream is a sequence of units followed by its tail: the end of input  *)
(* or a failure of the underlying reader.  Header words are HeaderLen      *)
(* units wide, so a stream can end inside one.  With Radix = 2^16 a word   *)
(* is exactly the code's uint32; the runs use a smaller Radix.             *)
(*                                                                         *)
(* An error value is the set of sentinels it wraps, which makes            *)
(* errors.Is(err, s) the membership s \in err, and {} the nil error.       *)
(***************************************************************************)
EXTENDS Integers, Sequences, FiniteSets

CONSTANTS
  HalfRadix,   \* half the number of unit values: the weight of the top bit
  TextUnits,   \* units that detectFraming takes for base64 text
  SpaceUnits,  \* units that strings.TrimSpace strips
  Newline,     \* the unit that ends a base64 line
  CarriageReturn, \* the unit that base64 decoding skips inside a line
  Enc          \* Enc[u] is the base64 text of the unit u

Radix == 2 * HalfRadix
Units == 0 .. (Radix - 1)

ASSUME RadixAssumption == HalfRadix \in Nat \ {0}
ASSUME TextAssumption  == /\ TextUnits \subseteq 0 .. (HalfRadix - 1)
                          /\ Newline # CarriageReturn
                          /\ {Newline, CarriageReturn} \subseteq SpaceUnits
                          /\ SpaceUnits \subseteq Units
ASSUME EncAssumption   == /\ Enc \in [Units -> Seq(Units)]
                          /\ \A u, v \in Units : /\ Enc[u] = Enc[v] => u = v
                                                 /\ Len(Enc[u]) = Len(Enc[v])
                                                 /\ Enc[u] # << >>

VARIABLES
  input, tail,       \* the stream behind p.reader, and how it ends
  pos,               \* units consumed from p.reader
  framing, detected, \* p.framing, p.detected
  maxRecordSize,     \* p.maxRecordSize
  chunkIndex,        \* p.chunkIndex
  totalBytes,        \* p.totalBytes
  closed,            \* p.closed
  pc,                \* "idle", or the framing loop that Next is running
  record, totalSize, \* locals of readRecordMarking
  outcome,           \* error of the last Next that returned
  delivered,         \* history: the records Next has returned
  draining, drain    \* whether Drain is running; its count and result

source == <<input, tail, framing, maxRecordSize>>
vars   == <<input, tail, pos, framing, detected, maxRecordSize, chunkIndex,
            totalBytes, closed, pc, record, totalSize, outcome, delivered,
            draining, drain>>

-----------------------------------------------------------------------------
(***************************************************************************)
(* Words and the reader.                                                   *)
(***************************************************************************)
HeaderLen == 2

RFC5531LastFragMask == HalfRadix * Radix
WordSpan == 2 * RFC5531LastFragMask

\* binary.BigEndian.Uint32 of the header that starts after position p.
Header(p)  == input[p + 1] * Radix + input[p + 2]
IsLast(h)  == h >= RFC5531LastFragMask
FragLen(h) == h % RFC5531LastFragMask

TailErrorHidden == {"EOF"}

\* What the reader reports once its units are used up.
TailError == IF tail = "eof" THEN {"EOF"} ELSE {"ReadError"}

ReadFullRequested(n, p) ==
  [n |-> n, err |-> IF n <= Len(input) - p THEN {} ELSE TailError]

\* io.ReadFull of n units at position p: the units read and the error.
\* io.ReadFull says EOF only if it read nothing, and ErrUnexpectedEOF after a
\* partial read.
ReadFull(n, p) ==
  IF n <= Len(input) - p THEN [n |-> n, err |-> {}]
  ELSE [n   |-> Len(input) - p,
        err |-> IF tail = "eof" /\ p < Len(input)
                THEN {"ErrUnexpectedEOF"} ELSE TailError]

\* totalSize += fragLen, in uint32.
AddSizeLastOnly(total, n) == n
AddSize(total, n) == (total + n) % WordSpan

TooLargeOffByOne(n) == n > maxRecordSize + 1

\* The size test of all three framings.
TooLarge(n) == n > maxRecordSize

-----------------------------------------------------------------------------
(***************************************************************************)
(* detectFraming: a peek at the first header, which consumes nothing.      *)
(***************************************************************************)
DetectError ==
  IF Len(input) - pos >= HeaderLen THEN {}
  ELSE IF tail = "eof" /\ Len(input) = pos THEN {"EOF"}
  ELSE {"ErrPrematureEOF"} \cup TailError

DetectFraming ==
  IF \A i \in (pos + 1) .. (pos + HeaderLen) : input[i] \in TextUnits
  THEN "base64Lines"
  ELSE IF IsLast(Header(pos)) THEN "recordMarking" ELSE "lengthPrefixed"

DetectingAlways == framing = "auto"
Detecting == framing = "auto" /\ detected = "auto"

\* The framing Next switches on.
EffectiveFraming ==
  IF framing # "auto" THEN framing
  ELSE IF Detecting THEN DetectFraming ELSE detected

-----------------------------------------------------------------------------

(***************************************************************************)
(* The end of a Next call.  Drain counts a record and calls Next again; it *)
(* turns an error that is io.EOF into a nil result.                        *)
(***************************************************************************)
DrainStepRetries(err) ==
  IF ~draining THEN UNCHANGED <<draining, drain>>
  ELSE IF "EOF" \in err
  THEN /\ draining' = FALSE
       /\ drain' = [status |-> "done", count |-> drain.count, err |-> {}]
  ELSE UNCHANGED <<draining, drain>>

DrainStepSwallows(err) ==
  IF ~draining THEN UNCHANGED <<draining, drain>>
  ELSE IF err = {}
  THEN /\ UNCHANGED draining
       /\ drain' = [status |-> "running", count |-> drain.count + 1, err |-> {}]
  ELSE /\ draining' = FALSE
       /\ drain' = [status |-> "done", count |-> drain.count, err |-> {}]

DrainStep(err) ==
  IF ~draining THEN UNCHANGED <<draining, drain>>
  ELSE IF err = {}
  THEN /\ UNCHANGED draining
       /\ drain' = [status |-> "running", count |-> drain.count + 1, err |-> {}]
  ELSE /\ draining' = FALSE
       /\ drain' = [status |-> "done", count |-> drain.count,
                    err |-> IF "EOF" \in err THEN {} ELSE err]

\* Next closes the parser on an error that wraps io.EOF ...
ClosesStream(err) == "EOF" \in err

\* ... and returns that error.
Fail(err) ==
  /\ pc' = "idle"
  /\ outcome' = err
  /\ DrainStep(err)
  /\ record' = << >> /\ totalSize' = 0
  /\ UNCHANGED <<chunkIndex, delivered, detected>>

FailReading(err) == Fail(err) /\ closed' = (closed \/ ClosesStream(err))

\* Next returns a complete record.
Deliver(rec) ==
  /\ pc' = "idle"
  /\ outcome' = {}
  /\ DrainStep({})
  /\ delivered' = Append(delivered, rec)
  /\ chunkIndex' = chunkIndex + 1
  /\ record' = << >> /\ totalSize' = 0
  /\ UNCHANGED <<closed, detected>>

ConsumeUncounted(n) ==
  /\ pos' = pos + n
  /\ totalBytes' = totalBytes + (IF n = HeaderLen THEN 0 ELSE n)

\* n more units leave the reader and are counted.
Consume(n) == pos' = pos + n /\ totalBytes' = totalBytes + n

-----------------------------------------------------------------------------
(***************************************************************************)
(* Next up to its switch: the closed test, detection, the dispatch.        *)
(***************************************************************************)
NextClosed ==
  /\ pc = "idle" /\ closed
  /\ Fail({"ErrStreamClosed"})
  /\ UNCHANGED <<source, pos, totalBytes, closed>>

\* A failed detection returns before the code that closes the parser.
NextDetectFails ==
  /\ pc = "idle" /\ ~closed /\ Detecting /\ DetectError # {}
  /\ Fail(DetectError)
  /\ UNCHANGED <<source, pos, totalBytes, closed>>

NextUnknownFraming ==
  /\ pc = "idle" /\ ~closed /\ framing = "unknown"
  /\ Fail({"ErrInvalidFraming"})
  /\ UNCHANGED <<source, pos, totalBytes, closed>>

NextDispatches ==
  /\ pc = "idle" /\ ~closed /\ framing # "unknown"
  /\ Detecting => DetectError = {}
  /\ detected' = IF Detecting THEN DetectFraming ELSE detected
  /\ pc' = EffectiveFraming
  /\ UNCHANGED <<source, pos, chunkIndex, totalBytes, closed, record,
                 totalSize, outcome, delivered, draining, drain>>

CallNext == NextClosed \/ NextDetectFails \/ NextUnknownFraming \/ NextDispatches

CallDrain ==
  /\ pc = "idle" /\ ~draining
  /\ draining' = TRUE
  /\ drain' = [status |-> "running", count |-> 0, err |-> {}]
  /\ UNCHANGED <<source, pos, detected, chunkIndex, totalBytes, closed, pc,
                 record, totalSize, outcome, delivered>>

-----------------------------------------------------------------------------
(***************************************************************************)
(* readRecordMarking: one turn of its loop is one fragment.                *)
(***************************************************************************)
HeaderRead == ReadFull(HeaderLen, pos)
BodyRead   == ReadFull(FragLen(Header(pos)), pos + HeaderLen)

FragmentHeaderDelivers ==
  /\ pc = "recordMarking" /\ HeaderRead.err # {}
  /\ Consume(HeaderRead.n)
  /\ IF "EOF" \in HeaderRead.err /\ record # << >> THEN Deliver(record)
     ELSE FailReading({"EOF"})
  /\ UNCHANGED source

\* The end of input before a record's first unit is a clean end.
FragmentHeaderFails ==
  /\ pc = "recordMarking" /\ HeaderRead.err # {}
  /\ Consume(HeaderRead.n)
  /\ FailReading(IF "EOF" \in HeaderRead.err /\ record = << >>
                 THEN {"EOF"} ELSE {"ErrPrematureEOF"} \cup HeaderRead.err)
  /\ UNCHANGED source

EmptyLastFragment ==
  /\ pc = "recordMarking" /\ HeaderRead.err = {}
  /\ FragLen(Header(pos)) = 0 /\ IsLast(Header(pos))
  /\ Consume(HeaderLen)
  /\ Deliver(record)
  /\ UNCHANGED source

\* A fragment with data, or an empty one with more to follow.
DataFragment ==
  /\ pc = "recordMarking" /\ HeaderRead.err = {}
  /\ ~(FragLen(Header(pos)) = 0 /\ IsLast(Header(pos)))

FragmentTooLarge ==
  /\ DataFragment
  /\ TooLarge(AddSize(totalSize, FragLen(Header(pos))))
  /\ Consume(HeaderLen)
  /\ FailReading({"ErrRecordTooLarge"})
  /\ UNCHANGED source

\* The error wraps what io.ReadFull said, io.EOF included.
FragmentBodyFails ==
  /\ DataFragment
  /\ ~TooLarge(AddSize(totalSize, FragLen(Header(pos))))
  /\ BodyRead.err # {}
  /\ Consume(HeaderLen + BodyRead.n)
  /\ FailReading({"ErrPrematureEOF"} \cup BodyRead.err)
  /\ UNCHANGED source

\* The record with the fragment at pos appended.
Extended ==
  record \o SubSeq(input, pos + HeaderLen + 1,
                   pos + HeaderLen + FragLen(Header(pos)))

ReadFragment ==
  /\ DataFragment
  /\ ~TooLarge(AddSize(totalSize, FragLen(Header(pos))))
  /\ BodyRead.err = {}
  /\ Consume(HeaderLen + FragLen(Header(pos)))
  /\ \/ IsLast(Header(pos)) /\ Deliver(Extended)
     \/ /\ ~IsLast(Header(pos))
        /\ record' = Extended
        /\ totalSize' = AddSize(totalSize, FragLen(Header(pos)))
        /\ UNCHANGED <<detected, chunkIndex, closed, pc, outcome, delivered,
                       draining, drain>>
  /\ UNCHANGED source

ReadRecordMarking ==
  \/ FragmentHeaderFails \/ EmptyLastFragment \/ FragmentTooLarge
  \/ FragmentBodyFails \/ ReadFragment

-----------------------------------------------------------------------------
(***************************************************************************)
(* readLengthPrefixed.                                                     *)
(***************************************************************************)
PrefixedRead == ReadFull(Header(pos), pos + HeaderLen)

PrefixFails ==
  /\ pc = "lengthPrefixed" /\ HeaderRead.err # {}
  /\ Consume(HeaderRead.n)
  /\ FailReading(IF "EOF" \in HeaderRead.err THEN {"EOF"}
                 ELSE {"ErrPrematureEOF"} \cup HeaderRead.err)
  /\ UNCHANGED source

PrefixTooLarge ==
  /\ pc = "lengthPrefixed" /\ HeaderRead.err = {} /\ TooLarge(Header(pos))
  /\ Consume(HeaderLen)
  /\ FailReading({"ErrRecordTooLarge"})
  /\ UNCHANGED source

PrefixedDataFails ==
  /\ pc = "lengthPrefixed" /\ HeaderRead.err = {} /\ ~TooLarge(Header(pos))
  /\ PrefixedRead.err # {}
  /\ Consume(HeaderLen + PrefixedRead.n)
  /\ FailReading({"ErrPrematureEOF"} \cup PrefixedRead.err)
  /\ UNCHANGED source

PrefixedRecord ==
  /\ pc = "lengthPrefixed" /\ HeaderRead.err = {} /\ ~TooLarge(Header(pos))
  /\ PrefixedRead.err = {}
  /\ Consume(HeaderLen + Header(pos))
  /\ Deliver(SubSeq(input, pos + HeaderLen + 1, pos + HeaderLen + Header(pos)))
  /\ UNCHANGED source

ReadLengthPrefixed ==
  PrefixFails \/ PrefixTooLarge \/ PrefixedDataFails \/ PrefixedRecord

-----------------------------------------------------------------------------
(***************************************************************************)
(* readBase64Line: one turn of its loop is one line.                       *)
(***************************************************************************)
Newlines == {i \in (pos + 1) .. Len(input) : input[i] = Newline}

\* The position after reader.ReadString('\n').
LineEnd ==
  IF Newlines = {} THEN Len(input)
  ELSE CHOOSE i \in Newlines : \A j \in Newlines : i <= j

\* strings.TrimSpace of the line.
Line ==
  LET inked == {i \in (pos + 1) .. LineEnd : input[i] \notin SpaceUnits}
      first == CHOOSE i \in inked : \A j \in inked : i <= j
      last  == CHOOSE i \in inked : \A j \in inked : j <= i
  IN  IF inked = {} THEN << >> ELSE SubSeq(input, first, last)

\* base64.StdEncoding.DecodeString: carriage returns are skipped, so that a line
\* without any is decoded as it stands, and the rest is cut into groups of EncLen
\* units, each of which must be the text of a unit.
EncLen == Len(Enc[0])
Code ==
  IF \A i \in (pos + 1) .. LineEnd : input[i] # CarriageReturn THEN Line
  ELSE SelectSeq(Line, LAMBDA u : u # CarriageReturn)
Group(text, k) == SubSeq(text, (k - 1) * EncLen + 1, k * EncLen)
GroupCount(text) == Len(text) \div EncLen
Decodable(text) ==
  /\ Len(text) % EncLen = 0
  /\ \A k \in 1 .. GroupCount(text) : \E u \in Units : Enc[u] = Group(text, k)
DecodeString(text) ==
  [k \in 1 .. GroupCount(text) |-> CHOOSE u \in Units : Enc[u] = Group(text, k)]

\* A blank line is skipped; at the end of the stream it ends the loop.
BlankLine ==
  /\ pc = "base64Lines" /\ Line = << >>
  /\ Consume(LineEnd - pos)
  /\ \/ Newlines = {} /\ FailReading(TailError)
     \/ /\ Newlines # {}
        /\ UNCHANGED <<detected, chunkIndex, closed, pc, record, totalSize,
                       outcome, delivered, draining, drain>>
  /\ UNCHANGED source

MalformedLine ==
  /\ pc = "base64Lines" /\ Line # << >> /\ ~Decodable(Code)
  /\ Consume(LineEnd - pos)
  /\ FailReading({"ErrInvalidFraming"})
  /\ UNCHANGED source

\* uint32(len(data)) is what the limit is compared with.
DecodedLine ==
  /\ pc = "base64Lines" /\ Line # << >> /\ Decodable(Code)
  /\ Consume(LineEnd - pos)
  /\ IF TooLarge(GroupCount(Code) % WordSpan)
     THEN FailReading({"ErrRecordTooLarge"})
     ELSE Deliver(DecodeString(Code))
  /\ UNCHANGED source

ReadBase64Line == BlankLine \/ MalformedLine \/ DecodedLine

-----------------------------------------------------------------------------
(***************************************************************************)
(* NewStreamParser, over any stream and any configuration.                 *)
(***************************************************************************)
Framings == {"recordMarking", "lengthPrefixed", "base64Lines"}
Configurations == Framings \cup {"auto", "unknown"}

NewStreamParser ==
  /\ pos = 0 /\ detected = "auto" /\ chunkIndex = 0 /\ totalBytes = 0
  /\ closed = FALSE /\ pc = "idle" /\ record = << >> /\ totalSize = 0
  /\ outcome = {} /\ delivered = << >> /\ draining = FALSE
  /\ drain = [status |-> "none", count |-> 0, err |-> {}]

Init ==
  /\ input \in Seq(Units) /\ tail \in {"eof", "ioerr"}
  /\ framing \in Configurations
  /\ maxRecordSize \in 1 .. (WordSpan - 1)
  /\ NewStreamParser

Read == ReadRecordMarking \/ ReadLengthPrefixed \/ ReadBase64Line

Next == CallNext \/ CallDrain \/ Read

Spec == Init /\ [][Next]_vars

-----------------------------------------------------------------------------
(***************************************************************************)
(* Properties.                                                             *)
(***************************************************************************)
\* The result of StreamParser.Framing.
Framing == IF framing # "auto" THEN framing ELSE detected

Errors == {"EOF", "ErrUnexpectedEOF", "ReadError", "ErrPrematureEOF",
           "ErrRecordTooLarge", "ErrInvalidFraming", "ErrStreamClosed"}

TypeOK ==
  /\ input \in Seq(Units) /\ tail \in {"eof", "ioerr"}
  /\ pos \in 0 .. Len(input)
  /\ framing \in Configurations /\ detected \in Framings \cup {"auto"}
  /\ maxRecordSize \in 1 .. (WordSpan - 1)
  /\ chunkIndex \in Nat /\ totalBytes \in Nat
  /\ closed \in BOOLEAN
  /\ pc \in Framings \cup {"idle"}
  /\ record \in Seq(Units) /\ totalSize \in 0 .. (WordSpan - 1)
  /\ outcome \in SUBSET Errors
  /\ delivered \in Seq(Seq(Units))
  /\ draining \in BOOLEAN
  /\ drain \in [status : {"none", "running", "done"}, count : Nat,
                err : SUBSET Errors]

\* WithMaxRecordSize bounds what a binary stream can make the parser hold or
\* return, across all the fragments of a record, as long as the limit leaves
\* the uint32 sum of readRecordMarking no room to wrap.
RecordWithinLimit ==
  Framing # "base64Lines" /\ maxRecordSize <= RFC5531LastFragMask =>
    /\ Len(record) <= maxRecordSize
    /\ \A i \in DOMAIN delivered : Len(delivered[i]) <= maxRecordSize

\* A Drain that reports success has read the stream to its end, when the
\* framing was configured: no error but the end of input stops it silently.
CleanDrainConsumesAll ==
  framing # "auto" /\ drain.status = "done" /\ drain.err = {} =>
    pos = Len(input)

\* A failure of the underlying reader is never taken for the end of the
\* stream: the parser stays open and Drain reports it.
ReadErrorSurfaces ==
  tail = "ioerr" =>
    /\ ~closed
    /\ drain.status = "done" => drain.err # {}

\* Once Next has settled on a framing, every later call uses it: a stream is
\* never read half as one framing and half as another.
FramingStable ==
  [][detected # "auto" => Framing' = Framing /\ pc' \in {"idle", Framing}]_vars

=============================================================================
