------------------------- MODULE StreamParserProofs -------------------------
(***************************************************************************)
(* What StreamParser guarantees for every stream, every width of a header  *)
(* word, every limit and every sequence of calls.                          *)
(***************************************************************************)
EXTENDS StreamParser, FiniteSetTheorems, SequenceTheorems,
        WellFoundedInduction, TLAPS

-----------------------------------------------------------------------------
(***************************************************************************)
(* Words and reads.                                                        *)
(***************************************************************************)

\* The width of a header word is positive.
LEMMA WordWidth ==
  /\ Radix \in Nat \ {0}
  /\ RFC5531LastFragMask \in Nat \ {0}
  /\ WordSpan \in Nat \ {0}
  /\ WordSpan = 2 * RFC5531LastFragMask
<1>1. Radix \in Nat \ {0}
  BY RadixAssumption DEF Radix
<1>2. HalfRadix * Radix \in Nat \ {0}
  BY <1>1, RadixAssumption
<1> QED
  BY <1>1, <1>2 DEF RFC5531LastFragMask, WordSpan

\* A header that was read whole is a natural number.
LEMMA HeaderIsNat ==
  ASSUME input \in Seq(Units), NEW p \in Nat, HeaderLen <= Len(input) - p
  PROVE  Header(p) \in Nat
<1>1. input[p + 1] \in Nat /\ input[p + 2] \in Nat
  BY WordWidth DEF HeaderLen, Units
<1> QED
  BY <1>1, WordWidth DEF Header

\* The length field of a fragment header is below the last-fragment bit.
LEMMA FragLenBound ==
  ASSUME NEW h \in Nat
  PROVE  FragLen(h) \in Nat /\ FragLen(h) < RFC5531LastFragMask
BY WordWidth DEF FragLen

\* A number below the modulus is its own remainder.
LEMMA SmallRemainder ==
  ASSUME NEW a \in Nat, NEW n \in Nat, a < n
  PROVE  a % n = a
OBVIOUS

\* While the sum stays within a limit of at most 2^31, it does not wrap.
LEMMA NoWrap ==
  ASSUME NEW t \in Nat, NEW f \in Nat,
         t <= RFC5531LastFragMask, f < RFC5531LastFragMask
  PROVE  AddSize(t, f) = t + f
<1>1. t + f < WordSpan
  BY WordWidth
<1> QED
  BY <1>1, WordWidth, SmallRemainder DEF AddSize

\* The uint32 sum is a uint32.
LEMMA AddSizeType ==
  ASSUME NEW t \in Nat, NEW f \in Nat
  PROVE  AddSize(t, f) \in 0 .. (WordSpan - 1)
BY WordWidth DEF AddSize

\* io.ReadFull takes no more than there is, fails with a known error, and an
\* EOF of it means that the input is used up and ended there.
LEMMA ReadFullSpec ==
  ASSUME input \in Seq(Units), tail \in {"eof", "ioerr"},
         NEW n \in Nat, NEW p \in 0 .. Len(input)
  PROVE  LET r == ReadFull(n, p) IN
         /\ r.n \in Nat /\ r.n <= n /\ p + r.n <= Len(input)
         /\ r.err \in SUBSET {"EOF", "ErrUnexpectedEOF", "ReadError"}
         /\ r.err = {} <=> n <= Len(input) - p
         /\ r.err = {} => r.n = n
         /\ r.err # {} => p + r.n = Len(input)
         /\ "EOF" \in r.err => tail = "eof"
<1>1. CASE n <= Len(input) - p
  BY <1>1 DEF ReadFull
<1>2. CASE ~(n <= Len(input) - p) /\ tail = "eof" /\ p < Len(input)
  <2>1. ReadFull(n, p) = [n |-> Len(input) - p, err |-> {"ErrUnexpectedEOF"}]
    BY <1>2 DEF ReadFull
  <2> QED
    BY <1>2, <2>1
<1>3. CASE ~(n <= Len(input) - p) /\ tail = "eof" /\ ~(p < Len(input))
  <2>1. ReadFull(n, p) = [n |-> Len(input) - p, err |-> {"EOF"}]
    BY <1>3 DEF ReadFull, TailError
  <2> QED
    BY <1>3, <2>1
<1>4. CASE ~(n <= Len(input) - p) /\ tail # "eof"
  <2>1. ReadFull(n, p) = [n |-> Len(input) - p, err |-> {"ReadError"}]
    BY <1>4 DEF ReadFull, TailError
  <2> QED
    BY <1>4, <2>1
<1> QED
  BY <1>1, <1>2, <1>3, <1>4

-----------------------------------------------------------------------------
(***************************************************************************)
(* Type correctness.                                                       *)
(***************************************************************************)

\* The variables that the end of a Next call sets.
CallOK ==
  /\ detected \in Framings \cup {"auto"}
  /\ chunkIndex \in Nat
  /\ pc \in Framings \cup {"idle"}
  /\ record \in Seq(Units) /\ totalSize \in 0 .. (WordSpan - 1)
  /\ outcome \in SUBSET Errors
  /\ delivered \in Seq(Seq(Units))
  /\ draining \in BOOLEAN
  /\ drain \in [status : {"none", "running", "done"}, count : Nat,
                err : SUBSET Errors]

\* The variables that reading moves.
ReaderOK ==
  /\ input \in Seq(Units) /\ tail \in {"eof", "ioerr"}
  /\ framing \in Configurations /\ maxRecordSize \in 1 .. (WordSpan - 1)
  /\ pos \in 0 .. Len(input) /\ totalBytes \in Nat

\* TypeOK in the two parts that actions change separately.
LEMMA TypeParts == TypeOK <=> CallOK /\ ReaderOK /\ closed \in BOOLEAN
BY DEF TypeOK, CallOK, ReaderOK

\* Drain's bookkeeping keeps its type.
LEMMA DrainStepType ==
  ASSUME CallOK, NEW err \in SUBSET Errors, DrainStep(err)
  PROVE  /\ draining' \in BOOLEAN
         /\ drain' \in [status : {"none", "running", "done"}, count : Nat,
                        err : SUBSET Errors]
<1>1. CASE ~draining
  BY <1>1 DEF CallOK, DrainStep
<1>2. CASE draining /\ err = {}
  BY <1>2 DEF CallOK, DrainStep
<1>3. CASE draining /\ err # {}
  <2> DEFINE e == IF "EOF" \in err THEN {} ELSE err
  <2>1. e \in SUBSET Errors
    OBVIOUS
  <2>2. draining' = FALSE
    BY <1>3 DEF DrainStep
  <2>3. drain' = [status |-> "done", count |-> drain.count, err |-> e]
    BY <1>3 DEF DrainStep
  <2>4. drain.count \in Nat
    BY DEF CallOK
  <2> HIDE DEF e
  <2> QED
    BY <2>1, <2>2, <2>3, <2>4
<1> QED
  BY <1>1, <1>2, <1>3 DEF CallOK

\* Returning an error keeps the types.
LEMMA FailType ==
  ASSUME CallOK, NEW err \in SUBSET Errors, Fail(err)
  PROVE  CallOK'
<1>1. DrainStep(err)
  BY DEF Fail
<1> QED
  BY <1>1, DrainStepType, WordWidth DEF CallOK, Fail

\* Returning a record keeps the types.
LEMMA DeliverType ==
  ASSUME CallOK, closed \in BOOLEAN, NEW rec \in Seq(Units), Deliver(rec)
  PROVE  CallOK' /\ closed' \in BOOLEAN
<1>1. DrainStep({})
  BY DEF Deliver
<1> QED
  BY <1>1, DrainStepType, WordWidth DEF CallOK, Deliver

\* Returning a reading error keeps the types.
LEMMA FailReadingType ==
  ASSUME CallOK, NEW err \in SUBSET Errors, FailReading(err)
  PROVE  CallOK' /\ closed' \in BOOLEAN
BY FailType DEF FailReading

\* Reading what is there keeps the reader's types.
LEMMA ConsumeType ==
  ASSUME ReaderOK, NEW n \in Nat, pos + n <= Len(input), Consume(n),
         UNCHANGED source
  PROVE  ReaderOK'
BY DEF ReaderOK, Consume, source

\* What the header and the body reads of the binary framings give.
LEMMA BinaryReads ==
  ASSUME ReaderOK
  PROVE  /\ HeaderRead.n \in Nat /\ pos + HeaderRead.n <= Len(input)
         /\ HeaderRead.err \in SUBSET {"EOF", "ErrUnexpectedEOF", "ReadError"}
         /\ HeaderRead.err # {} => pos + HeaderRead.n = Len(input)
         /\ "EOF" \in HeaderRead.err => tail = "eof"
         /\ HeaderRead.err = {} =>
              /\ pos + HeaderLen <= Len(input)
              /\ Header(pos) \in Nat
              /\ FragLen(Header(pos)) \in Nat
              /\ FragLen(Header(pos)) < RFC5531LastFragMask
<1>1. HeaderLen \in Nat /\ pos \in 0 .. Len(input) /\ pos \in Nat
  BY DEF HeaderLen, ReaderOK
<1>2. input \in Seq(Units) /\ tail \in {"eof", "ioerr"}
  BY DEF ReaderOK
<1>3. /\ HeaderRead.n \in Nat /\ pos + HeaderRead.n <= Len(input)
      /\ HeaderRead.err \in SUBSET {"EOF", "ErrUnexpectedEOF", "ReadError"}
      /\ HeaderRead.err = {} <=> HeaderLen <= Len(input) - pos
      /\ HeaderRead.err # {} => pos + HeaderRead.n = Len(input)
      /\ "EOF" \in HeaderRead.err => tail = "eof"
  BY <1>1, <1>2, ReadFullSpec DEF HeaderRead
<1>4. HeaderRead.err = {} => Header(pos) \in Nat /\ pos + HeaderLen <= Len(input)
  BY <1>1, <1>2, <1>3, HeaderIsNat
<1> QED
  BY <1>3, <1>4, FragLenBound

\* The body of a fragment or of a record, read after its header.
LEMMA BodyReads ==
  ASSUME ReaderOK, HeaderRead.err = {}, NEW n \in Nat
  PROVE  LET r == ReadFull(n, pos + HeaderLen) IN
         /\ r.n \in Nat /\ r.n <= n
         /\ HeaderLen + r.n \in Nat /\ HeaderLen + n \in Nat
         /\ pos + (HeaderLen + r.n) <= Len(input)
         /\ r.err \in SUBSET {"EOF", "ErrUnexpectedEOF", "ReadError"}
         /\ r.err = {} => pos + (HeaderLen + n) <= Len(input)
         /\ r.err # {} => pos + (HeaderLen + r.n) = Len(input)
         /\ "EOF" \in r.err => tail = "eof"
<1>1. pos \in Nat /\ pos + HeaderLen \in 0 .. Len(input)
  BY BinaryReads DEF ReaderOK, HeaderLen
<1>2. input \in Seq(Units) /\ tail \in {"eof", "ioerr"} /\ Len(input) \in Nat
  BY DEF ReaderOK
<1> DEFINE r == ReadFull(n, pos + HeaderLen)
<1>3. /\ r.n \in Nat /\ r.n <= n /\ (pos + HeaderLen) + r.n <= Len(input)
      /\ r.err \in SUBSET {"EOF", "ErrUnexpectedEOF", "ReadError"}
      /\ r.err = {} <=> n <= Len(input) - (pos + HeaderLen)
      /\ r.err # {} => (pos + HeaderLen) + r.n = Len(input)
      /\ "EOF" \in r.err => tail = "eof"
  BY <1>1, <1>2, ReadFullSpec
<1>4. HeaderLen \in Nat
  BY DEF HeaderLen
<1> HIDE DEF r
<1>5. /\ r.n \in Nat /\ r.n <= n
      /\ HeaderLen + r.n \in Nat /\ HeaderLen + n \in Nat
      /\ pos + (HeaderLen + r.n) <= Len(input)
      /\ r.err \in SUBSET {"EOF", "ErrUnexpectedEOF", "ReadError"}
      /\ r.err = {} => pos + (HeaderLen + n) <= Len(input)
      /\ r.err # {} => pos + (HeaderLen + r.n) = Len(input)
      /\ "EOF" \in r.err => tail = "eof"
  BY <1>1, <1>2, <1>3, <1>4
<1> QED
  BY <1>5 DEF r

-----------------------------------------------------------------------------
(***************************************************************************)
(* Base64 lines.                                                           *)
(***************************************************************************)

\* A set of naturals that has an element has a least one, and a greatest one
\* if it is bounded.
LEMMA LeastExists ==
  ASSUME NEW S \in SUBSET Nat, S # {}
  PROVE  \E x \in S : \A y \in S : x <= y
<1>1. PICK x \in S : \A y \in S : ~(<<y, x>> \in OpToRel(<, Nat))
  BY NatLessThanWellFounded, WFMin
<1>2. \A y \in S : ~(y < x)
  BY <1>1 DEF OpToRel
<1> QED
  BY <1>2

\* A non-empty set of natural numbers with a bound has a greatest element.
LEMMA GreatestExists ==
  ASSUME NEW n \in Nat, NEW S \in SUBSET (0 .. n), S # {}
  PROVE  \E x \in S : \A y \in S : y <= x
<1> DEFINE R == {n - i : i \in S}
<1>1. R \in SUBSET Nat /\ R # {}
  <2>1. \A i \in S : n - i \in Nat
    OBVIOUS
  <2>2. PICK s \in S : TRUE
    OBVIOUS
  <2>3. n - s \in R
    BY <2>2
  <2> QED
    BY <2>1, <2>3
<1>2. PICK r \in R : \A y \in R : r <= y
  BY <1>1, LeastExists
<1>3. PICK x \in S : r = n - x
  BY <1>2
<1>4. \A y \in S : y <= x
  BY <1>2, <1>3
<1> QED
  BY <1>4

\* A line ends inside the stream, at or after the reader's position.
LEMMA LineEndBound ==
  ASSUME ReaderOK
  PROVE  LineEnd \in pos .. Len(input)
<1>1. pos \in Nat /\ Len(input) \in Nat /\ pos <= Len(input)
  BY DEF ReaderOK
<1>2. CASE Newlines = {}
  BY <1>1, <1>2 DEF LineEnd
<1>3. CASE Newlines # {}
  <2>1. Newlines \in SUBSET Nat
    BY <1>1 DEF Newlines
  <2>2. \E i \in Newlines : \A j \in Newlines : i <= j
    BY <1>3, <2>1, LeastExists
  <2>3. LineEnd \in Newlines
    BY <1>3, <2>2 DEF LineEnd
  <2> QED
    BY <1>1, <2>3 DEF Newlines
<1> QED
  BY <1>2, <1>3

\* The trimmed line is a sequence of units.
LEMMA LineType ==
  ASSUME ReaderOK
  PROVE  Line \in Seq(Units)
<1> DEFINE inked == {i \in (pos + 1) .. LineEnd : input[i] \notin SpaceUnits}
           first == CHOOSE i \in inked : \A j \in inked : i <= j
           last  == CHOOSE i \in inked : \A j \in inked : j <= i
<1>1. pos \in Nat /\ Len(input) \in Nat /\ LineEnd \in Nat /\ LineEnd <= Len(input)
  BY LineEndBound DEF ReaderOK
<1>2. CASE inked = {}
  BY <1>2 DEF Line
<1>3. CASE inked # {}
  <2>1. inked \in SUBSET (0 .. LineEnd) /\ inked \in SUBSET Nat
    BY <1>1
  <2>2. first \in inked
    <3>1. \E i \in inked : \A j \in inked : i <= j
      BY <1>3, <2>1, LeastExists
    <3> QED
      BY <3>1
  <2>3. last \in inked
    <3>1. \E i \in inked : \A j \in inked : j <= i
      BY <1>1, <1>3, <2>1, GreatestExists
    <3> QED
      BY <3>1
  <2>4. first \in 1 .. Len(input) /\ last \in 1 .. Len(input)
    <3> HIDE DEF first, last
    <3>1. first \in (pos + 1) .. LineEnd /\ last \in (pos + 1) .. LineEnd
      BY <2>2, <2>3
    <3> QED
      BY <1>1, <3>1
  <2>5. Line = SubSeq(input, first, last)
    BY <1>3 DEF Line
  <2> HIDE DEF first, last, inked
  <2>6. input \in Seq(Units)
    BY DEF ReaderOK
  <2>7. \A i \in first .. last : input[i] \in Units
    BY <2>4, <2>6
  <2> QED
    BY <2>4, <2>5, <2>7, SubSeqProperties
<1> QED
  BY <1>2, <1>3

\* What decodes is a sequence of units.
LEMMA DecodeType ==
  ASSUME ReaderOK, Decodable(Code)
  PROVE  DecodeString(Code) \in Seq(Units)
<1>1. Len(Code) \in Nat
  BY LineType DEF Code
<1>2. EncLen \in Nat \ {0}
  <2>1. 0 \in Units
    BY WordWidth DEF Units
  <2>2. Enc[0] \in Seq(Units) /\ Enc[0] # << >>
    BY <2>1, EncAssumption
  <2> QED
    BY <2>2 DEF EncLen
<1>3. GroupCount(Code) \in Nat
  BY <1>1, <1>2 DEF GroupCount
<1>4. \A k \in 1 .. GroupCount(Code) :
        (CHOOSE u \in Units : Enc[u] = Group(Code, k)) \in Units
  BY DEF Decodable
<1> QED
  BY <1>3, <1>4 DEF DecodeString

-----------------------------------------------------------------------------
(***************************************************************************)
(* What one turn of a framing loop can do: fail, return a record or go on. *)
(***************************************************************************)

\* The limit is one that the uint32 sum of fragment lengths cannot pass.
SmallLimit == maxRecordSize <= RFC5531LastFragMask

\* The record being put together is as long as the sum that is compared with
\* the limit; it exists inside readRecordMarking only, and a running loop is
\* the loop of the parser's framing.
RecordInv ==
  /\ pc = "recordMarking" \/ (record = << >> /\ totalSize = 0)
  /\ SmallLimit => Len(record) = totalSize /\ totalSize <= maxRecordSize
  /\ pc # "idle" => pc = Framing

ReadFails(n, err) ==
  /\ Consume(n) /\ FailReading(err) /\ UNCHANGED source
  /\ n \in Nat /\ pos + n <= Len(input)
  /\ err \in SUBSET Errors /\ err # {}
  /\ "EOF" \in err => tail = "eof" /\ pos + n = Len(input)

ReadDelivers(n, rec) ==
  /\ Consume(n) /\ Deliver(rec) /\ UNCHANGED source
  /\ n \in Nat /\ pos + n <= Len(input)
  /\ rec \in Seq(Units)
  /\ pc # "base64Lines" /\ SmallLimit => Len(rec) <= maxRecordSize

ReadContinues(n) ==
  /\ Consume(n) /\ UNCHANGED source
  /\ n \in Nat /\ pos + n <= Len(input)
  /\ UNCHANGED <<detected, chunkIndex, closed, pc, outcome, delivered,
                 draining, drain>>
  /\ record' \in Seq(Units) /\ totalSize' \in 0 .. (WordSpan - 1)
  /\ pc = "recordMarking" \/ UNCHANGED <<record, totalSize>>
  /\ SmallLimit => Len(record') = totalSize' /\ totalSize' <= maxRecordSize

ReadTurn ==
  \/ \E n, err : ReadFails(n, err)
  \/ \E n, rec : ReadDelivers(n, rec)
  \/ \E n : ReadContinues(n)

\* A piece of the stream that lies inside it is a sequence of units.
LEMMA PieceType ==
  ASSUME input \in Seq(Units), NEW p \in Nat, NEW n \in Nat, p + n <= Len(input)
  PROVE  /\ SubSeq(input, p + 1, p + n) \in Seq(Units)
         /\ Len(SubSeq(input, p + 1, p + n)) = n
<1>1. \A i \in (p + 1) .. (p + n) : input[i] \in Units
  OBVIOUS
<1>2. (p + n) - (p + 1) + 1 = n /\ p + 1 \in Int /\ p + n \in Int
  OBVIOUS
<1> QED
  BY <1>1, <1>2, SubSeqProperties

\* What one turn of the loop of nextRecordMarking does.
LEMMA RecordMarkingTurn ==
  ASSUME TypeOK, RecordInv, ReadRecordMarking
  PROVE  ReadTurn
<1> DEFINE f == FragLen(Header(pos))
<1>1. ReaderOK /\ CallOK /\ pos \in Nat /\ Len(input) \in Nat /\ HeaderLen \in Nat
  BY TypeParts DEF ReaderOK, HeaderLen
<1>2. CASE FragmentHeaderFails
  <2> DEFINE err == IF "EOF" \in HeaderRead.err /\ record = << >>
                    THEN {"EOF"} ELSE {"ErrPrematureEOF"} \cup HeaderRead.err
  <2>1. HeaderRead.err \in SUBSET Errors
    BY <1>1, BinaryReads DEF Errors
  <2>2. err \in SUBSET Errors /\ err # {} /\ ("EOF" \in err => "EOF" \in HeaderRead.err)
    BY <2>1 DEF Errors
  <2>3. ReadFails(HeaderRead.n, err)
    <3> HIDE DEF err
    <3>1. FailReading(err)
      BY <1>2 DEF FragmentHeaderFails, err
    <3> QED
      BY <1>1, <1>2, <2>2, <3>1, BinaryReads DEF FragmentHeaderFails, ReadFails
  <2> QED
    BY <2>3 DEF ReadTurn
<1>3. CASE EmptyLastFragment
  <2>1. HeaderLen \in Nat /\ pos + HeaderLen <= Len(input)
    BY <1>1, <1>3, BinaryReads DEF EmptyLastFragment
  <2>2. record \in Seq(Units) /\ (SmallLimit => Len(record) <= maxRecordSize)
    BY <1>1 DEF CallOK, RecordInv
  <2>3. ReadDelivers(HeaderLen, record)
    BY <1>3, <2>1, <2>2 DEF EmptyLastFragment, ReadDelivers
  <2> QED
    BY <2>3 DEF ReadTurn
<1>4. CASE FragmentTooLarge
  <2>1. pos + HeaderLen <= Len(input)
    BY <1>1, <1>4, BinaryReads DEF FragmentTooLarge, DataFragment
  <2>2. ReadFails(HeaderLen, {"ErrRecordTooLarge"})
    BY <1>1, <1>4, <2>1 DEF FragmentTooLarge, ReadFails, Errors
  <2> QED
    BY <2>2 DEF ReadTurn
<1>5. CASE FragmentBodyFails
  <2>1. HeaderRead.err = {} /\ f \in Nat
    BY <1>1, <1>5, BinaryReads DEF FragmentBodyFails, DataFragment
  <2>2. /\ HeaderLen + BodyRead.n \in Nat
        /\ pos + (HeaderLen + BodyRead.n) <= Len(input)
        /\ BodyRead.err \in SUBSET {"EOF", "ErrUnexpectedEOF", "ReadError"}
        /\ BodyRead.err # {} => pos + (HeaderLen + BodyRead.n) = Len(input)
        /\ "EOF" \in BodyRead.err => tail = "eof"
    BY <1>1, <2>1, BodyReads DEF BodyRead
  <2>3. ReadFails(HeaderLen + BodyRead.n, {"ErrPrematureEOF"} \cup BodyRead.err)
    BY <1>5, <2>2 DEF FragmentBodyFails, ReadFails, Errors
  <2> QED
    BY <2>3 DEF ReadTurn
<1>6. CASE ReadFragment
  <2>1. HeaderRead.err = {} /\ f \in Nat /\ f < RFC5531LastFragMask
    BY <1>1, <1>6, BinaryReads DEF ReadFragment, DataFragment
  <2>2. HeaderLen + f \in Nat /\ pos + (HeaderLen + f) <= Len(input)
    BY <1>1, <1>6, <2>1, BodyReads DEF BodyRead, ReadFragment
  <2>3. Extended \in Seq(Units) /\ Len(Extended) = Len(record) + f
    <3> DEFINE piece == SubSeq(input, pos + HeaderLen + 1, pos + HeaderLen + f)
    <3>1. piece \in Seq(Units) /\ Len(piece) = f
      <4>1. pos + HeaderLen \in Nat /\ (pos + HeaderLen) + f <= Len(input)
        BY <1>1, <2>1, <2>2
      <4> QED
        BY <1>1, <2>1, <4>1, PieceType DEF ReaderOK
    <3>2. record \in Seq(Units) /\ Extended = record \o piece
      BY <1>1 DEF CallOK, Extended
    <3> HIDE DEF piece
    <3> QED
      BY <3>1, <3>2, ConcatProperties
  <2>4. totalSize \in Nat /\ maxRecordSize \in Nat
    BY <1>1, WordWidth DEF CallOK, ReaderOK
  <2>5. AddSize(totalSize, f) \in 0 .. (WordSpan - 1)
    BY <2>1, <2>4, AddSizeType
  <2>6. SmallLimit => /\ Len(Extended) = AddSize(totalSize, f)
                      /\ AddSize(totalSize, f) <= maxRecordSize
    <3> SUFFICES ASSUME SmallLimit
                 PROVE  /\ Len(Extended) = AddSize(totalSize, f)
                        /\ AddSize(totalSize, f) <= maxRecordSize
      OBVIOUS
    <3>1. Len(record) = totalSize /\ totalSize <= maxRecordSize
      BY DEF RecordInv
    <3>2. AddSize(totalSize, f) = totalSize + f
      BY <2>1, <2>4, <3>1, WordWidth, NoWrap DEF SmallLimit
    <3>3. AddSize(totalSize, f) <= maxRecordSize
      BY <1>6, <2>4, <2>5, WordWidth DEF ReadFragment, TooLarge
    <3> QED
      BY <2>3, <3>1, <3>2, <3>3
  <2>7. CASE IsLast(Header(pos)) /\ Deliver(Extended)
    <3>1. ReadDelivers(HeaderLen + f, Extended)
      BY <1>6, <2>2, <2>3, <2>6, <2>7 DEF ReadFragment, ReadDelivers
    <3> QED
      BY <3>1 DEF ReadTurn
  <2>8. CASE ~IsLast(Header(pos))
    <3>1. pc = "recordMarking"
      BY <1>6 DEF ReadFragment, DataFragment
    <3>2. ReadContinues(HeaderLen + f)
      BY <1>6, <2>2, <2>3, <2>5, <2>6, <2>8, <3>1 DEF ReadFragment, ReadContinues
    <3> QED
      BY <3>2 DEF ReadTurn
  <2> QED
    BY <1>6, <2>7, <2>8 DEF ReadFragment
<1> QED
  BY <1>2, <1>3, <1>4, <1>5, <1>6 DEF ReadRecordMarking

\* What nextLengthPrefixed does.
LEMMA LengthPrefixedTurn ==
  ASSUME TypeOK, RecordInv, ReadLengthPrefixed
  PROVE  ReadTurn
<1>1. ReaderOK /\ CallOK /\ pos \in Nat /\ Len(input) \in Nat /\ HeaderLen \in Nat
  BY TypeParts DEF ReaderOK, HeaderLen
<1>2. CASE PrefixFails
  <2> DEFINE err == IF "EOF" \in HeaderRead.err THEN {"EOF"}
                    ELSE {"ErrPrematureEOF"} \cup HeaderRead.err
  <2>1. HeaderRead.err \in SUBSET Errors
    BY <1>1, BinaryReads DEF Errors
  <2>2. err \in SUBSET Errors /\ err # {} /\ ("EOF" \in err => "EOF" \in HeaderRead.err)
    BY <2>1 DEF Errors
  <2>3. ReadFails(HeaderRead.n, err)
    <3> HIDE DEF err
    <3>1. FailReading(err)
      BY <1>2 DEF PrefixFails, err
    <3> QED
      BY <1>1, <1>2, <2>2, <3>1, BinaryReads DEF PrefixFails, ReadFails
  <2> QED
    BY <2>3 DEF ReadTurn
<1>3. CASE PrefixTooLarge
  <2>1. pos + HeaderLen <= Len(input)
    BY <1>1, <1>3, BinaryReads DEF PrefixTooLarge
  <2>2. ReadFails(HeaderLen, {"ErrRecordTooLarge"})
    BY <1>1, <1>3, <2>1 DEF PrefixTooLarge, ReadFails, Errors
  <2> QED
    BY <2>2 DEF ReadTurn
<1>4. CASE PrefixedDataFails
  <2>1. HeaderRead.err = {} /\ Header(pos) \in Nat
    BY <1>1, <1>4, BinaryReads DEF PrefixedDataFails
  <2>2. /\ HeaderLen + PrefixedRead.n \in Nat
        /\ pos + (HeaderLen + PrefixedRead.n) <= Len(input)
        /\ PrefixedRead.err \in SUBSET {"EOF", "ErrUnexpectedEOF", "ReadError"}
        /\ PrefixedRead.err # {} => pos + (HeaderLen + PrefixedRead.n) = Len(input)
        /\ "EOF" \in PrefixedRead.err => tail = "eof"
    BY <1>1, <2>1, BodyReads DEF PrefixedRead
  <2>3. ReadFails(HeaderLen + PrefixedRead.n,
                  {"ErrPrematureEOF"} \cup PrefixedRead.err)
    BY <1>4, <2>2 DEF PrefixedDataFails, ReadFails, Errors
  <2> QED
    BY <2>3 DEF ReadTurn
<1>5. CASE PrefixedRecord
  <2> DEFINE h == Header(pos)
             rec == SubSeq(input, pos + HeaderLen + 1, pos + HeaderLen + h)
  <2>1. HeaderRead.err = {} /\ h \in Nat
    BY <1>1, <1>5, BinaryReads DEF PrefixedRecord
  <2>2. HeaderLen + h \in Nat /\ pos + (HeaderLen + h) <= Len(input)
    BY <1>1, <1>5, <2>1, BodyReads DEF PrefixedRead, PrefixedRecord
  <2>3. rec \in Seq(Units) /\ Len(rec) = h
    <3>1. pos + HeaderLen \in Nat /\ (pos + HeaderLen) + h <= Len(input)
      BY <1>1, <2>1, <2>2
    <3> QED
      BY <1>1, <2>1, <3>1, PieceType DEF ReaderOK
  <2>4. h <= maxRecordSize
    BY <1>1, <1>5, <2>1, WordWidth DEF PrefixedRecord, TooLarge, ReaderOK
  <2>5. ReadDelivers(HeaderLen + h, rec)
    BY <1>5, <2>2, <2>3, <2>4 DEF PrefixedRecord, ReadDelivers
  <2> QED
    BY <2>5 DEF ReadTurn
<1> QED
  BY <1>2, <1>3, <1>4, <1>5 DEF ReadLengthPrefixed

\* What one turn of the loop of nextBase64 does.
LEMMA Base64Turn ==
  ASSUME TypeOK, RecordInv, ReadBase64Line
  PROVE  ReadTurn
<1> DEFINE n == LineEnd - pos
<1>1. ReaderOK /\ CallOK /\ pos \in Nat /\ Len(input) \in Nat
  BY TypeParts DEF ReaderOK
<1>2. n \in Nat /\ pos + n <= Len(input) /\ (Newlines = {} => pos + n = Len(input))
  BY <1>1, LineEndBound DEF LineEnd
<1>3. CASE BlankLine /\ Newlines = {} /\ FailReading(TailError)
  <2>1. /\ TailError \in SUBSET Errors /\ TailError # {}
        /\ "EOF" \in TailError => tail = "eof"
    BY DEF TailError, Errors
  <2>2. ReadFails(n, TailError)
    BY <1>2, <1>3, <2>1 DEF BlankLine, ReadFails
  <2> QED
    BY <2>2 DEF ReadTurn
<1>4. CASE BlankLine /\ UNCHANGED <<detected, chunkIndex, closed, pc, record,
                                    totalSize, outcome, delivered, draining, drain>>
  <2>1. ReadContinues(n)
    BY <1>1, <1>2, <1>4 DEF BlankLine, ReadContinues, CallOK, RecordInv
  <2> QED
    BY <2>1 DEF ReadTurn
<1>5. CASE MalformedLine
  <2>1. ReadFails(n, {"ErrInvalidFraming"})
    BY <1>2, <1>5 DEF MalformedLine, ReadFails, Errors
  <2> QED
    BY <2>1 DEF ReadTurn
<1>6. CASE DecodedLine /\ FailReading({"ErrRecordTooLarge"})
  <2>1. ReadFails(n, {"ErrRecordTooLarge"})
    BY <1>2, <1>6 DEF DecodedLine, ReadFails, Errors
  <2> QED
    BY <2>1 DEF ReadTurn
<1>7. CASE DecodedLine /\ Deliver(DecodeString(Code))
  <2>1. DecodeString(Code) \in Seq(Units)
    BY <1>1, <1>7, DecodeType DEF DecodedLine
  <2>2. ReadDelivers(n, DecodeString(Code))
    BY <1>2, <1>7, <2>1 DEF DecodedLine, ReadDelivers
  <2> QED
    BY <2>2 DEF ReadTurn
<1> QED
  BY <1>3, <1>4, <1>5, <1>6, <1>7 DEF ReadBase64Line, BlankLine, DecodedLine

\* Every turn of every loop is one of the three.
LEMMA EveryTurn ==
  ASSUME TypeOK, RecordInv, Read
  PROVE  ReadTurn
BY RecordMarkingTurn, LengthPrefixedTurn, Base64Turn DEF Read

-----------------------------------------------------------------------------
(***************************************************************************)
(* The inductive invariant.                                                *)
(***************************************************************************)
DeliveredInv ==
  Framing # "base64Lines" /\ SmallLimit =>
    \A i \in DOMAIN delivered : Len(delivered[i]) <= maxRecordSize

\* A clean Drain of a stream whose framing was configured stands at its end.
CleanInv == CleanDrainConsumesAll

IInv == TypeOK /\ RecordInv /\ DeliveredInv /\ CleanInv /\ ReadErrorSurfaces

\* A new parser satisfies the invariant.
LEMMA InitIInv == Init => IInv
<1> SUFFICES ASSUME Init PROVE IInv
  OBVIOUS
<1>1. TypeOK
  <2>1. /\ totalSize \in 0 .. (WordSpan - 1)
        /\ Len(input) \in Nat /\ pos \in 0 .. Len(input) /\ totalBytes \in Nat
    BY WordWidth DEF Init, NewStreamParser
  <2>2. /\ drain \in [status : {"none", "running", "done"}, count : Nat,
                      err : SUBSET Errors]
        /\ outcome \in SUBSET Errors /\ chunkIndex \in Nat
    BY DEF Init, NewStreamParser
  <2>3. /\ input \in Seq(Units) /\ tail \in {"eof", "ioerr"}
        /\ framing \in Configurations /\ detected \in Framings \cup {"auto"}
        /\ maxRecordSize \in 1 .. (WordSpan - 1)
        /\ closed \in BOOLEAN /\ draining \in BOOLEAN
        /\ pc \in Framings \cup {"idle"}
    BY DEF Init, NewStreamParser
  <2>4. record \in Seq(Units) /\ delivered \in Seq(Seq(Units))
    BY DEF Init, NewStreamParser
  <2> QED
    BY <2>1, <2>2, <2>3, <2>4 DEF TypeOK
<1>2. RecordInv
  BY <1>1, WordWidth DEF Init, NewStreamParser, RecordInv, TypeOK
<1>3. DeliveredInv /\ CleanInv /\ ReadErrorSurfaces
  BY DEF Init, NewStreamParser, DeliveredInv, CleanInv, CleanDrainConsumesAll,
         ReadErrorSurfaces
<1> QED
  BY <1>1, <1>2, <1>3 DEF IInv

\* Drain ends without an error only on an EOF, which no read error is.
LEMMA DrainStepResult ==
  ASSUME NEW err, DrainStep(err)
  PROVE  /\ (err = {} \/ ~draining) /\ drain'.status = "done" =>
              drain.status = "done" /\ drain' = drain
         /\ err # {} /\ draining => drain'.status = "done"
         /\ err # {} /\ draining /\ "EOF" \notin err => drain'.err = err
<1>1. CASE ~draining
  BY <1>1 DEF DrainStep
<1>2. CASE draining /\ err = {}
  BY <1>2 DEF DrainStep
<1>3. CASE draining /\ err # {}
  <2> DEFINE e == IF "EOF" \in err THEN {} ELSE err
  <2>1. drain' = [status |-> "done", count |-> drain.count, err |-> e]
    BY <1>3 DEF DrainStep
  <2>2. "EOF" \notin err => e = err
    OBVIOUS
  <2> HIDE DEF e
  <2>3. drain'.status = "done" /\ drain'.err = e
    BY <2>1
  <2> QED
    BY <1>3, <2>2, <2>3
<1> QED
  BY <1>1, <1>2, <1>3

\* A failing step keeps the invariant: it returns no record, and reports a
\* clean end only at the end of a stream that has one.
LEMMA FailKeeps ==
  ASSUME IInv, UNCHANGED source,
         NEW err \in SUBSET Errors, err # {}, Fail(err),
         "EOF" \in err => tail = "eof" /\ (framing # "auto" => pos' = Len(input)),
         closed' = closed \/ (closed' = TRUE /\ "EOF" \in err),
         pos <= pos', pos' <= Len(input), pos' \in Nat
  PROVE  RecordInv' /\ DeliveredInv' /\ CleanInv' /\ ReadErrorSurfaces'
<1>1. TypeOK /\ RecordInv /\ DeliveredInv /\ CleanInv /\ ReadErrorSurfaces
  BY DEF IInv
<1>2. /\ pc' = "idle" /\ record' = << >> /\ totalSize' = 0
      /\ delivered' = delivered /\ detected' = detected /\ DrainStep(err)
      /\ input' = input /\ tail' = tail /\ framing' = framing
      /\ maxRecordSize' = maxRecordSize
  BY DEF Fail, source
<1>3. Framing' = Framing /\ SmallLimit' = SmallLimit
  BY <1>2 DEF Framing, SmallLimit
<1>4. RecordInv'
  BY <1>1, <1>2, WordWidth DEF RecordInv, TypeOK
<1>5. DeliveredInv'
  BY <1>1, <1>2, <1>3 DEF DeliveredInv
<1>6. CleanInv'
  <2>1. CASE ~draining
    <3>1. drain' = drain
      BY <1>2, <2>1 DEF DrainStep
    <3> QED
      BY <1>1, <1>2, <3>1 DEF CleanInv, CleanDrainConsumesAll, TypeOK
  <2>2. CASE draining /\ "EOF" \in err
    BY <1>2, <2>2 DEF CleanInv, CleanDrainConsumesAll
  <2>3. CASE draining /\ "EOF" \notin err
    <3>1. drain'.err # {}
      BY <1>2, <2>3, DrainStepResult
    <3> QED
      BY <3>1 DEF CleanInv, CleanDrainConsumesAll
  <2> QED
    BY <2>1, <2>2, <2>3
<1>7. ReadErrorSurfaces'
  <2> SUFFICES ASSUME tail = "ioerr"
               PROVE  ~closed' /\ (drain'.status = "done" => drain'.err # {})
    BY <1>2 DEF ReadErrorSurfaces
  <2>1. "EOF" \notin err /\ ~closed'
    BY <1>1 DEF ReadErrorSurfaces
  <2>2. CASE ~draining
    <3>1. drain' = drain
      BY <1>2, <2>2 DEF DrainStep
    <3> QED
      BY <1>1, <2>1, <3>1 DEF ReadErrorSurfaces
  <2>3. CASE draining
    <3>1. drain'.err = err
      BY <1>2, <2>1, <2>3, DrainStepResult
    <3> QED
      BY <2>1, <3>1
  <2> QED
    BY <2>2, <2>3
<1> QED
  BY <1>4, <1>5, <1>6, <1>7

\* Returning a record keeps it: the record is within the limit, and Drain is
\* not over.
LEMMA DeliverKeeps ==
  ASSUME IInv, NEW n, NEW rec, ReadDelivers(n, rec), pc # "idle"
  PROVE  IInv'
<1>1. /\ TypeOK /\ RecordInv /\ DeliveredInv /\ CleanInv /\ ReadErrorSurfaces
      /\ CallOK /\ ReaderOK /\ closed \in BOOLEAN
  BY TypeParts DEF IInv
<1>2. /\ pc' = "idle" /\ record' = << >> /\ totalSize' = 0
      /\ delivered' = Append(delivered, rec) /\ detected' = detected
      /\ closed' = closed /\ DrainStep({}) /\ Deliver(rec)
      /\ input' = input /\ tail' = tail /\ framing' = framing
      /\ maxRecordSize' = maxRecordSize /\ pos' = pos + n /\ rec \in Seq(Units)
      /\ n \in Nat /\ pos + n <= Len(input)
  BY DEF ReadDelivers, Deliver, Consume, source
<1>3. Framing' = Framing /\ SmallLimit' = SmallLimit
  BY <1>2 DEF Framing, SmallLimit
<1>4. TypeOK'
  <2>1. CallOK' /\ closed' \in BOOLEAN
    BY <1>1, <1>2, DeliverType
  <2>2. ReaderOK'
    BY <1>1, ConsumeType DEF ReadDelivers
  <2> QED
    BY <2>1, <2>2 DEF TypeOK, CallOK, ReaderOK
<1>5. RecordInv'
  BY <1>1, <1>2, WordWidth DEF RecordInv, TypeOK
<1>6. DeliveredInv'
  <2> SUFFICES ASSUME Framing # "base64Lines", SmallLimit
               PROVE  \A i \in DOMAIN delivered' : Len(delivered'[i]) <= maxRecordSize
    BY <1>2, <1>3 DEF DeliveredInv
  <2>1. pc # "base64Lines"
    BY <1>1 DEF RecordInv
  <2>2. Len(rec) <= maxRecordSize
    BY <2>1 DEF ReadDelivers
  <2>3. \A i \in DOMAIN delivered : Len(delivered[i]) <= maxRecordSize
    BY <1>1 DEF DeliveredInv
  <2>4. delivered \in Seq(Seq(Units))
    BY <1>1 DEF CallOK
  <2> QED
    BY <1>2, <2>2, <2>3, <2>4
<1>7. CleanInv' /\ ReadErrorSurfaces'
  <2>1. drain'.status = "done" => drain' = drain
    BY <1>2, DrainStepResult
  <2>2. pos \in 0 .. Len(input)
    BY <1>1 DEF ReaderOK
  <2> QED
    BY <1>1, <1>2, <2>1, <2>2 DEF CleanInv, CleanDrainConsumesAll, ReadErrorSurfaces
<1> QED
  BY <1>4, <1>5, <1>6, <1>7 DEF IInv

\* A turn that goes on with the loop keeps the invariant.
LEMMA ContinueKeeps ==
  ASSUME IInv, NEW n, ReadContinues(n)
  PROVE  IInv'
<1>1. /\ TypeOK /\ RecordInv /\ DeliveredInv /\ CleanInv /\ ReadErrorSurfaces
      /\ CallOK /\ ReaderOK /\ closed \in BOOLEAN
  BY TypeParts DEF IInv
<1>2. /\ UNCHANGED <<detected, chunkIndex, closed, pc, outcome, delivered,
                     draining, drain>>
      /\ input' = input /\ tail' = tail /\ framing' = framing
      /\ maxRecordSize' = maxRecordSize /\ pos' = pos + n
      /\ n \in Nat /\ pos + n <= Len(input)
      /\ record' \in Seq(Units) /\ totalSize' \in 0 .. (WordSpan - 1)
  BY DEF ReadContinues, Consume, source
<1>3. Framing' = Framing /\ SmallLimit' = SmallLimit
  BY <1>2 DEF Framing, SmallLimit
<1>4. TypeOK'
  <2>1. CallOK' /\ closed' \in BOOLEAN
    BY <1>1, <1>2 DEF CallOK
  <2>2. ReaderOK'
    BY <1>1, ConsumeType DEF ReadContinues
  <2> QED
    BY <2>1, <2>2 DEF TypeOK, CallOK, ReaderOK
<1>5. RecordInv'
  BY <1>1, <1>2, <1>3 DEF RecordInv, ReadContinues
<1>6. DeliveredInv'
  BY <1>1, <1>2, <1>3 DEF DeliveredInv
<1>7. CleanInv' /\ ReadErrorSurfaces'
  <2>1. pos \in 0 .. Len(input)
    BY <1>1 DEF ReaderOK
  <2> QED
    BY <1>1, <1>2, <2>1 DEF CleanInv, CleanDrainConsumesAll, ReadErrorSurfaces
<1> QED
  BY <1>4, <1>5, <1>6, <1>7 DEF IInv

\* One turn of a loop keeps the invariant.
LEMMA ReadKeeps ==
  ASSUME IInv, Read
  PROVE  IInv'
<1>1. /\ TypeOK /\ RecordInv /\ CallOK /\ ReaderOK /\ closed \in BOOLEAN
      /\ pos \in Nat /\ Len(input) \in Nat
  BY TypeParts DEF IInv, ReaderOK
<1>2. pc # "idle"
  BY DEF Read, ReadRecordMarking, ReadLengthPrefixed, ReadBase64Line,
         FragmentHeaderFails, EmptyLastFragment, FragmentTooLarge, DataFragment,
         FragmentBodyFails, ReadFragment, PrefixFails, PrefixTooLarge,
         PrefixedDataFails, PrefixedRecord, BlankLine, MalformedLine, DecodedLine
<1>3. ReadTurn
  BY <1>1, EveryTurn
<1>4. ASSUME NEW n, NEW err, ReadFails(n, err)
      PROVE  IInv'
  <2>1. CallOK' /\ closed' \in BOOLEAN
    BY <1>1, <1>4, FailReadingType DEF ReadFails
  <2>2. ReaderOK'
    BY <1>1, <1>4, ConsumeType DEF ReadFails
  <2>3. pos' = pos + n /\ n \in Nat /\ pos + n <= Len(input)
    BY <1>4 DEF ReadFails, Consume
  <2>4. closed' = closed \/ (closed' = TRUE /\ "EOF" \in err)
    BY <1>1, <1>4 DEF ReadFails, FailReading, ClosesStream
  <2>5. RecordInv' /\ DeliveredInv' /\ CleanInv' /\ ReadErrorSurfaces'
    <3>1. err \in SUBSET Errors /\ err # {} /\ Fail(err) /\ UNCHANGED source
      BY <1>4 DEF ReadFails, FailReading
    <3>2. "EOF" \in err => tail = "eof" /\ pos' = Len(input)
      BY <1>4, <2>3 DEF ReadFails
    <3>3. pos <= pos' /\ pos' <= Len(input) /\ pos' \in Nat
      BY <1>1, <2>3
    <3> QED
      BY <2>4, <3>1, <3>2, <3>3, FailKeeps
  <2> QED
    BY <2>1, <2>2, <2>5 DEF IInv, TypeOK, CallOK, ReaderOK
<1> QED
  BY <1>2, <1>3, <1>4, DeliverKeeps, ContinueKeeps DEF ReadTurn

\* A call keeps it: a call fails at once or enters the loop of the framing it
\* has settled on.
LEMMA CallFailKeeps ==
  ASSUME IInv, UNCHANGED <<source, pos, totalBytes, closed>>,
         NEW err \in SUBSET Errors, err # {}, Fail(err),
         "EOF" \in err => tail = "eof" /\ framing = "auto"
  PROVE  IInv'
<1>1. CallOK /\ ReaderOK /\ closed \in BOOLEAN
  BY TypeParts DEF IInv
<1>2. CallOK' /\ ReaderOK' /\ closed' \in BOOLEAN
  BY <1>1, FailType DEF ReaderOK, source
<1>3. pos <= pos' /\ pos' <= Len(input) /\ pos' \in Nat /\ closed' = closed
  BY <1>1 DEF ReaderOK
<1>4. RecordInv' /\ DeliveredInv' /\ CleanInv' /\ ReadErrorSurfaces'
  BY <1>3, FailKeeps DEF source
<1> QED
  BY <1>2, <1>4 DEF IInv, TypeOK, CallOK, ReaderOK

\* The framing that detection settles on is one of the three.
LEMMA DispatchType ==
  ASSUME TypeOK, framing # "unknown"
  PROVE  EffectiveFraming \in Framings /\ DetectFraming \in Framings
BY DEF TypeOK, EffectiveFraming, Detecting, DetectFraming, Configurations, Framings

\* The start of a call keeps the invariant.
LEMMA CallKeeps ==
  ASSUME IInv, CallNext \/ CallDrain
  PROVE  IInv'
<1>1. /\ TypeOK /\ RecordInv /\ DeliveredInv /\ CleanInv /\ ReadErrorSurfaces
      /\ CallOK /\ ReaderOK /\ closed \in BOOLEAN
  BY TypeParts DEF IInv
<1>2. CASE NextClosed
  BY <1>2, CallFailKeeps DEF NextClosed, Errors, source
<1>3. CASE NextDetectFails
  <2>1. /\ DetectError \in SUBSET Errors
        /\ "EOF" \in DetectError => tail = "eof"
    BY DEF DetectError, TailError, Errors
  <2>2. framing = "auto" /\ DetectError # {} /\ Fail(DetectError)
    BY <1>3 DEF NextDetectFails, Detecting
  <2> QED
    BY <1>3, <2>1, <2>2, CallFailKeeps DEF NextDetectFails
<1>4. CASE NextUnknownFraming
  BY <1>4, CallFailKeeps DEF NextUnknownFraming, Errors, source
<1>5. CASE NextDispatches
  <2>1. /\ framing # "unknown" /\ pc = "idle" /\ pc' = EffectiveFraming
        /\ detected' = IF Detecting THEN DetectFraming ELSE detected
        /\ UNCHANGED <<source, pos, chunkIndex, totalBytes, closed, record,
                       totalSize, outcome, delivered, draining, drain>>
    BY <1>5 DEF NextDispatches
  <2>2. EffectiveFraming \in Framings /\ DetectFraming \in Framings
    BY <1>1, <2>1, DispatchType
  <2>3. TypeOK'
    <3>1. CallOK'
      BY <1>1, <2>1, <2>2 DEF CallOK
    <3>2. ReaderOK' /\ closed' \in BOOLEAN
      BY <1>1, <2>1 DEF ReaderOK, source
    <3> QED
      BY <3>1, <3>2 DEF TypeOK, CallOK, ReaderOK
  <2>4. Framing' = EffectiveFraming
    BY <2>1 DEF Framing, EffectiveFraming, Detecting, source
  <2>5. RecordInv'
    <3>1. record = << >> /\ totalSize = 0
      BY <1>1, <2>1 DEF RecordInv
    <3> QED
      BY <1>1, <2>1, <2>4, <3>1 DEF RecordInv, SmallLimit, source
  <2>6. DeliveredInv'
    <3>1. Framing # "base64Lines" \/ Framing' = Framing
      BY <2>1 DEF Framing, Detecting, source
    <3> QED
      BY <1>1, <2>1, <3>1 DEF DeliveredInv, SmallLimit, source
  <2>7. CleanInv' /\ ReadErrorSurfaces'
    BY <1>1, <2>1 DEF CleanInv, CleanDrainConsumesAll, ReadErrorSurfaces, source
  <2> QED
    BY <2>3, <2>5, <2>6, <2>7 DEF IInv
<1>6. CASE CallDrain
  <2>1. /\ draining' = TRUE
        /\ drain' = [status |-> "running", count |-> 0, err |-> {}]
        /\ UNCHANGED <<source, pos, detected, chunkIndex, totalBytes, closed, pc,
                       record, totalSize, outcome, delivered>>
    BY <1>6 DEF CallDrain
  <2>2. CallOK' /\ ReaderOK' /\ closed' \in BOOLEAN
    BY <1>1, <2>1 DEF CallOK, ReaderOK, source
  <2>3. RecordInv' /\ DeliveredInv'
    BY <1>1, <2>1 DEF RecordInv, DeliveredInv, SmallLimit, Framing, source
  <2>4. CleanInv' /\ ReadErrorSurfaces'
    BY <1>1, <2>1 DEF CleanInv, CleanDrainConsumesAll, ReadErrorSurfaces, source
  <2> QED
    BY <2>2, <2>3, <2>4 DEF IInv, TypeOK, CallOK, ReaderOK
<1> QED
  BY <1>2, <1>3, <1>4, <1>5, <1>6 DEF CallNext

\* Every step keeps the invariant.
LEMMA NextIInv == IInv /\ [Next]_vars => IInv'
<1> SUFFICES ASSUME IInv, [Next]_vars PROVE IInv'
  OBVIOUS
<1>1. CASE Next
  BY <1>1, ReadKeeps, CallKeeps DEF Next
<1>2. CASE UNCHANGED vars
  BY <1>2 DEF vars, IInv, TypeOK, RecordInv, DeliveredInv, CleanInv,
     CleanDrainConsumesAll, ReadErrorSurfaces, SmallLimit, Framing
<1> QED
  BY <1>1, <1>2

\* Every reachable state of the parser satisfies the invariant.
THEOREM Invariance == Spec => []IInv
BY InitIInv, NextIInv, PTL DEF Spec

-----------------------------------------------------------------------------
(***************************************************************************)
(* The theorems.                                                           *)
(***************************************************************************)

\* Every variable keeps its type: in particular the uint32 sum, the reader's
\* position within the stream, and what Next returns.
THEOREM TypeCorrect == Spec => []TypeOK
<1>1. IInv => TypeOK
  BY DEF IInv
<1> QED
  BY <1>1, Invariance, PTL

\* A limit of at most 2^31 bounds every record of a binary stream and the
\* buffer it is put together in, however the record is cut into fragments.
THEOREM LimitRespected == Spec => []RecordWithinLimit
<1>1. IInv => RecordWithinLimit
  <2> SUFFICES ASSUME IInv, Framing # "base64Lines", SmallLimit
               PROVE  /\ Len(record) <= maxRecordSize
                      /\ \A i \in DOMAIN delivered : Len(delivered[i]) <= maxRecordSize
    BY DEF RecordWithinLimit, SmallLimit
  <2>1. RecordInv /\ DeliveredInv
    BY DEF IInv
  <2> QED
    BY <2>1 DEF RecordInv, DeliveredInv
<1> QED
  BY <1>1, Invariance, PTL

\* A clean Drain of a stream of configured framing has read all of it.
THEOREM CleanDrainIsComplete == Spec => []CleanDrainConsumesAll
<1>1. IInv => CleanDrainConsumesAll
  BY DEF IInv, CleanInv
<1> QED
  BY <1>1, Invariance, PTL

\* A failing reader never looks like the end of the stream.
THEOREM ReadErrorsAreReported == Spec => []ReadErrorSurfaces
<1>1. IInv => ReadErrorSurfaces
  BY DEF IInv
<1> QED
  BY <1>1, Invariance, PTL

\* The framing is decided once.
THEOREM FramingIsStable == Spec => FramingStable
<1>1. IInv /\ IInv' /\ [Next]_vars =>
        [detected # "auto" => Framing' = Framing /\ pc' \in {"idle", Framing}]_vars
  <2> SUFFICES ASSUME IInv, IInv', Next, detected # "auto"
               PROVE  Framing' = Framing /\ pc' \in {"idle", Framing}
    OBVIOUS
  <2>1. detected' = detected /\ framing' = framing
    <3>1. CASE Read
      <4>1. ReadTurn
        BY <3>1, EveryTurn DEF IInv
      <4> QED
        BY <4>1 DEF ReadTurn, ReadFails, ReadDelivers, ReadContinues, FailReading,
           Fail, Deliver, source
    <3>2. CASE CallNext
      BY <3>2 DEF CallNext, NextClosed, NextDetectFails, NextUnknownFraming,
         NextDispatches, Detecting, Fail, source
    <3>3. CASE CallDrain
      BY <3>3 DEF CallDrain, source
    <3> QED
      BY <3>1, <3>2, <3>3 DEF Next
  <2>2. Framing' = Framing
    BY <2>1 DEF Framing
  <2> QED
    BY <2>2 DEF IInv, RecordInv
<1> QED
  BY <1>1, Invariance, PTL DEF Spec, FramingStable

=============================================================================
