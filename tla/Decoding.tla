------------------------------- MODULE Decoding -------------------------------
(***************************************************************************)
(* pkg/lens/decode.go, hex_input.go and canonical.go: what a text decodes  *)
(* as.  A text is a record of the readings the code may give it: whether   *)
(* it is base64, hexadecimal, both or neither, and the tree sizes of the   *)
(* types its bytes decode as in each reading.  An error is the set of the  *)
(* sentinels that errors.Is finds in it, {} when there is none.            *)
(***************************************************************************)
EXTENDS Naturals, Sequences, FiniteSets, SequencesExt

CONSTANT Registry  \* the registered types in order, each [name, priority]

ASSUME RegistryAssumption ==
  \A i, j \in DOMAIN Registry : Registry[i].name = Registry[j].name => i = j

TypeNames == {Registry[i].name : i \in DOMAIN Registry}

-----------------------------------------------------------------------------
(***************************************************************************)
(* Hexadecimal input.                                                      *)
(***************************************************************************)
IsHexString(text) == text.form \in {"hex", "both"}

HexError(text) ==
  CASE IsHexString(text)     -> {}
    [] text.form = "empty"   -> {"ErrEmptyHex"}
    [] OTHER                 -> {"ErrInvalidHex"}

\* The base64 text of the bytes that the hexadecimal digits stand for.
HexToBase64(text) ==
  [text EXCEPT !.form = "base64", !.zeroX = FALSE, !.trees = text.hexTrees]

-----------------------------------------------------------------------------
(***************************************************************************)
(* Detection.                                                              *)
(***************************************************************************)
IsBase64(text) == text.form \in {"base64", "both"}

TextError(text) ==
  CASE text.form = "empty" -> {"ErrEmptyInput"}
    [] IsBase64(text)      -> {}
    [] OTHER               -> {"ErrInvalidBase64"}

SmallPayload == 8
ScoreCandidate(t, text) ==
  t.priority * 1000 + IF text.len <= SmallPayload THEN 0 ELSE text.trees[t.name]

\* sort.SliceStable keeps registration order among equal scores.
Before(i, j, text) ==
  \/ ScoreCandidate(Registry[i], text) > ScoreCandidate(Registry[j], text)
  \/ ScoreCandidate(Registry[i], text) = ScoreCandidate(Registry[j], text) /\ i < j

Matching(text) == {i \in DOMAIN Registry : Registry[i].name \in DOMAIN text.trees}

Candidates(text) ==
  LET ranked == SetToSortSeq(Matching(text), LAMBDA i, j : Before(i, j, text))
  IN  [k \in DOMAIN ranked |-> Registry[ranked[k]].name]

DetectError(text) ==
  IF TextError(text) # {} THEN TextError(text)
  ELSE IF Matching(text) = {} THEN {"ErrNoMatch"} ELSE {}

DecodeAsError(text, typeName) ==
  IF text.form = "empty" THEN {"ErrEmptyInput"}
  ELSE IF typeName \notin TypeNames THEN {"ErrUnknownType"}
  ELSE IF ~IsBase64(text) THEN {"ErrInvalidBase64"}
  ELSE IF typeName \notin DOMAIN text.trees THEN {"ErrInvalidXDR"} ELSE {}

\* decodeValue: the type named by --type, or the best candidate.
DecodeError(text, typeName) ==
  IF typeName = "" THEN DetectError(text) ELSE DecodeAsError(text, typeName)

DecodedType(text, typeName) ==
  IF typeName = "" THEN Head(Candidates(text)) ELSE typeName

\* DecodeHex and DecodeHexAs.
DecodeHexError(text, typeName) ==
  IF HexError(text) # {} THEN HexError(text) ELSE DecodeError(HexToBase64(text), typeName)

-----------------------------------------------------------------------------
(***************************************************************************)
(* Canonical encodings.  text.canonical says whether encoding the decoded  *)
(* value gives the same bytes back.                                        *)
(***************************************************************************)
\* Every failure of CheckCanonicalEncoding wraps ErrNonCanonical.
CheckCanonicalEncoding(text) == IF text.canonical THEN {} ELSE {"ErrNonCanonical"}

\* Bytes that no type decodes are only checked for their own padding.
ValidateCanonicalXDR(text) ==
  IF text.len % 4 # 0 THEN {"ErrNonCanonical"} ELSE CheckCanonicalEncoding(text)

ValidateTypeCanonicalXDR(text, typeName) ==
  IF text.len % 4 # 0 THEN {"ErrNonCanonical"}
  ELSE IF DecodeAsError(text, typeName) # {} THEN DecodeAsError(text, typeName)
  ELSE CheckCanonicalEncoding(text)

CanonicalError(text, typeName) ==
  IF typeName # "" THEN ValidateTypeCanonicalXDR(text, typeName) ELSE ValidateCanonicalXDR(text)

-----------------------------------------------------------------------------
(***************************************************************************)
(* multi_stream.go: the records of a text, one a line.  A line is blank, a *)
(* comment, data or longer than the scanner's buffer; after the last line  *)
(* the reader ends or fails.  The options are those of                     *)
(* NewMultiStreamDecoder.                                                  *)
(***************************************************************************)
\* Which of the two readings a line is given.  (The code tries a hexadecimal
\* line again after its base64 reading failed; the test above has taken it.)
IsHexLine(text, opts) == text.zeroX \/ (opts.allowHex /\ IsHexString(text))

DecodeLine(text, opts) ==
  IF IsHexLine(text, opts) THEN DecodeHexError(text, opts.typeName)
                           ELSE DecodeError(text, opts.typeName)

ReadingOf(text, opts) == IF IsHexLine(text, opts) THEN HexToBase64(text) ELSE text

\* The scanner stops at the first line that does not fit its buffer.
LongLine(lines) == SelectInSeq(lines, LAMBDA l : l.kind = "long")
Scanned(lines) == IF LongLine(lines) = 0 THEN lines ELSE SubSeq(lines, 1, LongLine(lines) - 1)

\* The numbers of the lines that Next does not skip.
DataLines(lines) == SetToSortSeq({i \in DOMAIN lines : lines[i].kind = "data"}, <)

\* One record for every data line: its index counts records, its line number
\* counts lines.
Record(k, i, lines, opts) ==
  [index |-> k - 1, lineNumber |-> i, text |-> ReadingOf(lines[i].text, opts),
   err |-> DecodeLine(lines[i].text, opts)]

Records(lines, opts) ==
  LET data == DataLines(Scanned(lines))
  IN  [k \in DOMAIN data |-> Record(k, data[k], lines, opts)]

\* The first line whose record cannot be decoded.
BadLine(lines, opts) ==
  SelectInSeq(Scanned(lines), LAMBDA l : l.kind = "data" /\ DecodeLine(l.text, opts) # {})

\* What calling Next to the end of the stream gives: the records before the
\* error that ends it, if one does.
NextAll(lines, readerFails, opts) ==
  LET bad == BadLine(lines, opts)
  IN  IF opts.stopOnError /\ bad # 0
        THEN [records |-> Records(SubSeq(lines, 1, bad - 1), opts),
              err |-> {"ErrCorruptMultiStreamRecord"} \cup DecodeLine(lines[bad].text, opts)]
      ELSE [records |-> Records(lines, opts),
            err |-> IF LongLine(lines) # 0 \/ readerFails THEN {"reading multi-stream"} ELSE {}]

DecodeAll(lines, readerFails, opts) ==
  LET all == NextAll(lines, readerFails, opts)
  IN  IF all.err # {} THEN [records |-> << >>, err |-> all.err]
      ELSE IF all.records = << >> THEN [records |-> << >>, err |-> {"ErrEmptyMultiStream"}]
      ELSE all
=============================================================================
