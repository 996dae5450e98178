------------------------------- MODULE CliDecode -------------------------------
(***************************************************************************)
(* internal/cli/decode.go and input.go: the decode command and its batch,  *)
(* stream and multi-record forms.  A command is a record of its flags and  *)
(* of what it will read; running it is a script: the chunks it writes, in  *)
(* order, and the error it returns after them.  Every chunk says whether   *)
(* the code looks at the error of writing it.                              *)
(***************************************************************************)
EXTENDS Decoding

\* exitcodes.go and newBatchError: how an error, the set of its sentinels,
\* becomes the status of the process.
ExitSuccess == 0
ExitError == 1
ExitDiffFound == 2
ExitInvalidXDR == 3

\* errTransactionFailed and errValuesDiffer are the two values of exitError.
ExitErrors == {"errTransactionFailed", "errValuesDiffer"}

InvalidXDRErrors ==
  {"ErrInvalidXDR", "ErrInvalidBase64", "ErrNoMatch", "ErrNonCanonical", "ErrPrematureEOF",
   "ErrInvalidFraming", "ErrRecordTooLarge", "ErrCorruptMultiStreamRecord"}

IsInvalidXDRError(err) == err \cap InvalidXDRErrors # {}

ExitCode(err) ==
  IF err = {} THEN ExitSuccess
  ELSE IF err \cap ExitErrors # {} THEN ExitDiffFound
  ELSE IF IsInvalidXDRError(err) THEN ExitInvalidXDR
  ELSE ExitError

NewBatchErrorAny(failures) ==
  IF \E i \in DOMAIN failures : IsInvalidXDRError(failures[i])
    THEN {"batchError"} \cup InvalidXDRErrors ELSE {"batchError"}

\* The failures of a batch, by the number of the file: the error unwraps to the
\* first of them when every one is invalid XDR.
NewBatchError(failures) ==
  IF \A i \in DOMAIN failures : IsInvalidXDRError(failures[i])
    THEN {"batchError"} \cup failures[Min(DOMAIN failures)] ELSE {"batchError"}

-----------------------------------------------------------------------------

Chunk(what, id) == [what |-> what, id |-> id, checked |-> TRUE]
Unchecked(what, id) == [what |-> what, id |-> id, checked |-> FALSE]

Script(chunks, err) == [chunks |-> chunks, err |-> err]
Fails(err) == Script(<< >>, err)

\* The first of several checks, in the order of the code, that fails.
FirstError(errs) ==
  LET i == SelectInSeq(errs, LAMBDA e : e # {}) IN IF i = 0 THEN {} ELSE errs[i]

-----------------------------------------------------------------------------
(***************************************************************************)
(* Input.  A source is absent, cannot be read, or holds a text.            *)
(***************************************************************************)
ResolveInput(cmd) ==
  LET from(source, whenEmpty) ==
        IF source.kind = "unreadable" THEN [err |-> {"reading"}, text |-> source.text]
        ELSE IF source.text.form = "empty" THEN [err |-> whenEmpty, text |-> source.text]
        ELSE [err |-> {}, text |-> source.text]
  IN  IF cmd.file.kind # "absent" THEN from(cmd.file, {"file is empty"})
      ELSE IF cmd.arg.kind # "absent" THEN from(cmd.arg, {})
      ELSE from(cmd.stdin, {"errNoInput"})

\* An operand of a two-value command: a file, an argument or standard input.
OperandError(source) == IF source.kind = "unreadable" THEN {"reading"} ELSE {}

-----------------------------------------------------------------------------
(***************************************************************************)
(* One payload.                                                            *)
(***************************************************************************)
TextFormats == {"tree", "summary", "txrep"}

\* --hex, or a 0x prefix: without --hex a failed conversion is no error.
WantsHex(cmd, text) == cmd.hex \/ text.zeroX
ConvertError(cmd, text) ==
  IF WantsHex(cmd, text) /\ cmd.hex THEN HexError(text) ELSE {}
Converted(cmd, text) ==
  IF WantsHex(cmd, text) /\ HexError(text) = {} THEN HexToBase64(text) ELSE text

\* --canonical decodes the base64 itself, and its error is no sentinel.
CheckCanonical(cmd, text) ==
  IF ~cmd.canonical \/ text.form = "empty" THEN {}
  ELSE IF ~IsBase64(text) THEN {"decoding base64"}
  ELSE CanonicalError(text, cmd.type)

\* --select, --raw, --account and --op-type, in the code's order.
SelectError(cmd) ==
  IF cmd.select = "missing" THEN {"path not found"}
  ELSE IF cmd.raw /\ cmd.select = "" THEN {"raw requires select"}
  ELSE IF cmd.raw /\ cmd.select = "struct" THEN {"no raw bytes"}
  ELSE IF ~cmd.raw /\ cmd.filter = "nothing" /\ ~(cmd.select = "scalar" /\ cmd.format = "tree") THEN {"no nodes found"}
  ELSE {}

FormatError(cmd, type) ==
  IF cmd.raw THEN {}
  ELSE IF cmd.format \in TextFormats /\ cmd.theme = "unknown" THEN {"theme"}
  ELSE IF cmd.format = "txrep" /\ type # "TransactionEnvelope" THEN {"ErrNotTransactionEnvelope"}
  ELSE {}

\* Formatters write their report piece by piece; JSON is a single write.
TreeBody(text) == <<Chunk("type", text.id), Chunk("report", text.id)>>
Body(cmd, text) ==
  IF cmd.format = "tree" /\ ~cmd.raw THEN TreeBody(text) ELSE <<Chunk("report", text.id)>>

RunCandidates(text) ==
  IF DetectError(text) # {} THEN Fails(DetectError(text))
  ELSE Script([i \in DOMAIN Candidates(text) |-> Chunk("candidate", Candidates(text)[i])]
              \o IF Len(Candidates(text)) > 1 THEN <<Chunk("ambiguous", text.id)>> ELSE << >>, {})

\* The bytecode in the value, or else the payload read as a module.
RunWASM(text) ==
  IF text.wasm THEN Script(<<Chunk("module", text.id)>>, {}) ELSE Fails({"decoding WebAssembly"})

Render(cmd, given) ==
  LET text  == Converted(cmd, given)
      early == FirstError(<<ConvertError(cmd, given), CheckCanonical(cmd, text)>>)
      type  == DecodedType(text, cmd.type)
  IN  IF early # {} THEN Fails(early)
      ELSE IF cmd.candidates THEN RunCandidates(text)
      ELSE IF cmd.wasm THEN RunWASM(text)
      ELSE IF DecodeError(text, cmd.type) # {} THEN Fails(DecodeError(text, cmd.type))
      ELSE LET late == FirstError(<<SelectError(cmd), FormatError(cmd, type)>>)
           IN  IF late # {} THEN Fails(late) ELSE Script(Body(cmd, text), {})

RunDecode(cmd) ==
  LET input == ResolveInput(cmd)
  IN  IF input.err # {} THEN Fails(input.err) ELSE Render(cmd, input.text)

-----------------------------------------------------------------------------
(***************************************************************************)
(* A batch of files: a header for each, its report or its error, and a     *)
(* summary.  A file is rendered into a buffer before any of it is written. *)
(***************************************************************************)
BatchConflict(cmd) ==
  IF cmd.stream \/ cmd.multi \/ cmd.interactive \/ cmd.file.kind # "absent" \/ cmd.arg.kind # "absent"
    THEN {"ErrInvalidArgument"} ELSE {}

ResolveBatchFiles(cmd) == IF cmd.files = << >> THEN {"ErrInvalidArgument"} ELSE {}

FileError(cmd, file) ==
  IF file.kind = "unreadable" THEN {"reading"}
  ELSE IF file.text.form = "empty" THEN {"file is empty"}
  ELSE Render(cmd, file.text).err

FileSection(cmd, file, name) ==
  <<Chunk("header", name)>> \o
    IF FileError(cmd, file) # {} THEN <<Chunk("error", name)>>
                                 ELSE Render(cmd, file.text).chunks \o <<Chunk("newline", name)>>

FailedNumbers(cmd) == {i \in DOMAIN cmd.files : FileError(cmd, cmd.files[i]) # {}}
FailedFiles(cmd) == SelectSeq(cmd.files, LAMBDA f : FileError(cmd, f) # {})

BatchSummary(cmd) ==
  IF FailedFiles(cmd) = << >> THEN <<Chunk("all succeeded", "")>>
  ELSE <<Chunk("some failed", "")>> \o
       [i \in DOMAIN FailedFiles(cmd) |-> Chunk("failed", FailedFiles(cmd)[i].name)]

RunBatchDecode(cmd) ==
  IF ResolveBatchFiles(cmd) # {} THEN Fails(ResolveBatchFiles(cmd))
  ELSE LET sections == [i \in DOMAIN cmd.files |-> FileSection(cmd, cmd.files[i], cmd.files[i].name)]
           failures == [i \in FailedNumbers(cmd) |-> FileError(cmd, cmd.files[i])]
       IN  Script(FlattenSeq(sections) \o BatchSummary(cmd),
                  IF FailedNumbers(cmd) = {} THEN {} ELSE NewBatchError(failures))

-----------------------------------------------------------------------------
(***************************************************************************)
(* Framed binary records: each is decoded and written before the next is   *)
(* read.  cmd.tail is the error with which the stream parser ends.         *)
(***************************************************************************)
ChunkError(cmd, text) ==
  FirstError(<<IF cmd.canonical THEN CanonicalError(text, cmd.type) ELSE {},
               DecodeError(text, cmd.type)>>)

\* --json, or else the tree: the other formats are not looked at.
RecordBody(cmd, text) ==
  IF cmd.format = "json" THEN <<Chunk("report", text.id)>> ELSE TreeBody(text)

RunStreamSkipping(cmd) ==
  LET good == SelectSeq(cmd.records, LAMBDA t : ChunkError(cmd, t) = {})
  IN  IF cmd.file.kind = "unreadable" THEN Fails({"reading"})
      ELSE Script(FlattenSeq([i \in DOMAIN good |-> RecordBody(cmd, good[i])]), IF cmd.tail = "io.EOF" THEN {} ELSE {cmd.tail})

RunStream(cmd) ==
  LET bad == SelectInSeq(cmd.records, LAMBDA t : ChunkError(cmd, t) # {})
      good == IF bad = 0 THEN cmd.records ELSE SubSeq(cmd.records, 1, bad - 1)
  IN  IF cmd.file.kind = "unreadable" THEN Fails({"reading"})
      ELSE Script(FlattenSeq([i \in DOMAIN good |-> RecordBody(cmd, good[i])]),
                  IF bad # 0 THEN ChunkError(cmd, cmd.records[bad])
                  ELSE IF cmd.tail = "io.EOF" THEN {} ELSE {cmd.tail})

-----------------------------------------------------------------------------
(***************************************************************************)
(* Records of a text.  All of them are decoded before any is written.      *)
(***************************************************************************)
MultiOptions(cmd) == [typeName |-> cmd.type, allowHex |-> cmd.hex, stopOnError |-> TRUE]

MultiBody(cmd, records) ==
  IF cmd.format = "json" THEN <<Chunk("report", "all")>>
  ELSE FlattenSeq([i \in DOMAIN records |->
         LET text == records[i].text
         IN  IF cmd.format = "yaml"
               THEN (IF i > 1 THEN <<Chunk("---", "")>> ELSE << >>) \o Body(cmd, text)
               ELSE <<Chunk("record", text.id)>> \o TreeBody(text)])

RunMultiStream(cmd) ==
  LET all == DecodeAll(cmd.lines, cmd.tail # "io.EOF", MultiOptions(cmd))
  IN  IF cmd.file.kind = "unreadable" THEN Fails({"reading"})
      ELSE IF all.err # {} THEN Fails(all.err)
      ELSE Script(MultiBody(cmd, all.records), {})

\* RunE of the decode command.
DecodeScript(cmd) ==
  IF cmd.batch /\ BatchConflict(cmd) # {} THEN Fails(BatchConflict(cmd))
  ELSE IF cmd.stream THEN RunStream(cmd)
  ELSE IF cmd.multi THEN RunMultiStream(cmd)
  ELSE IF cmd.batch THEN RunBatchDecode(cmd)
  ELSE RunDecode(cmd)
=============================================================================
