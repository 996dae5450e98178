------------------------------ MODULE CliReports ------------------------------
(***************************************************************************)
(* internal/cli: the commands encode, explain, diff, result-diff,          *)
(* meta-diff, asset, types and version, as scripts (see CliDecode).        *)
(***************************************************************************)
EXTENDS CliDecode

-----------------------------------------------------------------------------
(***************************************************************************)
(* explain.                                                                *)
(***************************************************************************)
\* An optional second payload: its source may be absent.
OptionalError(source) ==
  IF source.kind = "unreadable" THEN {"reading"}
  ELSE IF source.kind = "absent" \/ source.text.form = "empty" THEN {}
  ELSE DetectError(source.text)
Given(source) == source.kind = "text" /\ source.text.form # "empty"
TypeOf(text) == DecodedType(text, "")

\* A value alone, or an envelope with its result.
SummaryError(cmd, primary) ==
  IF Given(cmd.result)
    THEN IF TypeOf(primary) # "TransactionEnvelope" \/ TypeOf(cmd.result.text) # "TransactionResult"
           THEN {"ErrInvalidArgument"} ELSE {}
    ELSE IF TypeOf(primary) \in {"TransactionEnvelope", "TransactionResult"}
           THEN {} ELSE {"ErrUnsupportedType"}

ResultText(cmd, primary) == IF Given(cmd.result) THEN cmd.result.text ELSE primary
HasOutcome(cmd, primary) == TypeOf(ResultText(cmd, primary)) = "TransactionResult"
Failed(cmd, primary) == HasOutcome(cmd, primary) /\ ResultText(cmd, primary).failed

\* --check-expiry only looks at an envelope that was decoded as the primary.
HasExpiry(cmd, primary) == cmd.expiry /\ TypeOf(primary) = "TransactionEnvelope"

\* The extra sections of the report; none of the last three checks its writes.
Sections(cmd, primary) ==
  LET part(cond, chunk) == IF cond THEN <<chunk>> ELSE << >>
  IN  part(cmd.resources, Chunk("resources", primary.id))
      \o part(HasExpiry(cmd, primary), Unchecked("expiry", primary.id))
      \o IF cmd.format = "markdown" THEN << >>
         ELSE part(cmd.isolate /\ HasOutcome(cmd, primary), Unchecked("isolated", primary.id))
              \o part(Given(cmd.meta) /\ HasOutcome(cmd, primary) /\ ResultText(cmd, primary).trapped,
                      Unchecked("trap", primary.id))

ExplainChunks(cmd, primary) ==
  IF cmd.format = "json" THEN <<Chunk("summary", primary.id)>>
                         ELSE <<Chunk("summary", primary.id)>> \o Sections(cmd, primary)

\* --fail-on-error; the markdown form has returned before it is looked at.
ExplainGate(cmd, primary) ==
  IF cmd.failOnError /\ cmd.format # "markdown" /\ Failed(cmd, primary)
    THEN {"errTransactionFailed"} ELSE {}

ExplainScript(cmd) ==
  LET input   == ResolveInput(cmd)
      primary == input.text
      early   == FirstError(<<input.err, IF input.err = {} THEN DetectError(primary) ELSE {},
                              OptionalError(cmd.result)>>)
      late    == FirstError(<<SummaryError(cmd, primary), OptionalError(cmd.meta),
                   IF cmd.resources /\ ~primary.soroban THEN {"ErrUnsupportedType"} ELSE {},
                   IF cmd.expiry /\ cmd.reference = "malformed" THEN {"reference-time"} ELSE {},
                   IF cmd.format = "text" /\ cmd.theme = "unknown" THEN {"theme"} ELSE {}>>)
  IN  IF early # {} THEN Fails(early)
      ELSE IF late # {} THEN Fails(late)
      ELSE Script(ExplainChunks(cmd, primary), ExplainGate(cmd, primary))

-----------------------------------------------------------------------------
(***************************************************************************)
(* diff.                                                                   *)
(***************************************************************************)
\* Every mode has a flag.  Those of one group may be given together, and the
\* first of this order is the one that prints.
ModeGroup(mode) == IF mode \in {"json", "stats", "summary"} THEN "report" ELSE mode
ModeOrder == <<"stats", "summary", "json-patch", "unified", "side-by-side", "json">>
DiffMode(cmd) ==
  LET i == SelectInSeq(ModeOrder, LAMBDA m : m \in cmd.modes)
  IN  IF i = 0 THEN "text" ELSE ModeOrder[i]

DiffUsageError(cmd) ==
  IF \/ Cardinality({ModeGroup(m) : m \in cmd.modes}) > 1
     \/ cmd.footprint /\ (cmd.paths \/ cmd.modes \cap {"json-patch", "unified", "side-by-side"} # {})
    THEN {"ErrInvalidArgument"} ELSE {}

OperandErrors(cmd) == FirstError(<<OperandError(cmd.left), OperandError(cmd.right)>>)

\* A difference is reported through the status with --exit-code or --quiet.
DiffGate(cmd, equal) ==
  IF (cmd.exitCode \/ cmd.quiet) /\ ~equal THEN {"errValuesDiffer"} ELSE {}

\* Neither the statistics nor the line of redacted paths checks its write.
DiffChunks(cmd, id) ==
  IF cmd.quiet THEN << >>
  ELSE IF DiffMode(cmd) = "stats" /\ "json" \notin cmd.modes THEN <<Unchecked("stats", id)>>
  ELSE IF DiffMode(cmd) = "text" /\ cmd.redacts THEN <<Chunk("changes", id), Unchecked("redacted", id)>>
  ELSE <<Chunk("changes", id)>>

ColouredDiffs == {"text", "summary", "side-by-side"}

RunDiff(cmd) ==
  LET l == cmd.left.text
      r == cmd.right.text
      err == FirstError(<<DecodeError(l, cmd.type), DecodeError(r, cmd.type),
               IF DiffMode(cmd) \in ColouredDiffs /\ ~cmd.quiet /\ cmd.theme = "unknown"
                 THEN {"theme"} ELSE {}>>)
  IN  IF err # {} THEN Fails(err)
      ELSE Script(DiffChunks(cmd, l.id), DiffGate(cmd, l.value = r.value))

\* The footprints the two envelopes declare; the type is always detected.
RunFootprintDiff(cmd) ==
  LET l == cmd.left.text
      r == cmd.right.text
      err == FirstError(<<DetectError(l), DetectError(r),
               IF l.footprint /\ r.footprint THEN {} ELSE {"no footprint"}>>)
  IN  IF err # {} THEN Fails(err)
      ELSE Script(IF cmd.quiet THEN << >> ELSE <<Chunk("footprints", l.id)>>,
                  DiffGate(cmd, l.value = r.value))

DiffScript(cmd) ==
  LET err == FirstError(<<DiffUsageError(cmd), OperandErrors(cmd)>>)
  IN  IF err # {} THEN Fails(err)
      ELSE IF cmd.footprint THEN RunFootprintDiff(cmd)
      ELSE RunDiff(cmd)

-----------------------------------------------------------------------------
(***************************************************************************)
(* result-diff, meta-diff and asset.                                       *)
(***************************************************************************)
ResultDiffScript(cmd) ==
  LET l == cmd.left.text
      r == cmd.right.text
      err == FirstError(<<OperandErrors(cmd), DetectError(l), DetectError(r)>>)
  IN  IF err # {} THEN Fails(err)
      ELSE IF TypeOf(l) # "TransactionEnvelope" \/ TypeOf(r) # "TransactionResult"
        THEN Fails({"ErrInvalidArgument"})
      ELSE Script(IF cmd.quiet THEN << >> ELSE <<Chunk("alignment", l.id)>>,
                  DiffGate(cmd, l.operations = r.operations))

\* What is derived from a decoded value: the contract of an asset, which needs
\* the network, and the balances of a metadata, which may not add up.
DerivationError(cmd, text) ==
  IF cmd.name = "asset" /\ cmd.network = "" THEN {"ErrInvalidNetworkPassphrase"}
  ELSE IF text.derives THEN {}
  ELSE {IF cmd.name = "asset" THEN "ErrMalformedAsset" ELSE "ErrInvalidArgument"}

\* DescribeAsset and meta-diff decode one value as a given type, and derive
\* something from it before they write; the operand of meta-diff may be named
\* by --file, and must then be alone.
ValueError(cmd, source, type) ==
  IF source.kind # "text" THEN {}
  ELSE FirstError(<<DecodeAsError(source.text, type), DerivationError(cmd, source.text)>>)
TypedScript(cmd, source, type, what) ==
  LET err == FirstError(<<OperandError(source), ValueError(cmd, source, type)>>)
  IN  IF err # {} THEN Fails(err) ELSE Script(<<Chunk(what, source.text.id)>>, {})

MetaDiffScript(cmd) ==
  IF (cmd.file.kind = "absent") = (cmd.arg.kind = "absent") THEN Fails({"arguments"})
  ELSE TypedScript(cmd, IF cmd.file.kind = "absent" THEN cmd.arg ELSE cmd.file, "TransactionMeta", "balances")

AssetScript(cmd) ==
  LET input == ResolveInput(cmd)
  IN  IF input.err # {} THEN Fails(input.err)
      ELSE TypedScript(cmd, [kind |-> "text", text |-> input.text], "Asset", "asset")

-----------------------------------------------------------------------------
(***************************************************************************)
(* encode: the target comes from a flag, from the document or from the     *)
(* shape of the JSON.  A JSON text says of which types it is a value, and  *)
(* whether it is a document: {"type", "value"}.                            *)
(***************************************************************************)
FromDocument(cmd, json) == ~cmd.scval /\ ~cmd.tx /\ cmd.type = "" /\ json.document # ""

EncodeTarget(cmd, json) ==
  IF cmd.scval THEN "ScVal"
  ELSE IF cmd.tx THEN "TransactionEnvelope"
  ELSE IF cmd.type # "" THEN cmd.type
  ELSE IF json.document # "" THEN json.document
  ELSE IF json.envelopeKeys THEN "TransactionEnvelope"
  ELSE "ScVal"

EncodeError(cmd, json, target) ==
  IF target \notin TypeNames THEN {"ErrUnknownType"}
  ELSE IF cmd.strict /\ ~FromDocument(cmd, json) /\ target \in {"ScVal", "TransactionEnvelope"}
         /\ target \notin json.strictFor THEN {"schema validation"}
  ELSE IF target \notin json.encodesAs THEN {"encode"}
  ELSE {}

EncodeScript(cmd) ==
  LET input  == ResolveInput(cmd)
      json   == input.text
      target == EncodeTarget(cmd, json)
      err    == FirstError(<<input.err, EncodeError(cmd, json, target)>>)
  IN  IF err # {} THEN Fails(err) ELSE Script(<<Chunk("xdr", target)>>, {})

-----------------------------------------------------------------------------
\* types and version take no argument and print in one write.
ListScript(cmd) == IF cmd.arg.kind = "absent" THEN Script(<<Chunk(cmd.name, "")>>, {}) ELSE Fails({"arguments"})

CommandScript(cmd) ==
  CASE cmd.name = "decode"      -> DecodeScript(cmd)
    [] cmd.name = "explain"     -> ExplainScript(cmd)
    [] cmd.name = "diff"        -> DiffScript(cmd)
    [] cmd.name = "result-diff" -> ResultDiffScript(cmd)
    [] cmd.name = "meta-diff"   -> MetaDiffScript(cmd)
    [] cmd.name = "asset"       -> AssetScript(cmd)
    [] cmd.name = "encode"      -> EncodeScript(cmd)
    [] OTHER                    -> ListScript(cmd)
=============================================================================
