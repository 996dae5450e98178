# stellar-xdr-lens in TLA+

`stellar-xdr-lens` is a Go command-line tool and library that decodes, explains and compares
Stellar XDR, offline. This directory is a verification development kept beside that code: TLA+
modules translated from the Go source, TLC configurations that check them on small instances, and
TLAPS proofs of what matters most for every value of the constants. `PROJECT.json` maps every
definition to the source lines it stands for.

## 1. Inventory

The program is a batch tool: no server, no persistent state, one goroutine. What makes it hard to
test is not scheduling but *streams that end or fail anywhere*, *state machines driven by a user or a
caller*, *caches and tables behind locks* that a library user may reach concurrently, *output files*,
and *algorithms whose result another tool relies on* (diffs, patches, balance deltas, detection).

| Component | Source | State it keeps | Operations | Talks to |
|---|---|---|---|---|
| Stream parser | `pkg/lens/stream_parser.go` | `framing`, `detected`, `closed`, `chunkIndex`, `totalBytes`, the reader's position | `Next`, `NextNode`, `NextInto`, `Drain`, `Framing`, `BytesRead` | the reader below, its caller above (`Drain`, `runStream`, `DecodeEach`) |
| Stream writers | same file | none | `WriteRecordMarking`, `WriteLengthPrefixed`, `WriteBase64Line` | produce what the parser reads |
| Terminal tree explorer | `internal/cli/tui_tree.go` | `expandedState`, `rows`, `cursor`, `scrollOffset`, `height`, `filter`, `quit` | `HandleKey` and its handlers, `rebuildRows`, `Render`, `readKey`, `Run` | terminal input and output |
| Line alignment, unified diff | `pkg/lens/format/linediff.go`, `unified.go` | locals of the walk | `alignLines`, `filterAlignment`, `buildHunks`, `Format` | `patch` and reviewers downstream |
| Multi-stream decoder, stdin probe | `multi_stream.go`, `stdin_pipe.go`, `hex_input.go` | scanner position, `lineNum`, `recordCount`; `kind`, `probed`, `probeErr` | `Next`, `DecodeAll`; `Framing`, `ReadPayload`, `Decode`, `DecodeEach` | the stream parser |
| CLI | `internal/cli/*.go`, `cmd/lens` | flags | batch, stream and single decoding; exit codes | everything |
| Output sink | `internal/cli/output.go` | `writer`, `file`, `tempPath`, `err` | `Write`, `Close`, `discard` | the file system |
| Meta balance diff | `pkg/lens/meta_diff.go` | `builders` by ledger key | `applyLedgerEntryChange`, `DiffTransactionMetaBalances` | metadata emitted by the ledger |
| JSON/YAML encoder, enum caches | `encode.go`, `yaml_encode.go`, `encode_errors.go`, `scval_encode.go`, `roundtrip.go`, `canonical.go` | three `sync.Map` caches | `Encode`, `enumEntriesFor`, `enumValueForName`, ... | the decoder, whose inverse it is |
| Reason tables | `reason*.go`, `protocol21_reasons.go`, `trap_reasons.go` | `reasons`, `lookupByCode` behind a lock | `registerReason`, `ReasonByCode`, `AllReasons` | explanations |
| Structural diff | `diff.go`, `diff_filter.go`, `diff_redact.go`, `diff_stats.go`, `signer_diff.go`, `footprint_diff.go`, `scval_diff.go`, `semantic_diff.go` | the list of changes under construction | `Diff`, `DiffWithOptions`, filters, redaction, statistics | diff renderings |
| Diff renderings | `format/diff.go`, `side_by_side.go`, `json_patch.go`, `envelope_result_diff.go` | none | `Format` | reviewers, JSON Patch consumers |
| Decoding and detection | `decode.go`, `registry_index.go`, `errors.go`, `raw_extract.go` | type registry | `Decode`, `Detect`, `DecodeAs`, `RegistryIndex` | everything |
| Transaction builder, coercion, validation | `tx_builder.go`, `coerce.go`, `validate.go` | builder fields and its first error | builder calls, `Build` | library users |
| Node tree, enrichers | `node.go`, `enrich.go` and the small per-type files | none | pure functions to labelled text | every formatter |
| Explanations | `explain.go`, `*_explain.go`, `op_isolator.go`, ... | none | pure functions over decoded values | CLI |
| WASM disassembler, contract specs | `wasm_disasm.go`, `spec_decode.go` | a read position | section and LEB128 decoding | CLI |
| Report formatters | `pkg/lens/format/*.go` | none | `Format` | terminal, files |

What makes each correct, and what is hard about it:

* **Stream parser.** The records returned are those that were written, in order, whole; a clean end is
  reported only at the end; failures of the reader surface; sizes are bounded; detection happens once.
  Hard: a stream can end inside a header, between header and data, between two fragments of a record or
  inside a line; an error may wrap `io.EOF`; the caller may go on calling after an error.
* **Tree explorer.** Cursor, scroll offset, rows, expansion and filter are five pieces of state updated
  by a dozen handlers; they must agree after every sequence of keys. A key may arrive in pieces.
* **Line diff.** The alignment must reproduce both sides, be minimal, and its hunks must be where their
  headers say, or `patch` puts them elsewhere.
* **CLI and output sink.** A script sees an exit status and a file. The status must tell whether the report
  was delivered, whether the check it asked for came out, and whether the input was unreadable, although
  a write, the rename and the command can each fail; one bad file must not spoil a batch; wherever the
  process dies, the named file holds the old report or the whole new one.
* **Meta diff.** The deltas equal what the ledger did to each balance.
* **Structural diff and renderings.** A change is reported exactly where the values differ, also between
  lists whose elements moved; filters, masks and redaction remove what they should and nothing else; the
  reports of one list of changes agree, and its patch makes the right value of the left one.
* **Encoder, coercion, builder.** JSON has one kind of number and one kind of text, XDR has dozens. A
  template must become the value it denotes or be refused; a rendered value must read back as itself; the
  caches must give a concurrent caller the answer a lone one would get.
* **Analyses.** Several of them look at one result, each in its own way, and must not contradict each
  other, nor the ledger's rules about reserves, thresholds, time bounds and predicates.

`PROJECT.json` lists the hazards one by one, each at its line, with the properties that watch it.

## 2. Plan

Done, in this order:

1. `StreamParser`, `StreamWriters`, `RecordSource` and `StreamRoundTrip` (the core: the part with a
   data-dependent protocol and its failures), `StreamParserProofs`, `TUITree`, `TUIRun`, `LineDiff`, `MetaDiff`.
2. The command line as a whole: `Decoding`, `CliDecode`, `CliReports`, `OutputSink`, composed in
   `LensCommand` with failures of every write and system call and with crashes.
3. The structural diff: `NodeTree`, `PathRules`, `SignerSets`, `StructuralDiff`, `DiffReports`, composed in
   `ValueDiff`.
4. JSON to XDR: `Coerce`, `ScValLiterals`, `TxBuilder`, `TxSchema`, `EnumCaches`, `JsonEncoder`,
   composed in `JsonEncoding`.
5. The explanations that decide something: `ResultAnalyses`, `AccountAnalyses` and `TimeAnalyses`,
   composed in `Analyses`.
6. Proofs, most important first: the stream parser, the round trip of all three writers through it and the
   steps of its refinement, the tree explorer and the loop that drives it, the output sink under the command
   line and what the exit status says of the input, the line diff, its hunks and that it is minimal, the meta diff, the lookups of enum constants
   (section 5).

Left: `ReportsAccounted` and `SplitArrowsOnlyMove` are only model-checked; the next component worth a module is the reason tables.

## 3. Modules

| Module | What it is |
|---|---|
| `StreamParser` | the parser: one action per way a call of `Next` can go, one per turn of each framing's loop |
| `StreamWriters` | the three writers, as the units they append |
| `RecordSource` | abstract: records returned in order, then the end; one over the limit is refused |
| `StreamRoundTrip` | writers, stream, parser and a caller that stops at the first error |
| `StreamParserProofs` | theorems about `StreamParser` |
| `StreamRoundTripProofs` | theorems about `StreamRoundTrip`: what is written comes back, and as from a `RecordSource` |
| `TUITree` | the explorer's state and keys |
| `TUITreeProofs` | theorems about `TUITree`, over the order of rows in a tree, and about `TUIRun`, that it drives it |
| `TUIRun` | the `Run` loop and `readKey` over a terminal that delivers bytes in pieces |
| `LineDiff` | alignment, filter and hunks |
| `LineDiffProofs` | theorems about `LineDiff`, over counts of positions and the table of common lines |
| `MetaDiff` | the fold of ledger entry changes into balance deltas, and a ledger that records them |
| `MetaDiffProofs` | theorems about `MetaDiff`, over what a log of changes tells of two ledgers |
| `Decoding` | what a text decodes as: base64, hexadecimal, detection, canonical form, lines of several records |
| `CliDecode` | `decode` and its batch, stream and multi forms, resolution of inputs, errors and exit codes |
| `CliReports` | the other commands that check or report something |
| `OutputSink` | the temporary file and its rename, with every failure and crash |
| `LensCommand` | one run of the program from its command line to its exit status |
| `LensCommandProofs` | theorems about the sink under every command, and about the exit status of each |
| `NodeTree` | the neutral tree, paths in it, and the filters that cut it |
| `PathRules` | path patterns, masks and redaction |
| `SignerSets` | multisets of signers, sets of footprint keys, signing power |
| `StructuralDiff` | the recursive walk with alignment and matching, and Soroban values |
| `DiffReports` | summary, statistics, JSON Patch and its application |
| `ValueDiff` | the passes of `DiffWithOptions`, one action each |
| `Coerce` | a JSON value to a number, bytes, an account, an asset, a price; a name to the constant of an enum |
| `ScValLiterals` | Soroban values from literals and objects |
| `TxBuilder`, `TxSchema` | an envelope from a template, and strict validation of the template |
| `EnumCaches` | the three caches behind the search for a constant, and a theorem about their callers |
| `JsonEncoder` | rendering to JSON and reading it back along Go types |
| `JsonEncoding` | `EncodeJSON` and its relatives, the round trip, two goroutines that look names up |
| `ResultAnalyses`, `AccountAnalyses`, `TimeAnalyses` | the explanations that decide |
| `Analyses` | every analysis asked about the same input, and time passing |
| `MC*` | finite instances |

### StreamParser

A stream is a sequence of *units* and a tail, `"eof"` or `"ioerr"`. A header word is two units, so a
stream can end inside a header, and the top bit of the first unit is RFC 5531's last-fragment bit. With
`HalfRadix = 2^15` a word is the code's `uint32`; the runs take 4 or 8, which keeps the arithmetic, wrap
included, and makes the wrap reachable. Base64 is modelled by what it does: an injective code that writes
each unit with a fixed number of text units (`Enc`), so a cut line can decode to a shorter record.

`pc` is `"idle"` between calls or the framing loop that `Next` is running. `CallNext` covers the closed
test, detection and dispatch; `Read` is one turn of the loop: a fragment, a prefixed record or a line. An
error is the *set of sentinels it wraps*, so `errors.Is` is membership and the difference between
`io.EOF`, `io.ErrUnexpectedEOF` and `%w: ... %w` is exact: it decides whether `Next` closes the parser and
whether `Drain` returns an error. `Drain` is part of the state (`draining`, `drain`) since it lives across
calls of `Next`. `outcome` and `delivered` are history: the last result and the records returned.

### StreamWriters, RecordSource, StreamRoundTrip

`StreamRoundTrip` writes records with one writer, cuts the stream or not, and reads it with the parser
told the framing or left to detect it. Detection is a heuristic on the first four bytes: a record whose
first fragment is not its last looks like a length prefix, and a length prefix whose bytes are all base64
letters looks like a line. `DetectableWriter` names the streams it can tell; only those are read with
`FramingAuto`. `ReadsWhatWasWritten` is refinement: under the mapping *remaining
:= the written records not yet delivered, status := from the last error*, the composed system implements
`RecordSource`, its fairness included. Base64 has no empty record (the reader skips blank lines), which
`Expected` states.

### TUITree, TUIRun

Nodes are numbered in document order and `Last[n]` closes the subtree of `n`, so a tree is a function and
the visible rows are a set. Each handler is an action that contains its `rebuildRows`. In `TUIRun` each byte
carries whether it is the last of what one `Read` returned, the only thing `bufio.Reader.Buffered` can tell,
so every split of an escape sequence is a behaviour. `readKey` looks at what is buffered only after the escape byte, so a
split arrow is an escape and two letters. `ArrowsAreWhole` says what an arrow in one piece is, `SplitArrowsOnlyMove` that
one in several pieces may be lost and does no more: it never quits, and one that goes up, down or home folds nothing.

### LineDiff

The walk of `alignLines` is one action per branch over the LCS table (a recursive function), then
`filterAlignment`, then one action per turn of `buildHunks`. A line is a value; its path is itself, which
is all `filterAlignment` needs.

### MetaDiff

The code folds a list; what makes the result right or wrong is how a ledger wrote that list. So the ledger is
modelled too, as the environment: it applies a transaction's changes list by list (before, operations, after),
recording `STATE` before `UPDATED` or `REMOVED` as a validator does, and `CREATED`, `RESTORED` alone. One
action per branch of `applyLedgerEntryChange` then consumes the changes in the order the code visits them for
that version. `DeltasMatchLedger` compares the report with the two ledgers, which the code never sees.
Integers have two bits, so a balance can be each of them and a difference can exceed them.

### Decoding, CliDecode, CliReports, OutputSink, LensCommand

A command is a record of its flags and of what it will read; a text is a record of the readings the code may
give it (base64, hexadecimal or both; the types its bytes decode as). `RunE` of a command is then a *script*:
the chunks it writes, in order, each with whether the code looks at the error of writing it, and the error it
returns after them. Everything before the first write reads only, so it is one step; from there on each
write is a step that may fail. An error is again the set of its sentinels: `ExitCode` asks in the code's order.
With `--multi` a line that begins with `0x` is always read as hexadecimal, while `decode` of one such payload falls
back to base64 when the digits are not hexadecimal: the same text can exit with 3 in the first form and be decoded in
the second. `Readable` says so, and `ZeroBase64` is such a text.
`OutputSink` is the file system around it: `Open`, `Write`, `Sync`, `Close`, `Chmod`, `Rename` and `discard` each
fail or not, a crash loses what was not flushed, and what survives a crash is a choice.
`LensCommand` composes the two as `Execute` does: it runs the command, closes the sink with whether the command
succeeded, and lets `main` turn the error into the status.

### NodeTree, PathRules, SignerSets, StructuralDiff, DiffReports, ValueDiff

A scalar has its text and, where the text reads as a number, hexadecimal or base64, that reading: the code
compares in all three. The walk is a recursive operator that returns the changes in the order the code
appends them. `ValueDiff` runs the passes one by one (prepare, redact, walk, filter, signing power). The
properties do not look at the walk: `EveryDifferenceLocated` and `ChangesResolve` compare the changes with an
independent definition of where two trees differ, `AlignmentKeepsMost` with all common subsequences,
`EventsMatched` and `SignersAsBags` with counts, and `PatchAppliesInPlace` applies the patch by RFC 6902
(`ApplyPatch`, external).

### Coerce, ScValLiterals, TxBuilder, TxSchema, EnumCaches, JsonEncoder, JsonEncoding

A text is a record of what it reads as, so that the parsers' acceptance is data and their order is the
model's. Widths are scaled down (63 stands for the largest `uint64`, 8 for 2^53, ten stroops make a
unit), which keeps wrapping, rounding and the order of the limits. Where Go leaves a conversion out of range
to the processor, a coercion has several results. Types are records (struct, union, list, pointer, enum and
the special types of the encoder), so the encoder is one recursive operator over type and JSON.
`EnumCaches` gives each load and store of a `sync.Map` a step of its own, for any number of callers (two in
the run).

### ResultAnalyses, AccountAnalyses, TimeAnalyses, Analyses

A result is its codes; a reason is the family of a code and the code. `Analyses` asks each analysis about the
same input in turn, which is how their agreement becomes an invariant over `report`; `Later` verifies the
same preconditions at later and later times. The reference is the ledger's rule, stated again from the
protocol's definition: reserves, thresholds by distinct signers, predicates by their meaning. Sponsorship is the
exception: `DiagnoseSponsorship` pairs the operations that begin and end one and asks for no account, so
`SponsorshipSandwich` is about the order of those operations alone.

### Alternatives

Next to some definitions stands one variant of them (`DrainStepSwallows` beside `DrainStep`). They are not
part of the model: each is the definition with a plausible mistake, and `PROJECT.json` ("mutants") names
the property that notices it.

## 4. Runs

A property that is a conjunction has named parts, each stated beside its comment in the module; the table
gives them in parentheses.

| Run | Checks | Bounds |
|---|---|---|
| `stream_raw` | `TypeOK`, `RecordWithinLimit`, `CleanDrainConsumesAll`, `ReadErrorSurfaces`, `FramingStable` on *every* stream, well formed or not, every framing, and a caller that mixes `Next` and `Drain` and goes on after errors | streams of up to 5 units out of 6 values (two headers and a bit, or lines with spaces, carriage returns and malformed text), limits 1 and 2 |
| `stream_cut` | `BytesReadAtBoundary`, `RecordsDelivered` (`OnlyWholeRecords`, `OnlyLastLineTorn`), the refinement `ReadsWhatWasWritten`, and `DrainTerminates` | up to 2 records of up to 3 units, fragment sizes 0 (none), 1, 2, limits 2 and 3, every cut, ending or failing there |
| `stream_truncation` | `TruncationSurfaces` — *violated* | as `stream_cut`, smaller |
| `tree_keys` | `ViewConsistent` (`TreeTypeOK`, `CursorInViewport`, `RowsAreCurrent`, `MatchesAreOpen`), `FilterShowsAllMatches`, `SelectionIsKept` | seven nodes, three levels, searches matching leaves, inner nodes and nothing; windows of 1, 2 and 3 rows; every sequence of keys |
| `tree_run` | `SplitArrowsOnlyMove`, `ArrowsAreWhole` | every input of up to four bytes out of ten, and up to three arrows broken off at any byte; every split |
| `diff_lines` | `AlignmentCorrect` (`DiffTypeOK`, `SidesReproduced`), `AlignmentMinimal`, `HunksExact` (`HunksCoverChanges`, `HunksApply`) | all pairs of values of up to three lines out of three, and seven lines with every set of changed ones, or with an eighth added; context -1, 0, 1, 2: gaps of 2 * context - 1, 2 * context and 2 * context + 1 all occur; table limit 49, so that seven lines against eight exceed it |
| `meta_deltas` | `DeltasExact` (`MetaTypeOK`, `DeltasMatchLedger`, `FailsOnlyOnOverflow`) | two balances and an entry without one, five changes (an update, a removal and a creation), two-bit integers; versions 0, 1, 2 and the unknown 5 (3 and 4 fold as 2 does) |
| `meta_v1` | `DeltasInEveryVersion` — *violated* | one balance, four changes, versions 0 to 4 |
| `lens_command` | `TargetOldOrWhole`, `StatusTellsDelivery` (`CommandTypeOK`, `ZeroMeansDelivered`, `FailureKeepsTarget`), `StatusTellsAnswer` (`GateHolds`, `ThreeMeansUnreadable`, `OneStatusForABatch`), `ReportsAccounted` (`BatchAccounts`, `RecordsAccounted`), `CommandExits` | some eight hundred command lines, each to a file, to standard output and to nowhere; batches and streams of up to three parts; a write or a call of the sink failing at any point, a crash at any point |
| `value_diff` | `ChangesExact` (`DiffTypeOK`, `EveryDifferenceLocated`, `ChangesResolve`, `EqualIsSymmetric`), `RulesOnlyHide` (`MaskOnlyRemoves`, `RedactionHides`), `CollectionsMatched` (`OperationsMatched`, `AlignmentKeepsMost`, `EventsMatched`, `SignersAsBags`), `PowerChangesReported`, `SemanticsExact`, `ReportsAgree` (`SummariesAgree`, `PatchAppliesInPlace`) | families of small trees, every pair in a family under each of its options; lists of up to four elements, above and below the alignment limit; weights modulo 8; limbs of two bits |
| `encode` | `CoercionsExact` (`EncodingTypeOK`, `AmountsExact`, `PricesExact`, `WideIntegersExact`, `MapKeysSorted`), `EnvelopeAsTemplate` (`SequenceExact`, `ConditionsKept`, `OperationsKept`, `SignaturesInOnePlace`), `ValidatedTemplatesBuild`, `RoundTripsExact` (`InverseUnlessKnown`, `RoundTripFailsKnown`), `CachesConsistent` (`NamesBeforeEntries`, `LookupsAsIfAlone`) | numbers on both sides of every width and of float precision; templates with each field absent, given and given wrongly; values of every special type; two callers and one enum |
| `analyses` | `ResultsRead` (`AnalysesTypeOK`, `AnalysesAgree`, `SilenceMeansSuccess`, `SponsorshipSandwich`), `WrappingKeepsDiagnosis`, `AccountsJudged` (`BalanceJudgedAsLedger`, `SignaturesCountOnce`, `NoteMatchesSignatures`), `ClaimsJudged` (`ClaimTimesExact`, `CreatedCanBeJudged`), `InputsCompared` (`SimulationAgrees`, `FootprintsAsSets`, `MapsComparedByKey`, `FiltersKeepWhatTheyName`), `ExpiryJudged` (`TimeBoundsJudged`, `ExpiredStaysExpired`) | two operations and two results in every mix, bare and in a fee bump, and four operations of sponsorships; a master key and two signers, with one hint or several; predicates of two connectives, and chains of up to four negations (the limit of 64 levels is not reached); times up to the horizon of 9, before and after the reference ledger; time bounds on both sides of the largest signed time |

Two records, two fragments a record and one cut are enough for every interleaving of boundaries the stream
code distinguishes: its loops carry only `record`, `totalSize` and the position from one turn to the next.
A command writes through one sink, and its first failing call decides its end. The families of `value_diff`,
`encode` and `analyses` are chosen so that each branch of the code is taken and each pair of features
that meet in one function meets in one family; they are not all values of a size, and the properties say
nothing about deeper nesting.

### What the violated runs show

* `stream_truncation`: a parser that was told the framing reads a stream that ends *exactly after a header*.
  `io.ReadFull` returns `io.EOF`, which the parser wraps together with `ErrPrematureEOF` (`stream_parser.go:294`, 327).
  `Next` takes it for the end and closes the parser, and `Drain` (and `runStream`, `DecodeEach`) return success.
  The same happens after detection; but a stream shorter than a header fails in detection itself, whose `Peek`
  error (`stream_parser.go:238`) wraps `io.EOF` too: there `Drain` returns success and the parser stays open. That is
  another case, and `TruncationSurfaces` is about parsers that were told the framing.
* `meta_v1`: version 1 records the transaction's own changes before its operations', the code folds them
  after; the balance a fee left is reported as the final one.

### What the properties leave out, and why

Each of these is behaviour of the code that the model has and a property excepts by name:

* Streams: the size test adds in `uint32` and wraps for limits above 2^31 (`stream_parser.go:285`); `RecordWithinLimit` is about
  smaller ones. `ChunkIndex` is a count, documented as an index.
* Explorer: the search of `docs/architecture.md:1361` cannot be entered from `Run`: `readKey` hands over the slash alone
  and `HandleKey` wants slash and text in one (`tui_tree.go:509`).
* Line diff: headers of a *filtered* unified diff number the lines the filter left (`unified.go:69`), of neither value.
* Commands: `explain --markdown` ignores `--fail-on-error`; an unknown `--type` with `--multi` counts as a corrupt record.
* Diff: masked paths still show in reordered operations and in ledger entry headers. Signing power is compared after the
  filter, which does not reach it (`diff.go:135-137`), and of accounts that compare equal not at all: a mask of
  signers or thresholds (`diff.go:142-144`) hides a change of power when nothing else differs and not otherwise, so
  `PowerChangesReported` speaks of comparisons without one; sums that differ by a multiple of 2^32 are taken for
  equal, and a sum that wraps may look too small for a threshold.
* Changes below elements that were matched by what they hold (`diff.go:1329`, 1520) carry the index that the element has on
  the right, the removals too: `ChangesResolve` looks for the left text below one element of the left list, the same
  for all changes below it. A JSON Patch replaces members that do not exist and removes list elements at shifting places.
* Amounts: a JSON *integer* in a template goes through `float64` and is read in units, not stroops
  (`coerce.go:409-411`); numbers above 2^53 are rounded; 2^63 passes the range test of `int64`.
* Templates: `sourceAccount`, `source`, `seqNum` and `sequenceNumber` are read by schema and builder alike; every other
  alias (`timeBounds`, `ledgerBounds`, `feeBump`, `extraSigners`, `sorobanData`, `feeSource`, `maxFee`, `minTime`, `maxTime`)
  passes validation and the builder drops it, and of two names of one field only one is validated
  (`NamesShared`). What passes and is refused when built is in `LeftToBuilder`: parts the schema does not look into
  (fields of operations, memos, signatures, Soroban data, an inner transaction), numbers wider than their field, bounds
  with one end, the type `fee_bump` without its part, `v0` from an M account. The number 2^63 - 1 becomes 2^63 by way of `float64`.
  Numeric memos and arguments are refused; the footprint, and extra signers, are dropped; a bad asset becomes
  native and a bad limit the largest one.
* Round trips (`Lossy`, `Unreadable`): texts that read as hexadecimal are read so; short `alphanum12` codes
  become `alphanum4`; failures of a peer address, pool shares, addresses other than G and C, and the sign of
  `i256` are lost or refused.
* Analyses: the isolator never reports the fee-bump wrapper itself; a failed transaction without a failing operation
  gets the first; the envelope summary speaks of all operations matching on success even where some have no
  result; an error text that mentions memory is a memory error whatever else it says. Sponsorships of different
  accounts that overlap are reported as conflicts, and one that is ended by the wrong account is not. A
  simulation response with missing keys and no error text is named after the keys and still called a success
  (`simulation_explain.go:129-141`), where the keys alone are not (`KeysAlone`). Time bounds are unsigned and compared as signed: a
  lower one of 2^63 and more is taken for none, and the time said to have passed since an upper one of exactly 2^63 wraps.

### Fairness

`CutSpec` has weak fairness on the caller calling `Next` and on the parser's loop: both are code that
runs without waiting for anyone, over a finite stream. `LensCommand` has weak fairness on the
process's own steps and none on a crash or on any particular outcome of a call: the process runs while it is
not cut off. No other property needs fairness and no other specification has any.
`CHECK_DEADLOCK FALSE` is set where the modelled code returns: `Run` ends, a line diff is done, a result is
reported; `LensCommand`, `ValueDiff` and `JsonEncoding` have a step `Stopped` for that instead, `Analyses` a step `Finished`.

## 5. Proofs

`StreamParserProofs` proves, for every `HalfRadix`, text alphabet, encoding, stream, framing and limit:

* `TypeCorrect`: `Spec => []TypeOK`. Not trivial: record lengths, `totalSize` and the position depend on
  `ReadFull` never passing the end and on sums that wrap within a word.
* `LimitRespected`: `Spec => []RecordWithinLimit`. Needs `Len(record) <= totalSize` while the sum cannot
  wrap, i.e. the limit is at most half the range: above that it is false.
* `CleanDrainIsComplete`: `Spec => []CleanDrainConsumesAll`. Needs that `closed` implies the position is at
  the end, and that an error wrapping `io.EOF` only arises there.
* `ReadErrorsAreReported`: `Spec => []ReadErrorSurfaces`; needs that `io.EOF` never arises when the reader
  fails.
* `FramingIsStable`: `Spec => FramingStable`.

They rest on one inductive invariant, `IInv`, the conjunction of `TypeOK`, the link between `record`,
`totalSize` and the limit, and the link between `closed`, `drain`, the position and the tail. `InitIInv`,
`NextIInv` and `Invariance` establish it: one lemma per loop says what its turns consume and which errors
they return (`RecordMarkingTurn`, `LengthPrefixedTurn`, `Base64Turn`), one lemma per way a call ends
says what it keeps (`FailKeeps`, `DeliverKeeps`, `ContinueKeeps`). The assumptions are those of
`StreamParser` on its constants: a positive radix, text units below the top bit, an injective encoding of
fixed width.

`StreamRoundTripProofs` proves, for records of every number and length, every writer, fragments of every
size, every limit, every cut, a stream that ends or fails there, and a parser told the framing or detecting it:

* `BinaryRoundTrip`: `CutSpec => [](BytesReadAtBoundary /\ OnlyWholeRecords)`. What the caller has is the beginning of
  what was written, unaltered and in order; no piece of a torn record is returned; an error other than a refusal
  comes after the last whole record; and between two calls the bytes counted end where a record ends.
* `BinaryReadingIsASource`: every step of reading a binary stream is a step of `RecordSource` on the records before
  the cut (`Return`, `Refuse`, `End`, `Fail`) or changes nothing that its caller sees.
* `WhatWasWrittenComesBack`: `CutSpec => []RecordsDelivered`, base64 lines included: all lines before the torn one
  come back as they were written, empty records apart, and the torn one at most shorter.
* `ReadingIsASource`: `CutSpec => Source!SourceInit /\ [][Source!SourceNext]_(Source!sourceVars)`, for all three framings: the
  safety part of `ReadsWhatWasWritten`. A torn line that still decodes is the source's `ReturnTorn`.

For the binary framings `RTInv` adds to `IInv` where the reader stands (`ReadInv`): at the end of the last record returned, or, inside
`readRecordMarking`, at the header of fragment `f` of the next record with its first `f - 1` fragments put together
(`InRecord`); framing, if detected, is the writer's; an error other than a refusal finds nothing whole left (`Exhausted`). The
lemmas go from the outside in: what `FlattenSeq` joins stays where it is put (`JoinedKeeps`, `JoinedBlocks`; by least
counterexample, as `FlattenSeq` is a recursive function), how a record is cut (`Cuts`), what a framed record
looks like (`LaidOut`), where fragment `f` of record `k` lies in the stream and what its header says
(`FragmentInStream`, `HeadSays`), and what a short read there means (`HeaderShort`, `BodyShort`).

For lines `LinesInv` adds `TextInv`: for some `k` the reader stands behind line `k` and the caller has what is kept of
the first `k` lines (`AfterLine`), or it took what is there of line `k + 1` for a record and stands at the end
of the stream (`AfterTorn`). `Kept(k)` joins the records of the first `k` lines that are not empty, so the lemmas
about joining serve again. From inside out: the text of a record is its units' letters in blocks of `EncLen` (`TextOf`), a
beginning of it decodes exactly if it is whole blocks, and to those units (`Decodes`), line `k` lies where `ends` says
(`LineAt`), and what `readBase64Line` takes there is its letters as far as they go (`LineRead`). What the caller
sees of a step (`Sees`) is stated without the invariant, which makes the refinement a matter of cases.

The theorems take two hypotheses, three for lines, and `MCStream` asserts that the runs meet them. `EncIsText`: what
base64 writes is letters of its alphabet and no blanks, and a line's end belongs to text. `FitsWord`: no record is as long as the
last-fragment bit, 2^31 bytes in the code, so that its length fits the length field of a fragment header.
`NoTextHeader`: no length up to that of the longest record, as a prefix, reads as base64 letters and line ends. In the
code this holds below 0x0A0A0A0A, some 160 MiB; above it `FramingAuto` would take some length-prefixed streams for
text, the hazard listed at `stream_parser.go:250`.

`TUITreeProofs` proves, for every tree, every set of searches with what each matches, and every height:

* `ViewIsConsistent`: `TreeSpec => []ViewConsistent`. The cursor is on a row inside the window, the rows are those
  of the current expansion and filter, and the matches are open. `MatchesAreOpen` (what the
  filter marked stays expanded) is the part that a handler which forgot to rebuild would break first, and what
  ties the rows to the matches. The lemmas number the rows of a
  set of nodes (`IndexOf` is injective and onto) and show that a rebuild keeps or clamps the cursor.
* `FilterIsComplete`: `TreeSpec => []FilterShowsAllMatches`, from the same invariant: `Marked` opens each ancestor
  of a match, so no chain of collapsed nodes hides it.
* `SelectionStays`: `TreeSpec => SelectionIsKept`, an action property; one case per branch of `ToggleSelected` and
  `CollapseNode`.
* `ArrowsStayWhole`: `RunSpec => ArrowsAreWhole`, for every input of bytes in pieces: an arrow that arrives in one
  piece is a single key, whatever is behind it.
* `RunDrivesTheTree`: `RunSpec` implies `TreeSpec`: the loop of `Run` gives the explorer only keys that `HandleKey` knows or
  ignores, or leaves it alone.
* `ScreenIsConsistent`: hence `RunSpec => [](ViewConsistent /\ FilterShowsAllMatches)`: what is proved of the explorer for
  every sequence of keys holds for whatever is typed.

The assumption is that `Last` closes subtrees: it never points before its node and subtrees nest.

`LensCommandProofs` proves, for every set of commands, with a failure of any call and a crash anywhere:

* `FileIsOldOrWhole`: `Spec => []TargetOldOrWhole`.
* `StatusIsHonest`: `Spec => []StatusTellsDelivery`.
* `StatusIsTrue`: `Spec => []StatusTellsAnswer`: no false check exits with 0 and only a false one with 2; 3 means a text
  that could not be read as asked, and for a batch that every file was there.

The inductive invariant `CommandInv` says where the report is at each moment: what the destination took and
what is left to write make up the report unless a failure was met (`NothingMissing`); until the sink closes the
old file is in place and a temporary one exists exactly while a handle does (`NothingReplaced`); it is on its
way to the target only after the command succeeded, synced to its end once past `Sync` (`Replacing`); what is
left after it (`Replaced`); and which phases of command and sink go together (`PhasesAgree`), status included.
The first two theorems never look into the commands: `ScriptAssumption` says that the report of each is a finite sequence of
chunks. That follows from the definitions, but they are built with folds, whose results the provers cannot
type; TLC evaluates the assumption for the commands of the run.

`StatusIsTrue` does look into them. `Judged` adds to the invariant that what the command returned is the error of its
script or that of a write, so the status 0, 2 or 3 is that of the script (`StatusIsOfCommand`); then one lemma per
command, `CommandIsHonest` for all, says what its error stands for: an error that is invalid XDR blames a text
(`Blamed`: there, and not `Readable` as asked), and an exit error comes from a gate. A batch takes the error of its
least failing file, several lines that of the first bad one, a list of checks (`FirstError`) that of the first that
fails: `LeastExists` gives each of these. The assumption, `CommandsRead`, is what the code gives its commands:
standard input is always there, the files of a batch were named, only registered types decode, `failed` is said of
a `TransactionResult`, records of a stream are base64 of their bytes, lines of data are not blank, and the parser's own
error is no exit error. Choices that overlap in the code (`ResolveInput`, `DecodeScript`, ...) are `IF` chains in these
modules, because the arms of a `CASE` have no order in the logic. Modules that only TLC evaluates use `CASE` in TLC's
reading, the first arm that holds; where a module with theorems uses it, the theorems hold whichever arm is taken.

`LineDiffProofs` proves, for every pair of texts of any length, every filter, context and table limit:

* `AlignmentIsCorrect`: `DiffSpec => []AlignmentCorrect`: the pairs spell the left text and the right one.
* `HunksAreAPatch`: `DiffSpec => []HunksExact`: every change is in a hunk, each hunk applies where its header says, and the
  text between hunks is unchanged, so the hunks of an unfiltered diff turn the left text into the right one.
* `AlignmentIsMinimal`: `DiffSpec => []AlignmentMinimal`: within the table limit, no alignment of the two texts keeps more lines.

`DiffInv` relates the walk to counts of pairs: after `k` pairs as many left and right lines are spelled as pairs
that have one (`Spelling`, `SameText`); a walk that has ended has spelled both texts (`WholeSpelled`, `WalkEnds`); and each
hunk is a range of pairs whose numbers are those counts, with its context around it, after the hunk before it,
and all changes that the loop has passed inside some hunk (`HunksPlaced`). The counts are cardinalities of sets of positions:
`UptoSplit`, `UptoAll`, `UptoNone` add them up.

For minimality the table `lcs` has to exist and to mean something. Both are shown by a least counterexample on the
number of lines left: there is a function that meets the recursion of `lcs`, and no common subsequence is longer than its entry
(`CommonIsBounded`). `WalkIsMinimal` then says that the equal pairs so far and the entry where the walk stands add up to
the entry at the start, which each branch of the walk keeps: it takes an equal pair or goes to the
larger neighbour.

`MetaDiffProofs` proves, for every set of keys, every width of the integers, every transaction of any length:

* `DeltasAreExact`: `MetaSpec => []DeltasExact`: in every version but 1 the deltas are those of the two
  ledgers, none missing and none besides, and the fold fails only on malformed changes, an unknown version, or a delta
  that has no value in the integers' width (`WrapExact` and `OverflowExact`: the code's sign test notices each
  difference that wraps and no other).

`MetaInv` has two halves that meet in the log, the concatenation of the lists. While the ledger writes: an
entry without a change is what it was, the first change of an entry tells its old balance, the last its new one, and a
state is followed by its change (`Faithful`), for which the lists must have been filled in the order in which
they are joined (`WrittenInOrder`). While the code folds: the builders are exactly the entries seen so far, with the balance
before and the last balance that is not a state (`LogFolded`, by `Builds`). At the end of the log `Builds` and
`Faithful` give the report. Version 1 is outside `LogFolded`, as it must be: `meta_v1` shows it false there.

`EnumCaches` itself holds one theorem, for any number of callers and any enums and texts:

* `CallersFindTheirOwn`: from empty caches, `[](NamesBeforeEntries /\ EachAsIfAlone)`. `LookupInv` adds that a caller past the
  entries has its names stored and that one past the names found nothing by name or label; without
  the first the exact pass could be skipped for a caller that would find something there. A later call of one
  goroutine is one more caller. The hypothesis is that what is looked up is a text, which is all the type of
  `enumValueForName` admits. That a rendering finds its own constant depends on the tables and stays with the run.

Each of these invariants was first checked by TLC on the instance of the module's run. The assumptions on
constants are the named ones in the modules, and TLC evaluates them in every run.

Model-checked only:

* The fairness of `ReadsWhatWasWritten`.
* `ReportsAccounted`: about the sequence of chunks of a batch or a stream, which is a fold over its parts.
* The properties of `ValueDiff`, `JsonEncoding` (but for the caches) and `Analyses`: `NodeTree` and what extends it, `TxSchema`,
  `JsonEncoder` and `TimeAnalyses` hold recursive operators over trees, types and predicates. What those compute is
  checked on the families of their runs and cannot be proved here.
* `SplitArrowsOnlyMove`: about the bytes of several keys in a row, which no key handler sees.
* `DrainTerminates`, `CommandExits`: liveness under fairness is out of the prover's reach.

## 6. Not modelled

The components with status `not_modelled` in `PROJECT.json`, with the reason each: the reason tables and the
formatters (texts), the WASM disassembler and contract specs, shell completion, fixtures. Within the others:

* the wording of errors and hints, the drawing of rows, `flattenTree`, colours, and the columns of side-by-side views;
* what `NextNode` and `NextInto` decode after `Next`;
* the names of holders and assets in the meta diff and the sorting by them;
* the stdin probe (`stdin_pipe.go`): what it decides depends on what the operating system says of a descriptor;
* the wire-size index of detection, which only prunes candidates that decoding would refuse;
* most operation bodies of the builder, which are tables of fields, and most enrichers, which are tables of labels;
* in the explanations, the tables from one result code to one sentence, and those of authorisation trees, offers,
  trust lines, upgrades and resource fees.

Readers return at least one byte or an error; a reader that returns neither is cut short by `bufio` itself.
