------------------------------ MODULE LensCommand ------------------------------
(***************************************************************************)
(* One run of the program: cmd/lens/main.go and Execute of                 *)
(* internal/cli/root.go.  A command writes its script through the output   *)
(* sink, Execute closes the sink, and main turns the error into the status *)
(* of the process.  Any write and any call of the sink may fail, and the   *)
(* run may be cut off between any two of them.                             *)
(***************************************************************************)
EXTENDS CliReports, OutputSink

CONSTANT Commands

\* What a command writes is a sequence of chunks.
ASSUME ScriptAssumption ==
  \A c \in Commands : LET chunks == CommandScript(c).chunks IN chunks \in Seq(ToSet(chunks))

\* What the commands read: a text says in which readings it is what, only types
\* of the registry decode, and only the result of a transaction says that the
\* transaction failed.
TextFields == {"form", "zeroX", "trees", "hexTrees", "len", "canonical", "failed"}
IsText(t) ==
  /\ TextFields \subseteq DOMAIN t
  /\ DOMAIN t.trees \cup DOMAIN t.hexTrees \subseteq TypeNames
  /\ t.failed => TypeOf(t) = "TransactionResult"
IsSource(s) == s.kind \in {"absent", "unreadable", "text"} /\ IsText(s.text)

\* There is always a standard input; a batch reads files that it was given; the
\* records of a stream are the base64 of bytes (none give an empty text); lines
\* of data are not empty.
CommandsRead(c) ==
  /\ \A s \in {c.file, c.arg, c.stdin, c.left, c.right, c.result, c.meta} \cup ToSet(c.files) : IsSource(s)
  /\ c.files \in Seq(ToSet(c.files)) /\ c.lines \in Seq(ToSet(c.lines)) /\ c.records \in Seq(ToSet(c.records))
  /\ c.stdin.kind # "absent" /\ \A s \in ToSet(c.files) : s.kind # "absent"
  /\ c.name \in {"diff", "result-diff"} => c.left.kind # "absent" /\ c.right.kind # "absent"
  /\ c.batch => c.name = "decode"
  /\ \A l \in ToSet(c.lines) : IsText(l.text) /\ (l.kind = "data" => l.text.form # "empty")
  /\ \A t \in ToSet(c.records) :
       IsText(t) /\ (IsBase64(t) \/ (t.form = "empty" /\ t.canonical /\ t.len % 4 = 0))
  /\ c.tail \notin ExitErrors

ASSUME CommandsAssumption == \A c \in Commands : CommandsRead(c)

VARIABLES
  cmd,     \* the command line and what it will read
  script,  \* what its RunE makes of it: the chunks it writes and its error
  todo,    \* the chunks of the script that are not yet written
  err,     \* the error the command returned
  phase,   \* "starting", "writing", "closing", "exited" or "crashed"
  code,    \* the status of the process
  lost     \* did a write fail whose error nobody looked at?

commandVars == <<cmd, script, todo, err, phase, code, lost>>
vars == <<cmd, script, todo, err, phase, code, lost, sinkVars>>

Init ==
  /\ SinkInit
  /\ cmd \in Commands /\ script = CommandScript(cmd)
  /\ cmd.quiet = (dest = "discard")
  /\ todo = << >> /\ err = {} /\ phase = "starting" /\ code = ExitSuccess /\ lost = FALSE

-----------------------------------------------------------------------------
RunE ==
  /\ phase = "starting"
  /\ phase' = "writing"
  /\ todo' = script.chunks /\ err' = script.err
  /\ UNCHANGED <<cmd, script, code, lost, sinkVars>>

WriteChunk ==
  /\ phase = "writing" /\ todo # << >>
  /\ WriteAccepted(Head(todo))
  /\ todo' = Tail(todo)
  /\ UNCHANGED <<cmd, script, err, phase, code, lost>>

WriteChunkRetries ==
  /\ phase = "writing" /\ todo # << >>
  /\ OpenFails \/ WriteFails \/ WriteRefused
  /\ UNCHANGED <<cmd, script, todo, err, lost, phase, code>>

\* A failed write ends the command where the code checks it, and is passed
\* over where it does not.
WriteChunkFails ==
  /\ phase = "writing" /\ todo # << >>
  /\ OpenFails \/ WriteFails \/ WriteRefused
  /\ IF Head(todo).checked
       THEN todo' = << >> /\ err' = {"writing"} /\ UNCHANGED lost
       ELSE todo' = Tail(todo) /\ lost' = TRUE /\ UNCHANGED err
  /\ UNCHANGED <<cmd, script, phase, code>>

Return ==
  /\ phase = "writing" /\ todo = << >>
  /\ phase' = "closing"
  /\ StartClose(err = {})
  /\ UNCHANGED <<cmd, script, todo, err, code, lost>>

Closing ==
  /\ phase = "closing"
  /\ CloseStep
  /\ UNCHANGED commandVars

OutcomeOfCommand == err

\* The error of closing counts when the command itself had none.
Outcome == IF err = {} /\ closeErr THEN {"closing"} ELSE err

Exit ==
  /\ phase = "closing" /\ closing = "closed"
  /\ phase' = "exited" /\ code' = ExitCode(Outcome)
  /\ UNCHANGED <<cmd, script, todo, err, lost, sinkVars>>

Crash ==
  /\ phase \in {"starting", "writing", "closing"}
  /\ SinkCrash
  /\ phase' = "crashed"
  /\ UNCHANGED <<cmd, script, todo, err, code, lost>>

Done == phase \in {"exited", "crashed"}
Stopped == Done /\ UNCHANGED vars

Next == RunE \/ WriteChunk \/ WriteChunkFails \/ Return \/ Closing \/ Exit \/ Crash \/ Stopped

\* A process that is not cut off goes on to its end.
Spec == Init /\ [][Next]_vars
        /\ WF_vars(RunE \/ WriteChunk \/ WriteChunkFails \/ Return \/ Closing \/ Exit)

-----------------------------------------------------------------------------
(***************************************************************************)
(* Properties.                                                             *)
(***************************************************************************)
Whole == script.chunks
Intended == script.err
Exited == phase = "exited"
WriteError == "writing" \in err

\* Type invariant of the run and its sink.
CommandTypeOK ==
  /\ lost \in BOOLEAN /\ code \in 0..3
  /\ phase \in {"starting", "writing", "closing", "exited", "crashed"}
  /\ writer \in {"none", dest} /\ handle \in BOOLEAN /\ tempPath \in BOOLEAN
  /\ handle => tempPath /\ temp.there
  /\ temp.synced <= Len(temp.data) /\ target.synced <= Len(target.data)

\* output.go 80-82: the file named by --output holds what it held before or
\* the whole report of a command that succeeded, whatever failed and wherever
\* the run was cut off, unless the code passed over the error of a write.
TargetOldOrWhole ==
  target = Previous \/ (Intended = {} /\ (lost \/ target.data = Whole))

\* Status 0 means that the report reached its destination in full and that no
\* temporary file is left beside it.
ZeroMeansDelivered ==
  Exited /\ code = ExitSuccess =>
    /\ Intended = {} /\ ~temp.there
    /\ ~lost => CASE dest = "base" -> stdout = Whole
                  [] dest = "file" -> IF Whole = << >> THEN target = Previous ELSE target.data = Whole
                  [] OTHER -> TRUE

\* Any other status leaves the named file alone and no file open.
FailureKeepsTarget == Exited /\ code # ExitSuccess => target = Previous /\ ~handle

\* What was asked of a checking command, read off its input.
SourceRead ==
  IF cmd.file.kind # "absent" THEN cmd.file
  ELSE IF cmd.arg.kind # "absent" THEN cmd.arg
  ELSE cmd.stdin
CheckIsFalse ==
  CASE cmd.name = "explain" -> cmd.failOnError /\ \E source \in {SourceRead, cmd.result} :
         Given(source) /\ source.text.failed
    [] cmd.name = "diff" -> (cmd.exitCode \/ cmd.quiet) /\ cmd.left.text.value # cmd.right.text.value
    [] cmd.name = "result-diff" -> (cmd.exitCode \/ cmd.quiet)
         /\ cmd.left.text.operations # cmd.right.text.operations
    [] OTHER -> FALSE

\* README.md 790-800: a check that came out false never exits with 0, and only
\* such a check exits with 2, with every combination of output flags.
\* (explain --markdown is the exception.)
GateHolds ==
  Exited => /\ CheckIsFalse /\ cmd.format # "markdown" => code # ExitSuccess
            /\ code = ExitDiffFound => CheckIsFalse

\* Every text a command is given, and whether it can be read as asked.  Only
\* decode looks for hexadecimal digits, and with --multi a line that begins with
\* 0x must be hexadecimal (alone, it may also be base64).
Texts ==
  {s.text : s \in {t \in {cmd.file, cmd.arg, cmd.stdin, cmd.left, cmd.right, cmd.result, cmd.meta}
                           \cup ToSet(cmd.files) : t.kind = "text"}}
  \cup ToSet(cmd.records) \cup {l.text : l \in {k \in ToSet(cmd.lines) : k.kind = "data"}}
ReadableAs(trees, type) == IF type = "" THEN DOMAIN trees # {} ELSE type \in DOMAIN trees
Readable(text, type) ==
  /\ \/ ~(cmd.multi /\ text.zeroX) /\ IsBase64(text) /\ ReadableAs(text.trees, type)
     \/ cmd.name = "decode" /\ (cmd.hex \/ text.zeroX) /\ IsHexString(text) /\ ReadableAs(text.hexTrees, type)
  /\ cmd.canonical => text.canonical /\ text.len % 4 = 0

\* exitcodes.go 19-21: status 3 says that the payload cannot be read.  It never
\* comes from a missing file, a usage mistake or a failed write.  (An unknown
\* --type with --multi is taken for a corrupt record and is left out here.)
ThreeMeansUnreadable ==
  Exited /\ code = ExitInvalidXDR /\ ~(cmd.multi /\ cmd.type # "" /\ cmd.type \notin TypeNames) =>
    \/ cmd.stream /\ cmd.tail # "io.EOF"
    \/ \E text \in Texts, type \in {cmd.type, "Asset", "TransactionMeta"} :
         /\ text.form # "empty" /\ ~Readable(text, type)
         /\ cmd.name \notin {"asset", "meta-diff"} => type = cmd.type
    \/ \E text \in Texts : text.form = "both"

\* A finished batch accounts for every file: one header each, in order, then
\* either its whole report or one error line that the summary repeats; and it
\* exits with 0 exactly when no file failed.
Named(what) == SelectSeq(stdout, LAMBDA c : c.what = what)
NamesOf(chunks) == [i \in DOMAIN chunks |-> chunks[i].id]
BatchAccounts ==
  Exited /\ cmd.batch /\ dest = "base" /\ ~WriteError /\ stdout # << >> =>
    /\ NamesOf(Named("header")) = [i \in DOMAIN cmd.files |-> cmd.files[i].name]
    /\ NamesOf(Named("failed")) = NamesOf(Named("error"))
    /\ ToSet(NamesOf(Named("newline"))) \cup ToSet(NamesOf(Named("error"))) = ToSet(NamesOf(Named("header")))
    /\ \A i \in DOMAIN stdout : stdout[i].what = "error" =>
         stdout[i - 1] = Chunk("header", stdout[i].id)
    /\ (code = ExitSuccess) = (Named("error") = << >>)

\* cli/input.go 142-155: a batch exits with 3 only when every file that failed was
\* there and could not be read as asked.
OneStatusForABatch ==
  Exited /\ cmd.batch /\ code = ExitInvalidXDR => \A i \in DOMAIN cmd.files :
    cmd.files[i].name \in ToSet(NamesOf(Named("error"))) => cmd.files[i].kind = "text"

\* A stream is reported record by record up to the first that cannot be read;
\* records of a text are reported all or not at all.
RecordsAccounted ==
  Exited /\ dest = "base" /\ ~WriteError =>
    /\ cmd.stream => \E n \in 0..Len(cmd.records) :
         /\ NamesOf(Named("report")) = [i \in 1..n |-> cmd.records[i].id]
         /\ n < Len(cmd.records) /\ stdout # << >> =>
              code # ExitSuccess /\ ~Readable(cmd.records[n + 1], cmd.type)
    /\ cmd.multi /\ ~cmd.stream /\ cmd.format = "tree" =>
         LET data == SelectSeq(cmd.lines, LAMBDA l : l.kind = "data")
         IN  \/ stdout = << >> /\ code # ExitSuccess
             \/ NamesOf(Named("report")) = [i \in DOMAIN data |-> data[i].text.id]

\* A run that is not cut off comes to its exit.
CommandExits == <>Done

\* root.go 42-47 and output.go: what a caller concludes from the exit status
\* about the file or the stream it asked for is what it finds there.
StatusTellsDelivery ==
  CommandTypeOK /\ ZeroMeansDelivered /\ FailureKeepsTarget

\* exitcodes.go: what a caller concludes from the exit status about the input,
\* that a gate has failed or that the text was unreadable, is what the input says.
StatusTellsAnswer ==
  GateHolds /\ ThreeMeansUnreadable /\ OneStatusForABatch

\* cli/decode.go 414, 475: a batch or a stream reports each of its parts, in
\* order, the failed ones too, and the exit status is that of the whole.
ReportsAccounted ==
  BatchAccounts /\ RecordsAccounted
=============================================================================
