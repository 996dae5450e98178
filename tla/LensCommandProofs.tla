-------------------------- MODULE LensCommandProofs --------------------------
(***************************************************************************)
(* What one run of the program guarantees about the destination of its     *)
(* report, for every command whose report is a sequence of chunks, with    *)
(* every failure and every place where the run may be cut off.             *)
(* Then what its status says of the input: which text, or which check, the *)
(* error of each command stands for.                                       *)
(***************************************************************************)
EXTENDS LensCommand, SequenceTheorems, WellFoundedInduction, TLAPS

-----------------------------------------------------------------------------
(***************************************************************************)
(* The invariant.                                                          *)
(***************************************************************************)
\* All the chunks that the commands can write, and what the target held.
Reported == UNION {ToSet(CommandScript(c).chunks) : c \in Commands}
Chunks == Reported \cup ToSet(Previous.data)
Files == [there : BOOLEAN, data : Seq(Chunks), synced : Nat]
ClosingSteps == {"sync", "close", "chmod", "rename"}

RunOK ==
  /\ Whole \in Seq(Chunks) /\ todo \in Seq(Chunks)
  /\ temp \in Files /\ target \in Files /\ stdout \in Seq(Chunks)
  /\ temp.synced <= Len(temp.data) /\ target.synced = Len(target.data)
  /\ dest \in {"discard", "base", "file"} /\ writer \in {"none", dest}
  /\ handle \in BOOLEAN /\ tempPath \in BOOLEAN /\ sinkErr \in BOOLEAN
  /\ closeErr \in BOOLEAN /\ lost \in BOOLEAN /\ code \in 0 .. 3
  /\ phase \in {"starting", "writing", "closing", "exited", "crashed"}
  /\ handle => tempPath /\ temp.there

\* The phases of the command and those of its sink.
PhasesAgree ==
  /\ phase \in {"starting", "writing"} => closing = "open"
  /\ phase = "closing" => closing \in ClosingSteps \cup {"closed"}
  /\ phase = "exited" => closing = "closed" /\ code = ExitCode(Outcome)
  /\ phase = "starting" => /\ writer = "none" /\ ~sinkErr /\ ~lost
                           /\ stdout = << >> /\ err = {}
  /\ phase \in {"writing", "closing", "exited"} /\ err = {} => Intended = {}

\* Until the sink is closed the old file is in place, and a temporary file is
\* there exactly when one was opened, which takes a chunk to write.
NothingReplaced ==
  closing = "open" =>
    /\ target = Previous /\ ~closeErr
    /\ handle = temp.there /\ handle = (writer = "file") /\ tempPath = handle
    /\ sinkErr => writer = "none"
    /\ writer # "none" => Whole # << >>

\* What the destination took and what is left to write make up the report,
\* unless the command has failed or a failure was passed over.
Written == CASE dest = "base" -> stdout
             [] dest = "file" /\ writer = "none" -> << >>
             [] OTHER -> temp.data
NothingMissing ==
  phase \in {"writing", "closing", "exited"} =>
    /\ Len(todo) <= Len(Whole)
    /\ phase # "writing" => todo = << >>
    /\ dest = "base" /\ err = {} /\ ~lost /\ ~sinkErr => stdout \o todo = Whole
    /\ closing = "open" /\ dest = "file" /\ err = {} /\ ~lost /\ ~sinkErr =>
         Written \o todo = Whole

\* A file is on its way to the target only when the command has succeeded.
Replacing ==
  closing \in ClosingSteps =>
    /\ phase = "closing" /\ dest = "file" /\ err = {} /\ ~closeErr
    /\ target = Previous /\ Whole # << >>
    /\ tempPath /\ temp.there /\ (~lost => temp.data = Whole)
    /\ handle <=> closing \in {"sync", "close"}
    /\ closing # "sync" => temp.synced = Len(temp.data)

\* The sink once it is closed.
Delivered == CASE dest = "base" -> stdout = Whole
               [] dest = "file" -> IF Whole = << >> THEN target = Previous
                                   ELSE target.data = Whole
               [] OTHER -> TRUE
Replaced ==
  closing = "closed" =>
    /\ ~handle
    /\ err # {} \/ closeErr => target = Previous
    /\ err = {} /\ ~closeErr => ~temp.there /\ (~lost => Delivered)

CommandInv ==
  /\ RunOK /\ PhasesAgree /\ NothingReplaced /\ NothingMissing
  /\ Replacing /\ Replaced /\ TargetOldOrWhole

-----------------------------------------------------------------------------
(***************************************************************************)
(* Sequences of chunks, and files.                                         *)
(***************************************************************************)

\* Moving the first of the chunks that are left to the end of what is written
\* changes nothing about the whole.
LEMMA MoveOneChunk ==
  ASSUME NEW s \in Seq(Chunks), NEW t \in Seq(Chunks), t # << >>
  PROVE  /\ Head(t) \in Chunks /\ Tail(t) \in Seq(Chunks)
         /\ Len(Tail(t)) = Len(t) - 1
         /\ Append(s, Head(t)) \in Seq(Chunks)
         /\ Append(s, Head(t)) \o Tail(t) = s \o t
<1>1. /\ Head(t) \in Chunks /\ Tail(t) \in Seq(Chunks)
      /\ Len(Tail(t)) = Len(t) - 1
      /\ \A i \in 1 .. Len(Tail(t)) : Tail(t)[i] = t[i + 1]
  BY HeadTailProperties
<1>2. Append(s, Head(t)) \in Seq(Chunks) /\ Head(t) = t[1] /\ Len(t) > 0
  BY <1>1
<1>3. Append(s, Head(t)) \o Tail(t) = s \o t
  BY <1>1, <1>2
<1> QED
  BY <1>1, <1>2, <1>3

\* Nothing is left of a report when nothing remains to be written.
LEMMA NothingRemains ==
  ASSUME NEW s \in Seq(Chunks)
  PROVE  s \o << >> = s /\ << >> \o s = s
OBVIOUS

\* The report of a command is a sequence of such chunks.
LEMMA ReportIsSequence ==
  ASSUME NEW c \in Commands
  PROVE  CommandScript(c).chunks \in Seq(Chunks)
<1> DEFINE chunks == CommandScript(c).chunks
<1>1. chunks \in Seq(ToSet(chunks))
  BY ScriptAssumption
<1>2. ToSet(chunks) \subseteq Chunks
  BY DEF Chunks, Reported
<1> HIDE DEF chunks
<1>3. chunks \in Seq(Chunks)
  BY <1>1, <1>2
<1> QED
  BY <1>3 DEF chunks

\* The files that the sink starts from.
LEMMA SomeFiles ==
  /\ NoFile \in Files /\ NewFile \in Files /\ Previous \in Files
  /\ NoFile.data = << >> /\ NewFile.data = << >>
  /\ NewFile.there = TRUE /\ NewFile.synced = 0
  /\ NoFile.there = FALSE /\ NoFile.synced = 0
  /\ Len(Previous.data) = 1 /\ Previous.synced = 1
<1>1. << >> \in Seq(Chunks)
  OBVIOUS
<1>2. NoFile \in Files /\ NewFile \in Files
  BY <1>1 DEF NoFile, NewFile, Files
<1> DEFINE old == [what |-> "previous", id |-> "", checked |-> TRUE]
<1>3. Previous = [there |-> TRUE, data |-> <<old>>, synced |-> 1]
  BY DEF Previous
<1> HIDE DEF old
<1>4. Len(<<old>>) = 1 /\ <<old>>[1] = old /\ 1 \in DOMAIN <<old>>
  OBVIOUS
<1>5. old \in Chunks
  <2>1. old \in ToSet(<<old>>)
    BY <1>4 DEF ToSet
  <2>2. Previous.data = <<old>>
    BY <1>3
  <2>3. old \in ToSet(Previous.data)
    BY <2>1, <2>2
  <2> QED
    BY <2>3 DEF Chunks
<1>6. <<old>> \in Seq(Chunks)
  BY <1>5
<1>7. Previous \in Files /\ Len(Previous.data) = 1 /\ Previous.synced = 1
  BY <1>3, <1>4, <1>6 DEF Files
<1> QED
  BY <1>2, <1>7 DEF NoFile, NewFile

\* A write adds one chunk to a file, and synchronises none.
LEMMA AppendToFile ==
  ASSUME NEW file \in Files, NEW c \in Chunks, file.synced <= Len(file.data)
  PROVE  LET now == [file EXCEPT !.data = Append(@, c)]
         IN  /\ now \in Files /\ now.data = Append(file.data, c)
             /\ now.there = file.there /\ now.synced = file.synced
             /\ now.synced <= Len(now.data)
<1>1. /\ file.data \in Seq(Chunks) /\ Append(file.data, c) \in Seq(Chunks)
      /\ Len(Append(file.data, c)) = Len(file.data) + 1 /\ file.synced \in Nat
  BY DEF Files
<1> QED
  BY <1>1 DEF Files

\* A file that was synchronised survives as it is; one that was not keeps a
\* beginning of its content.
LEMMA SurvivingFiles ==
  ASSUME NEW file \in Files, file.synced <= Len(file.data),
         NEW left \in Surviving(file)
  PROVE  /\ left \in Files /\ left.there = file.there
         /\ left.synced = Len(left.data)
         /\ file.synced = Len(file.data) => left = file
<1>1. PICK n \in file.synced .. Len(file.data) :
        left = [file EXCEPT !.data = SubSeq(@, 1, n), !.synced = n]
  BY DEF Surviving
<1>2. n \in Nat /\ SubSeq(file.data, 1, n) \in Seq(Chunks)
        /\ Len(SubSeq(file.data, 1, n)) = n
  BY DEF Files
<1>3. left.data = SubSeq(file.data, 1, n) /\ left.synced = n
        /\ left.there = file.there /\ left \in Files
  BY <1>1, <1>2 DEF Files
<1>4. ASSUME file.synced = Len(file.data)
      PROVE  left = file
  <2>1. n = Len(file.data) /\ SubSeq(file.data, 1, n) = file.data
    BY <1>4 DEF Files
  <2> QED
    BY <1>1, <1>4, <2>1 DEF Files
<1> QED
  BY <1>2, <1>3, <1>4

-----------------------------------------------------------------------------
(***************************************************************************)
(* The steps.                                                              *)
(***************************************************************************)

\* Every status is one of the four.
LEMMA Statuses == ASSUME NEW e PROVE ExitCode(e) \in 0 .. 3
BY DEF ExitCode, ExitSuccess, ExitDiffFound, ExitInvalidXDR, ExitError

\* Status 0 is that of no error.
LEMMA SuccessIsNoError == ASSUME NEW e PROVE ExitCode(e) = ExitSuccess <=> e = {}
<1>1. CASE e = {}
  BY <1>1 DEF ExitCode, ExitErrors, IsInvalidXDRError
<1>2. CASE e # {}
  BY <1>2 DEF ExitCode, ExitSuccess, ExitDiffFound, ExitInvalidXDR, ExitError
<1> QED
  BY <1>1, <1>2

\* A run starts with the invariant.
LEMMA RunStarts == Init => CommandInv
<1> SUFFICES ASSUME Init
             PROVE  CommandInv
  OBVIOUS
<1>1. Whole \in Seq(Chunks)
  BY ReportIsSequence DEF Init, Whole
<1>2. /\ temp = NoFile /\ target = Previous /\ stdout = << >> /\ todo = << >>
      /\ writer = "none" /\ handle = FALSE /\ tempPath = FALSE
      /\ sinkErr = FALSE /\ closing = "open" /\ closeErr = FALSE
      /\ err = {} /\ phase = "starting" /\ code = 0 /\ lost = FALSE
      /\ dest \in {"discard", "base", "file"}
  BY DEF Init, SinkInit, ExitSuccess
<1>3. temp.synced <= Len(temp.data) /\ target.synced = Len(target.data)
  BY <1>2, SomeFiles
<1>4. RunOK
  <2>1. temp \in Files /\ target \in Files
    BY <1>2, SomeFiles
  <2>2. stdout \in Seq(Chunks) /\ todo \in Seq(Chunks)
    BY <1>2
  <2>3. code \in 0 .. 3
    BY <1>2
  <2>4. /\ handle \in BOOLEAN /\ tempPath \in BOOLEAN /\ sinkErr \in BOOLEAN
        /\ closeErr \in BOOLEAN /\ lost \in BOOLEAN
        /\ (handle => tempPath /\ temp.there)
    BY <1>2
  <2> QED
    BY <1>1, <1>2, <1>3, <2>1, <2>2, <2>3, <2>4 DEF RunOK
<1>5. PhasesAgree /\ NothingMissing /\ Replacing /\ Replaced /\ TargetOldOrWhole
  BY <1>2 DEF PhasesAgree, NothingMissing, Replacing, ClosingSteps, Replaced,
     TargetOldOrWhole
<1>6. NothingReplaced
  BY <1>2, SomeFiles DEF NothingReplaced
<1> QED
  BY <1>4, <1>5, <1>6 DEF CommandInv

\* Outside of the sink nothing but the command's own progress changes.
LEMMA RunEStep == CommandInv /\ RunE => CommandInv'
<1> SUFFICES ASSUME CommandInv, RunE
             PROVE  CommandInv'
  OBVIOUS
<1> USE DEF CommandInv, RunE, sinkVars
<1>1. RunOK'
  BY DEF RunOK, Whole
<1>2. PhasesAgree'
  BY DEF PhasesAgree, Intended
<1>3. NothingReplaced'
  BY DEF NothingReplaced, Whole
<1>4. NothingMissing'
  <2>1. /\ Whole' = Whole /\ todo' = Whole /\ Whole \in Seq(Chunks)
        /\ writer' = "none" /\ stdout' = << >> /\ phase' = "writing"
        /\ closing = "open" /\ dest' = dest
    BY DEF Whole, PhasesAgree, RunOK
  <2>2. << >> \o Whole = Whole
    BY <2>1, NothingRemains
  <2>3. dest = "file" => Written' = << >>
    BY <2>1 DEF Written
  <2> QED
    BY <2>1, <2>2, <2>3 DEF NothingMissing
<1>5. Replacing' /\ Replaced'
  BY DEF PhasesAgree, Replacing, Replaced, ClosingSteps
<1>6. TargetOldOrWhole'
  BY DEF TargetOldOrWhole, Intended, Whole
<1> QED
  BY <1>1, <1>2, <1>3, <1>4, <1>5, <1>6

\* One chunk written, or failing to be.
LEMMA WriteStep == CommandInv /\ WriteChunk => CommandInv'
<1> SUFFICES ASSUME CommandInv, WriteChunk
             PROVE  CommandInv'
  OBVIOUS
<1> USE DEF CommandInv
<1> DEFINE c == Head(todo)
           file == IF Opens THEN NewFile ELSE temp
<1>1. /\ phase = "writing" /\ todo # << >> /\ todo' = Tail(todo) /\ ~sinkErr
      /\ UNCHANGED <<cmd, script, err, phase, code, lost>>
      /\ UNCHANGED <<dest, sinkErr, closing, closeErr, target>>
      /\ writer' = dest /\ closing = "open"
  BY DEF WriteChunk, WriteAccepted, PhasesAgree
<1>2. /\ todo \in Seq(Chunks) /\ temp \in Files /\ stdout \in Seq(Chunks)
      /\ Whole \in Seq(Chunks) /\ Whole' = Whole
  BY <1>1 DEF RunOK, Whole
<1>3. /\ c \in Chunks /\ todo' \in Seq(Chunks) /\ Len(todo') = Len(todo) - 1
  BY <1>1, <1>2, MoveOneChunk
<1>4. Whole # << >> /\ Len(todo') <= Len(Whole)
  BY <1>1, <1>2, <1>3 DEF NothingMissing
<1>5. CASE dest = "file"
  <2>1. /\ temp' = [file EXCEPT !.data = Append(@, c)] /\ stdout' = stdout
        /\ handle' = TRUE /\ tempPath' = TRUE
    BY <1>1, <1>5 DEF WriteChunk, WriteAccepted, NothingReplaced, Opens, RunOK
  <2>2. file \in Files /\ file.there /\ file.data = Written
    BY <1>1, <1>2, <1>5, SomeFiles DEF Opens, NothingReplaced, Written, RunOK
  <2>3. file.synced <= Len(file.data)
    BY <1>1, <1>5, SomeFiles DEF Opens, RunOK
  <2>4. /\ temp' \in Files /\ temp'.data = Append(file.data, c) /\ temp'.there
        /\ temp'.synced <= Len(temp'.data)
    BY <1>3, <2>1, <2>2, <2>3, AppendToFile
  <2>5. Written \in Seq(Chunks)
    BY <2>2 DEF Files
  <2>6. temp'.data \o todo' = Written \o todo
    <3>1. Append(Written, c) \o Tail(todo) = Written \o todo
      BY <1>1, <1>2, <2>5, MoveOneChunk
    <3> QED
      BY <1>1, <2>2, <2>4, <3>1
  <2>7. RunOK'
    BY <1>1, <1>2, <1>3, <1>5, <2>1, <2>4 DEF RunOK
  <2>8. PhasesAgree'
    BY <1>1 DEF PhasesAgree, Intended
  <2>9. NothingReplaced'
    BY <1>1, <1>2, <1>4, <1>5, <2>1, <2>4 DEF NothingReplaced
  <2>10. NothingMissing'
    <3>1. Written' = temp'.data
      BY <1>1, <1>5 DEF Written
    <3> QED
      BY <1>1, <1>2, <1>4, <1>5, <2>6, <3>1 DEF NothingMissing
  <2>11. Replacing' /\ Replaced' /\ TargetOldOrWhole'
    BY <1>1 DEF Replacing, Replaced, ClosingSteps, TargetOldOrWhole,
       NothingReplaced
  <2> QED
    BY <2>7, <2>8, <2>9, <2>10, <2>11
<1>6. CASE dest # "file"
  <2>1. /\ temp' = temp /\ handle' = handle /\ tempPath' = tempPath
        /\ stdout' = IF dest = "base" THEN Append(stdout, c) ELSE stdout
    BY <1>1, <1>6 DEF WriteChunk, WriteAccepted
  <2>2. stdout' \in Seq(Chunks)
    BY <1>2, <1>3, <2>1
  <2>3. dest = "base" => stdout' \o todo' = stdout \o todo
    BY <1>1, <1>2, <2>1, MoveOneChunk
  <2>4. RunOK'
    BY <1>1, <1>2, <1>3, <2>1, <2>2 DEF RunOK
  <2>5. PhasesAgree'
    BY <1>1 DEF PhasesAgree, Intended
  <2>6. NothingReplaced'
    BY <1>1, <1>2, <1>4, <1>6, <2>1 DEF NothingReplaced, RunOK
  <2>7. NothingMissing'
    BY <1>1, <1>2, <1>4, <1>6, <2>3 DEF NothingMissing
  <2>8. Replacing' /\ Replaced' /\ TargetOldOrWhole'
    BY <1>1 DEF Replacing, Replaced, ClosingSteps, TargetOldOrWhole,
       NothingReplaced
  <2> QED
    BY <2>4, <2>5, <2>6, <2>7, <2>8
<1> QED
  BY <1>5, <1>6

\* A write that fails leaves what was written as it was; what it misses is
\* remembered by the command or by nobody.
LEMMA WriteFailsStep == CommandInv /\ WriteChunkFails => CommandInv'
<1> SUFFICES ASSUME CommandInv, WriteChunkFails
             PROVE  CommandInv'
  OBVIOUS
<1> USE DEF CommandInv
<1>1. /\ phase = "writing" /\ todo # << >> /\ closing = "open"
      /\ UNCHANGED <<cmd, script, phase, code>>
      /\ UNCHANGED <<dest, closing, closeErr, target, stdout>>
  BY DEF WriteChunkFails, OpenFails, WriteFails, WriteRefused, sinkVars,
     PhasesAgree
<1>2. /\ todo' \in Seq(Chunks) /\ Len(todo') <= Len(Whole) /\ lost' \in BOOLEAN
      /\ err' # {} \/ (lost' = TRUE /\ err' = err)
  <2>1. CASE Head(todo).checked
    <3>1. todo' = << >> /\ err' = {"writing"} /\ lost' = lost
      BY <2>1 DEF WriteChunkFails
    <3> QED
      BY <3>1 DEF RunOK
  <2>2. CASE ~Head(todo).checked
    <3>1. todo' = Tail(todo) /\ err' = err /\ lost' = TRUE
      BY <2>2 DEF WriteChunkFails
    <3>2. todo \in Seq(Chunks) /\ Whole \in Seq(Chunks)
      BY DEF RunOK
    <3>3. Tail(todo) \in Seq(Chunks) /\ Len(Tail(todo)) = Len(todo) - 1
      BY <1>1, <3>2, MoveOneChunk
    <3> QED
      BY <1>1, <3>1, <3>2, <3>3 DEF NothingMissing
  <2> QED
    BY <2>1, <2>2
<1>3. Whole' = Whole /\ Whole # << >> /\ Intended' = Intended
  <2>1. Len(todo) <= Len(Whole) /\ todo \in Seq(Chunks) /\ Whole \in Seq(Chunks)
    BY <1>1 DEF RunOK, NothingMissing
  <2>2. Whole # << >>
    BY <1>1, <2>1
  <2> QED
    BY <1>1, <2>2 DEF Whole, Intended
<1>4. /\ temp' \in Files /\ temp'.synced <= Len(temp'.data)
      /\ handle' \in BOOLEAN /\ tempPath' \in BOOLEAN /\ sinkErr' \in BOOLEAN
      /\ writer' \in {"none", dest}
      /\ handle' = temp'.there /\ handle' = (writer' = "file")
      /\ tempPath' = handle' /\ (sinkErr' => writer' = "none")
  <2>1. /\ temp \in Files /\ temp.synced <= Len(temp.data)
        /\ handle \in BOOLEAN /\ tempPath \in BOOLEAN /\ sinkErr \in BOOLEAN
        /\ writer \in {"none", dest} /\ dest \in {"discard", "base", "file"}
        /\ handle = temp.there /\ handle = (writer = "file")
        /\ tempPath = handle /\ (sinkErr => writer = "none")
    BY <1>1 DEF RunOK, NothingReplaced
  <2>2. CASE OpenFails
    BY <2>1, <2>2 DEF OpenFails, Opens
  <2>3. CASE WriteRefused
    BY <2>1, <2>3 DEF WriteRefused, sinkVars
  <2>4. CASE WriteFails /\ writer = "none" /\ dest = "file"
    <3>1. /\ writer' = "file" /\ handle' = TRUE /\ tempPath' = TRUE
          /\ temp' = NewFile /\ sinkErr' = sinkErr /\ ~sinkErr
      BY <2>4 DEF WriteFails, Opens
    <3>2. temp'.synced <= Len(temp'.data)
      BY <3>1, SomeFiles
    <3> QED
      BY <2>1, <2>4, <3>1, <3>2, SomeFiles
  <2>5. CASE WriteFails /\ ~(writer = "none" /\ dest = "file")
    BY <2>1, <2>5 DEF WriteFails, Opens
  <2> QED
    BY <2>2, <2>3, <2>4, <2>5 DEF WriteChunkFails
<1>5. RunOK'
  BY <1>1, <1>2, <1>3, <1>4 DEF RunOK
<1>6. PhasesAgree'
  BY <1>1, <1>2, <1>3 DEF PhasesAgree
<1>7. NothingReplaced'
  BY <1>1, <1>3, <1>4 DEF NothingReplaced
<1>8. NothingMissing'
  BY <1>1, <1>2, <1>3 DEF NothingMissing
<1>9. Replacing' /\ Replaced' /\ TargetOldOrWhole'
  BY <1>1 DEF Replacing, Replaced, ClosingSteps, TargetOldOrWhole,
     NothingReplaced
<1> QED
  BY <1>5, <1>6, <1>7, <1>8, <1>9

\* Close starts replacing the target when the command has succeeded and there
\* is a file to do it with, and otherwise is done.
LEMMA ReturnStep == CommandInv /\ Return => CommandInv'
<1> SUFFICES ASSUME CommandInv, Return
             PROVE  CommandInv'
  OBVIOUS
<1> USE DEF CommandInv
<1>1. /\ phase = "writing" /\ todo = << >> /\ closing = "open"
      /\ phase' = "closing"
      /\ UNCHANGED <<cmd, script, todo, err, code, lost>>
      /\ UNCHANGED <<dest, writer, sinkErr, target, stdout>>
      /\ target = Previous /\ closeErr = FALSE
  BY DEF Return, StartClose, PhasesAgree, NothingReplaced, RunOK
<1>2. Whole' = Whole /\ Intended' = Intended /\ (err = {} => Intended = {})
  BY <1>1 DEF Whole, Intended, PhasesAgree
<1>3. Whole \in Seq(Chunks) /\ stdout \in Seq(Chunks) /\ temp \in Files
  BY DEF RunOK
<1>4. err = {} /\ ~lost /\ ~sinkErr =>
        /\ dest = "base" => stdout = Whole
        /\ dest = "file" => Written = Whole
  <2>1. Written \in Seq(Chunks)
    BY <1>3 DEF Written, Files
  <2> QED
    BY <1>1, <1>3, <2>1, NothingRemains DEF NothingMissing
<1>5. \/ /\ closing' = "closed" /\ handle' = FALSE
         /\ closeErr' \in BOOLEAN /\ tempPath' \in BOOLEAN /\ temp' \in {NoFile, temp}
         /\ closeErr' \/ err # {} \/ (~handle /\ ~sinkErr /\ temp' = temp)
      \/ /\ closing' = "sync" /\ handle /\ err = {} /\ ~sinkErr
         /\ UNCHANGED <<closeErr, handle, tempPath, temp>>
  BY <1>1 DEF Return, StartClose, Discard, RunOK
<1>6. CASE closing' = "closed"
  <2>1. temp' \in Files /\ temp'.synced <= Len(temp'.data)
    BY <1>3, <1>5, <1>6, SomeFiles DEF RunOK
  <2>2. RunOK'
    BY <1>1, <1>2, <1>5, <1>6, <2>1 DEF RunOK
  <2>3. PhasesAgree'
    BY <1>1, <1>2, <1>6 DEF PhasesAgree
  <2>4. NothingReplaced' /\ Replacing'
    BY <1>6 DEF NothingReplaced, Replacing, ClosingSteps
  <2>5. NothingMissing'
    BY <1>1, <1>2, <1>6 DEF NothingMissing
  <2>6. ASSUME err = {}, ~closeErr'
        PROVE  ~temp'.there /\ (~lost => Delivered')
    <3>1. ~handle /\ ~sinkErr /\ temp' = temp
      BY <1>5, <1>6, <2>6
    <3>2. ~temp.there /\ writer # "file"
      BY <1>1, <3>1 DEF NothingReplaced
    <3>3. dest = "file" => Written = << >>
      BY <3>2 DEF Written, RunOK
    <3>4. ~lost /\ dest = "file" => Whole = << >>
      BY <1>4, <2>6, <3>1, <3>3
    <3> QED
      BY <1>1, <1>2, <1>4, <2>6, <3>1, <3>2, <3>4 DEF Delivered
  <2>7. Replaced'
    BY <1>1, <1>5, <1>6, <2>6 DEF Replaced
  <2>8. TargetOldOrWhole'
    BY <1>1 DEF TargetOldOrWhole
  <2> QED
    BY <2>2, <2>3, <2>4, <2>5, <2>7, <2>8
<1>7. CASE closing' = "sync"
  <2>1. /\ handle /\ err = {} /\ ~sinkErr
        /\ UNCHANGED <<closeErr, handle, tempPath, temp>>
    BY <1>5, <1>7
  <2>2. writer = "file" /\ dest = "file" /\ temp.there /\ tempPath /\ Whole # << >>
    BY <1>1, <2>1 DEF NothingReplaced, RunOK
  <2>3. ~lost => temp.data = Whole
    BY <1>4, <2>1, <2>2 DEF Written
  <2>4. RunOK'
    BY <1>1, <1>2, <2>1 DEF RunOK
  <2>5. PhasesAgree' /\ NothingReplaced' /\ Replaced'
    BY <1>1, <1>2, <1>7 DEF PhasesAgree, NothingReplaced, Replaced, ClosingSteps
  <2>6. NothingMissing'
    BY <1>1, <1>2, <1>7 DEF NothingMissing
  <2>7. Replacing'
    BY <1>1, <1>2, <1>7, <2>1, <2>2, <2>3 DEF Replacing
  <2>8. TargetOldOrWhole'
    BY <1>1 DEF TargetOldOrWhole
  <2> QED
    BY <2>4, <2>5, <2>6, <2>7, <2>8
<1> QED
  BY <1>5, <1>6, <1>7

\* Each step of Close, and the failure of any of them.
LEMMA ClosingStep == CommandInv /\ Closing => CommandInv'
<1> SUFFICES ASSUME CommandInv, Closing
             PROVE  CommandInv'
  OBVIOUS
<1> USE DEF CommandInv
<1>1. /\ phase = "closing" /\ closing \in ClosingSteps
      /\ UNCHANGED commandVars /\ UNCHANGED <<dest, writer, sinkErr, stdout>>
  BY DEF Closing, CloseStep, CloseStepFails, SyncFile, Sync, CloseHandle, Chmod,
     Rename, ClosingSteps
<1>2. /\ UNCHANGED <<cmd, script, todo, err, phase, code, lost>>
      /\ Whole' = Whole /\ Intended' = Intended
  BY <1>1 DEF commandVars, Whole, Intended
<1>3. /\ dest = "file" /\ err = {} /\ closeErr = FALSE /\ target = Previous
      /\ Whole # << >> /\ tempPath = TRUE /\ temp.there = TRUE
      /\ ~lost => temp.data = Whole
      /\ handle = IF closing \in {"sync", "close"} THEN TRUE ELSE FALSE
      /\ closing # "sync" => temp.synced = Len(temp.data)
      /\ Intended = {} /\ temp \in Files
  BY <1>1 DEF Replacing, RunOK, PhasesAgree, Files
<1>4. closing' \in ClosingSteps \cup {"closed"} => PhasesAgree'
  BY <1>1, <1>2 DEF PhasesAgree, ClosingSteps
<1>5. closing' # "open" => NothingReplaced' /\ NothingMissing'
  BY <1>1, <1>2 DEF NothingReplaced, NothingMissing
<1>6. CASE CloseStepFails
  <2>1. /\ closing' = "closed" /\ handle' = FALSE /\ tempPath' = FALSE
        /\ closeErr' = TRUE /\ temp' \in {NoFile, temp} /\ target' = target
    BY <1>6 DEF CloseStepFails, Discard
  <2>2. temp' \in Files /\ temp'.synced <= Len(temp'.data)
    BY <1>3, <2>1, SomeFiles DEF RunOK
  <2>3. RunOK'
    BY <1>1, <1>2, <2>1, <2>2 DEF RunOK
  <2>4. Replacing' /\ Replaced' /\ TargetOldOrWhole'
    BY <1>2, <1>3, <2>1 DEF Replacing, Replaced, ClosingSteps, TargetOldOrWhole
  <2> QED
    BY <1>4, <1>5, <2>1, <2>3, <2>4
<1>7. CASE SyncFile
  <2>1. /\ closing = "sync" /\ closing' = "close"
        /\ temp' = [temp EXCEPT !.synced = Len(temp.data)]
        /\ UNCHANGED <<handle, tempPath, closeErr, target>>
    BY <1>7 DEF SyncFile, Sync
  <2>2. /\ temp' \in Files /\ temp'.data = temp.data /\ temp'.there = temp.there
        /\ temp'.synced = Len(temp'.data)
    BY <1>3, <2>1 DEF Files
  <2>3. temp'.synced <= Len(temp'.data)
    BY <2>2 DEF Files
  <2>4. RunOK'
    BY <1>1, <1>2, <2>1, <2>2, <2>3 DEF RunOK
  <2>5. Replacing' /\ Replaced' /\ TargetOldOrWhole'
    BY <1>1, <1>2, <1>3, <2>1, <2>2
       DEF Replacing, Replaced, ClosingSteps, TargetOldOrWhole
  <2> QED
    BY <1>4, <1>5, <2>1, <2>4, <2>5 DEF ClosingSteps
<1>8. CASE CloseHandle \/ Chmod
  <2>1. /\ \/ closing = "close" /\ closing' = "chmod"
           \/ closing = "chmod" /\ closing' = "rename"
        /\ handle' = FALSE
        /\ UNCHANGED <<tempPath, closeErr, temp, target>>
    BY <1>3, <1>8 DEF CloseHandle, Chmod
  <2>2. RunOK'
    BY <1>1, <1>2, <2>1 DEF RunOK
  <2>3. Replacing' /\ Replaced' /\ TargetOldOrWhole'
    BY <1>1, <1>2, <1>3, <2>1
       DEF Replacing, Replaced, ClosingSteps, TargetOldOrWhole
  <2> QED
    BY <1>4, <1>5, <2>1, <2>2, <2>3 DEF ClosingSteps
<1>9. CASE Rename
  <2>1. /\ closing = "rename" /\ closing' = "closed" /\ target' = temp
        /\ temp' = NoFile /\ tempPath' = FALSE /\ UNCHANGED <<handle, closeErr>>
    BY <1>9 DEF Rename
  <2>2. temp'.synced <= Len(temp'.data) /\ handle = FALSE
    <3>1. handle = FALSE
      BY <1>3, <2>1
    <3> QED
      BY <2>1, <3>1, SomeFiles
  <2>3. RunOK'
    BY <1>1, <1>2, <1>3, <2>1, <2>2, SomeFiles DEF RunOK
  <2>4. Replaced'
    <3>1. ~lost => Delivered'
      BY <1>1, <1>2, <1>3, <2>1 DEF Delivered
    <3> QED
      BY <1>2, <1>3, <2>1, <2>2, <3>1, SomeFiles DEF Replaced
  <2>5. Replacing' /\ TargetOldOrWhole'
    BY <1>2, <1>3, <2>1 DEF Replacing, ClosingSteps, TargetOldOrWhole
  <2> QED
    BY <1>4, <1>5, <2>1, <2>3, <2>4, <2>5
<1> QED
  BY <1>6, <1>7, <1>8, <1>9 DEF Closing, CloseStep

\* Exiting decides the status, and touches no file.
LEMMA ExitStep == CommandInv /\ Exit => CommandInv'
<1> SUFFICES ASSUME CommandInv, Exit
             PROVE  CommandInv'
  OBVIOUS
<1> USE DEF CommandInv
<1>1. /\ phase = "closing" /\ closing = "closed" /\ phase' = "exited"
      /\ code' = ExitCode(Outcome) /\ UNCHANGED <<cmd, script, todo, err, lost>>
      /\ UNCHANGED <<dest, writer, handle, tempPath, sinkErr, closing, closeErr,
                     temp, target, stdout>>
  BY DEF Exit, sinkVars
<1>2. Outcome' = Outcome /\ Whole' = Whole /\ Intended' = Intended
  BY <1>1 DEF Outcome, Whole, Intended
<1>3. code' \in 0 .. 3
  BY <1>1, Statuses
<1>4. RunOK'
  BY <1>1, <1>2, <1>3 DEF RunOK
<1>5. PhasesAgree'
  BY <1>1, <1>2 DEF PhasesAgree
<1>6. NothingReplaced' /\ NothingMissing' /\ Replacing'
  BY <1>1, <1>2 DEF NothingReplaced, NothingMissing, Replacing, ClosingSteps
<1>7. Replaced'
  <2>1. Delivered' = Delivered
    BY <1>1, <1>2 DEF Delivered
  <2> QED
    BY <1>1, <2>1 DEF Replaced
<1>8. TargetOldOrWhole'
  BY <1>1, <1>2 DEF TargetOldOrWhole
<1> QED
  BY <1>4, <1>5, <1>6, <1>7, <1>8

\* A crash keeps a prefix of the temporary file, and of the target the old or
\* the new one: what was renamed had been synchronised.
LEMMA CrashStep == CommandInv /\ Crash => CommandInv'
<1> SUFFICES ASSUME CommandInv, Crash
             PROVE  CommandInv'
  OBVIOUS
<1> USE DEF CommandInv
<1>1. /\ phase' = "crashed" /\ closing' = "crashed"
      /\ temp' \in Surviving(temp) /\ target' \in Surviving(target) \cup {Previous}
      /\ UNCHANGED <<cmd, script, todo, err, code, lost>>
      /\ UNCHANGED <<dest, writer, handle, tempPath, sinkErr, closeErr, stdout>>
  BY DEF Crash, SinkCrash
<1>2. Whole' = Whole /\ Intended' = Intended
  BY <1>1 DEF Whole, Intended
<1>3. /\ temp' \in Files /\ temp'.there = temp.there
      /\ temp'.synced <= Len(temp'.data)
  <2>1. temp \in Files /\ temp.synced <= Len(temp.data)
    BY DEF RunOK
  <2>2. /\ temp' \in Files /\ temp'.there = temp.there
        /\ temp'.synced = Len(temp'.data)
    BY <1>1, <2>1, SurvivingFiles
  <2> QED
    BY <2>2 DEF Files
<1>4. target' \in {target, Previous}
  <2>1. target \in Files /\ target.synced = Len(target.data)
    BY DEF RunOK
  <2>2. target.synced <= Len(target.data)
    BY <2>1 DEF Files
  <2> QED
    BY <1>1, <2>1, <2>2, SurvivingFiles
<1>5. target' \in Files /\ target'.synced = Len(target'.data)
  BY <1>4, SomeFiles DEF RunOK
<1>6. RunOK'
  BY <1>1, <1>2, <1>3, <1>5 DEF RunOK
<1>7. PhasesAgree' /\ NothingReplaced' /\ NothingMissing' /\ Replacing' /\ Replaced'
  BY <1>1 DEF PhasesAgree, NothingReplaced, NothingMissing, Replacing, Replaced,
     ClosingSteps
<1>8. TargetOldOrWhole'
  BY <1>1, <1>2, <1>4 DEF TargetOldOrWhole
<1> QED
  BY <1>6, <1>7, <1>8

\* Every step of a run keeps the invariant.
LEMMA RunStep == CommandInv /\ [Next]_vars => CommandInv'
<1> SUFFICES ASSUME CommandInv, [Next]_vars
             PROVE  CommandInv'
  OBVIOUS
<1>1. CASE UNCHANGED vars
  BY <1>1 DEF vars, sinkVars, CommandInv, RunOK, PhasesAgree, NothingReplaced,
     NothingMissing, Replacing, Replaced, TargetOldOrWhole, Whole, Intended,
     Written, Delivered, Outcome
<1>2. CASE Next
  BY <1>1, <1>2, RunEStep, WriteStep, WriteFailsStep, ReturnStep, ClosingStep,
     ExitStep, CrashStep DEF Next, Stopped
<1> QED
  BY <1>1, <1>2

\* Every reachable state of a run satisfies the invariant.
LEMMA RunInvariant == Spec => []CommandInv
BY RunStarts, RunStep, PTL DEF Spec

-----------------------------------------------------------------------------
(***************************************************************************)
(* What holds of every run.                                                *)
(***************************************************************************)

\* output.go 80-82: the file that --output names holds what it held before or
\* the whole report of a command that succeeded, at every moment, whatever
\* fails and wherever the run is cut off.  (A write whose error the code does
\* not look at is the one exception.)
THEOREM FileIsOldOrWhole == Spec => []TargetOldOrWhole
BY RunInvariant, PTL DEF CommandInv

\* root.go 42-47 and output.go 80-150: status 0 means that the report has
\* reached its destination and no temporary file is left, any other status
\* that the named file is untouched.
THEOREM StatusIsHonest == Spec => []StatusTellsDelivery
<1>1. CommandInv => StatusTellsDelivery
  <2> SUFFICES ASSUME CommandInv
               PROVE  StatusTellsDelivery
    OBVIOUS
  <2>1. CommandTypeOK
    <3>1. target.synced <= Len(target.data)
      BY DEF CommandInv, RunOK, Files
    <3> QED
      BY <3>1 DEF CommandInv, RunOK, CommandTypeOK
  <2>2. ASSUME Exited
        PROVE  closing = "closed" /\ (code = ExitSuccess <=> Outcome = {})
    BY <2>2, SuccessIsNoError DEF CommandInv, PhasesAgree, Exited
  <2>3. Outcome = {} <=> err = {} /\ ~closeErr
    BY DEF Outcome
  <2>4. ZeroMeansDelivered
    <3> SUFFICES ASSUME Exited, code = ExitSuccess
                 PROVE  /\ Intended = {} /\ ~temp.there /\ (~lost => Delivered)
      BY DEF ZeroMeansDelivered, Delivered
    <3> QED
      BY <2>2, <2>3 DEF CommandInv, PhasesAgree, Replaced, Exited
  <2>5. FailureKeepsTarget
    BY <2>2, <2>3 DEF CommandInv, Replaced, FailureKeepsTarget
  <2> QED
    BY <2>1, <2>4, <2>5 DEF StatusTellsDelivery
<1> QED
  BY <1>1, RunInvariant, PTL

-----------------------------------------------------------------------------
(***************************************************************************)
(* What an error says of the text that was read.                           *)
(***************************************************************************)

\* A set of naturals that has an element has a least one.
LEMMA LeastExists ==
  ASSUME NEW S \in SUBSET Nat, S # {}
  PROVE  \E x \in S : \A y \in S : x <= y
<1>1. PICK x \in S : \A y \in S : ~(<<y, x>> \in OpToRel(<, Nat))
  BY NatLessThanWellFounded, WFMin
<1>2. \A y \in S : ~(y < x)
  BY <1>1 DEF OpToRel
<1> QED
  BY <1>2

\* The minimum of a set of naturals is one of them, and no other is less.
LEMMA MinIsMember ==
  ASSUME NEW S \in SUBSET Nat, S # {}
  PROVE  Min(S) \in S /\ \A y \in S : Min(S) <= y
BY LeastExists DEF Min

\* The first error of a list is one of it, and none when all are none.
LEMMA FirstErrorIsOne ==
  ASSUME NEW errs, NEW n \in Nat, Len(errs) = n
  PROVE  \/ \E i \in 1 .. n : FirstError(errs) = errs[i] /\ errs[i] # {}
         \/ FirstError(errs) = {} /\ \A i \in 1 .. n : errs[i] = {}
<1> DEFINE I == {i \in 1 .. Len(errs) : errs[i] # {}}
<1>1. SelectInSeq(errs, LAMBDA e : e # {}) = IF I # {} THEN Min(I) ELSE 0
  BY DEF SelectInSeq
<1>2. CASE I = {}
  BY <1>1, <1>2 DEF FirstError
<1>3. CASE I # {}
  <2>1. Min(I) \in I
    <3>1. I \in SUBSET Nat
      OBVIOUS
    <3> HIDE DEF I
    <3> QED
      BY <1>3, <3>1, MinIsMember
  <2>2. FirstError(errs) = errs[Min(I)]
    BY <1>1, <1>3, <2>1 DEF FirstError
  <2> QED
    BY <2>1, <2>2
<1> QED
  BY <1>2, <1>3

\* The first of a list comes before all others.
LEMMA FirstComesFirst ==
  ASSUME NEW errs, Len(errs) \in Nat \ {0}, errs[1] # {}
  PROVE  FirstError(errs) = errs[1]
<1> DEFINE I == {i \in 1 .. Len(errs) : errs[i] # {}}
<1>1. SelectInSeq(errs, LAMBDA e : e # {}) = IF I # {} THEN Min(I) ELSE 0
  BY DEF SelectInSeq
<1>2. 1 \in I /\ I \in SUBSET Nat /\ \A i \in I : i >= 1
  OBVIOUS
<1> HIDE DEF I
<1>3. Min(I) \in I /\ Min(I) <= 1
  BY <1>2, MinIsMember
<1>4. Min(I) = 1 /\ SelectInSeq(errs, LAMBDA e : e # {}) = 1
  BY <1>1, <1>2, <1>3
<1> QED
  BY <1>4 DEF FirstError

LEMMA FirstOfTwo ==
  ASSUME NEW a, NEW b
  PROVE  FirstError(<<a, b>>) \in {a, b} /\ (FirstError(<<a, b>>) = {} => a = {} /\ b = {})
<1> DEFINE errs == <<a, b>>
<1>1. Len(errs) = 2 /\ errs[1] = a /\ errs[2] = b /\ 2 \in Nat /\ 1 .. 2 = {1, 2}
  OBVIOUS
<1> HIDE DEF errs
<1>2. \/ \E i \in 1 .. 2 : FirstError(errs) = errs[i] /\ errs[i] # {}
      \/ FirstError(errs) = {} /\ \A i \in 1 .. 2 : errs[i] = {}
  BY <1>1, FirstErrorIsOne
<1>3. FirstError(errs) \in {a, b} /\ (FirstError(errs) = {} => a = {} /\ b = {})
  BY <1>1, <1>2
<1> QED
  BY <1>3 DEF errs

LEMMA FirstOfThree ==
  ASSUME NEW a, NEW b, NEW c
  PROVE  /\ FirstError(<<a, b, c>>) \in {a, b, c}
         /\ a # {} => FirstError(<<a, b, c>>) = a
         /\ FirstError(<<a, b, c>>) = {} => a = {} /\ b = {} /\ c = {}
<1> DEFINE errs == <<a, b, c>>
<1>1. Len(errs) = 3 /\ errs[1] = a /\ errs[2] = b /\ errs[3] = c /\ 1 .. 3 = {1, 2, 3}
  OBVIOUS
<1> HIDE DEF errs
<1>2. \/ \E i \in 1 .. 3 : FirstError(errs) = errs[i] /\ errs[i] # {}
      \/ FirstError(errs) = {} /\ \A i \in 1 .. 3 : errs[i] = {}
  BY <1>1, FirstErrorIsOne
<1>3. /\ FirstError(errs) \in {a, b, c}
      /\ FirstError(errs) = {} => a = {} /\ b = {} /\ c = {}
  BY <1>1, <1>2
<1>4. a # {} => FirstError(errs) = a
  BY <1>1, FirstComesFirst
<1> QED
  BY <1>3, <1>4 DEF errs

LEMMA FirstOfFive ==
  ASSUME NEW a, NEW b, NEW c, NEW d, NEW e
  PROVE  /\ FirstError(<<a, b, c, d, e>>) \in {a, b, c, d, e}
         /\ FirstError(<<a, b, c, d, e>>) = {} =>
              a = {} /\ b = {} /\ c = {} /\ d = {} /\ e = {}
<1> DEFINE errs == <<a, b, c, d, e>>
<1>1. /\ Len(errs) = 5 /\ 1 .. 5 = {1, 2, 3, 4, 5}
      /\ errs[1] = a /\ errs[2] = b /\ errs[3] = c /\ errs[4] = d /\ errs[5] = e
  OBVIOUS
<1> HIDE DEF errs
<1>2. \/ \E i \in 1 .. 5 : FirstError(errs) = errs[i] /\ errs[i] # {}
      \/ FirstError(errs) = {} /\ \A i \in 1 .. 5 : errs[i] = {}
  BY <1>1, FirstErrorIsOne
<1>3. /\ FirstError(errs) \in {a, b, c, d, e}
      /\ FirstError(errs) = {} => a = {} /\ b = {} /\ c = {} /\ d = {} /\ e = {}
  BY <1>1, <1>2
<1> QED
  BY <1>3 DEF errs

\* A text whose types are known: what the readings of a text are.
KnownTypes(t) == DOMAIN t.trees \subseteq TypeNames
Decodes(t, type) == IsBase64(t) /\ ReadableAs(t.trees, type)
NoExit(e) == e \cap ExitErrors = {}

\* Decoding fails as unreadable only on a text that does not decode.
LEMMA DecodeAsFails ==
  ASSUME NEW t, NEW type, type # ""
  PROVE  LET e == DecodeAsError(t, type)
         IN  /\ NoExit(e) /\ (e = {} => t.form # "empty")
             /\ IsInvalidXDRError(e) => t.form # "empty" /\ ~Decodes(t, type)
BY DEF DecodeAsError, NoExit, ExitErrors, IsInvalidXDRError, InvalidXDRErrors, Decodes, ReadableAs, IsBase64

LEMMA DetectFails ==
  ASSUME NEW t, KnownTypes(t)
  PROVE  LET e == DetectError(t)
         IN  /\ NoExit(e) /\ (e = {} => t.form # "empty")
             /\ IsInvalidXDRError(e) => t.form # "empty" /\ \A type : ~Decodes(t, type)
<1>1. Matching(t) = {} => DOMAIN t.trees = {}
  BY DEF Matching, KnownTypes, TypeNames
<1>2. DOMAIN t.trees = {} => \A type : ~Decodes(t, type)
  BY DEF Decodes, ReadableAs
<1>3. ~IsBase64(t) => \A type : ~Decodes(t, type)
  BY DEF Decodes
<1> QED
  BY <1>1, <1>2, <1>3 DEF DetectError, TextError, NoExit, ExitErrors, IsInvalidXDRError, InvalidXDRErrors, IsBase64

LEMMA DecodeFails ==
  ASSUME NEW t, NEW type, KnownTypes(t)
  PROVE  LET e == DecodeError(t, type)
         IN  /\ NoExit(e) /\ (e = {} => t.form # "empty")
             /\ IsInvalidXDRError(e) => t.form # "empty" /\ ~Decodes(t, type)
<1>1. CASE type = ""
  BY <1>1, DetectFails DEF DecodeError
<1>2. CASE type # ""
  BY <1>2, DecodeAsFails DEF DecodeError
<1> QED
  BY <1>1, <1>2

\* A text that a command blames for status 3: it is there, and it cannot be read
\* as asked or can be read in two ways.
Blamed(t) == t.form # "empty" /\ (~Readable(t, cmd.type) \/ t.form = "both")

\* Without --hex only the base64 reading counts, and --canonical asks for more.
LEMMA ReadableDecodes ==
  ASSUME NEW t, Readable(t, cmd.type),
         cmd.name = "decode" /\ (cmd.hex \/ t.zeroX) => ~IsHexString(t)
  PROVE  Decodes(t, cmd.type) /\ (cmd.canonical => t.canonical /\ t.len % 4 = 0)
BY DEF Readable, Decodes

\* The text of the bytes that hexadecimal digits stand for.
LEMMA HexReading ==
  ASSUME NEW t, IsText(t)
  PROVE  LET b == HexToBase64(t)
         IN  /\ b.form = "base64" /\ b.trees = t.hexTrees /\ KnownTypes(b)
             /\ b.len = t.len /\ b.canonical = t.canonical
BY DEF IsText, TextFields, HexToBase64, KnownTypes

\* What --hex or a 0x prefix makes of a text: its hexadecimal reading, if it has
\* one, and otherwise the text itself.
LEMMA ConvertedText ==
  ASSUME NEW given, IsText(given)
  PROVE  LET t == Converted(cmd, given)
         IN  /\ KnownTypes(t) /\ t.len = given.len /\ t.canonical = given.canonical
             /\ \/ t = given /\ ~((cmd.hex \/ given.zeroX) /\ IsHexString(given))
                \/ /\ IsHexString(given) /\ t.form = "base64" /\ t.trees = given.hexTrees
                   /\ cmd.hex \/ given.zeroX
<1> DEFINE t == Converted(cmd, given)
<1>1. HexError(given) = {} <=> IsHexString(given)
  BY DEF HexError, IsHexString
<1>2. CASE (cmd.hex \/ given.zeroX) /\ IsHexString(given)
  <2>1. t = HexToBase64(given)
    BY <1>1, <1>2 DEF Converted, WantsHex
  <2> HIDE DEF t
  <2>2. /\ t.form = "base64" /\ t.trees = given.hexTrees /\ KnownTypes(t)
        /\ t.len = given.len /\ t.canonical = given.canonical
    BY <2>1, HexReading
  <2>3. QED
    BY <1>2, <2>2 DEF t
<1>3. CASE ~((cmd.hex \/ given.zeroX) /\ IsHexString(given))
  <2>1. t = given
    BY <1>1, <1>3 DEF Converted, WantsHex
  <2> QED
    BY <1>3, <2>1 DEF IsText, KnownTypes
<1> QED
  BY <1>2, <1>3

\* When the converted text does not decode, the text that was given is blamed.
LEMMA ConvertedIsBlamed ==
  ASSUME NEW given, IsText(given), cmd.name = "decode",
         LET t == Converted(cmd, given)
         IN  /\ t.form # "empty"
             /\ ~Decodes(t, cmd.type) \/ (cmd.canonical /\ ~(t.canonical /\ t.len % 4 = 0))
  PROVE  Blamed(given)
<1> DEFINE t == Converted(cmd, given)
<1>1. /\ t.len = given.len /\ t.canonical = given.canonical
      /\ \/ t = given /\ ~((cmd.hex \/ given.zeroX) /\ IsHexString(given))
         \/ /\ IsHexString(given) /\ t.form = "base64" /\ t.trees = given.hexTrees
            /\ cmd.hex \/ given.zeroX
  BY ConvertedText
<1>2. t.form # "empty" /\ (~Decodes(t, cmd.type) \/ (cmd.canonical /\ ~(t.canonical /\ t.len % 4 = 0)))
  OBVIOUS
<1> HIDE DEF t
<1>3. given.form # "empty"
  BY <1>1, <1>2 DEF IsHexString
<1>4. CASE cmd.canonical /\ ~(t.canonical /\ t.len % 4 = 0)
  BY <1>1, <1>3, <1>4 DEF Blamed, Readable
<1>5. CASE ~Decodes(t, cmd.type) /\ t = given /\ ~((cmd.hex \/ given.zeroX) /\ IsHexString(given))
  BY <1>3, <1>5 DEF Blamed, Readable, Decodes
<1>6. CASE ~Decodes(t, cmd.type) /\ IsHexString(given) /\ t.form = "base64" /\ t.trees = given.hexTrees
  <2>1. ~ReadableAs(given.hexTrees, cmd.type)
    BY <1>6 DEF Decodes, IsBase64
  <2> QED
    BY <1>3, <1>6, <2>1 DEF Blamed, Readable, IsHexString, IsBase64
<1> QED
  BY <1>1, <1>2, <1>4, <1>5, <1>6

\* --canonical fails on bytes that are not the encoding of what they decode as.
LEMMA CanonicalFails ==
  ASSUME NEW t, NEW type
  PROVE  LET e == CanonicalError(t, type)
         IN  /\ NoExit(e)
             /\ IsInvalidXDRError(e) =>
                  \/ ~(t.canonical /\ t.len % 4 = 0)
                  \/ type # "" /\ t.form # "empty" /\ ~Decodes(t, type)
<1>1. NoExit({"ErrNonCanonical"}) /\ NoExit({}) /\ ~IsInvalidXDRError({})
  BY DEF NoExit, ExitErrors, IsInvalidXDRError
<1>2. CASE type = ""
  BY <1>1, <1>2 DEF CanonicalError, ValidateCanonicalXDR, CheckCanonicalEncoding
<1>3. CASE type # ""
  BY <1>1, <1>3, DecodeAsFails DEF CanonicalError, ValidateTypeCanonicalXDR, CheckCanonicalEncoding
<1> QED
  BY <1>2, <1>3

\* One payload: its error is invalid XDR only if the text that was given is to
\* blame.
LEMMA RenderFails ==
  ASSUME NEW given, IsText(given), cmd.name = "decode"
  PROVE  LET e == Render(cmd, given).err
         IN  NoExit(e) /\ (IsInvalidXDRError(e) => Blamed(given))
<1> DEFINE t     == Converted(cmd, given)
           type  == DecodedType(t, cmd.type)
           early == FirstError(<<ConvertError(cmd, given), CheckCanonical(cmd, t)>>)
           late  == FirstError(<<SelectError(cmd), FormatError(cmd, type)>>)
           e     == Render(cmd, given).err
           Good(x) == NoExit(x) /\ (IsInvalidXDRError(x) => Blamed(given))
<1>1. KnownTypes(t)
  BY ConvertedText
<1>2. ASSUME t.form # "empty", ~Decodes(t, cmd.type) \/ (cmd.canonical /\ ~(t.canonical /\ t.len % 4 = 0))
      PROVE  Blamed(given)
  BY <1>2, ConvertedIsBlamed
<1>3. e = IF early # {} THEN early
          ELSE IF cmd.candidates THEN RunCandidates(t).err
          ELSE IF cmd.wasm THEN RunWASM(t).err
          ELSE IF DecodeError(t, cmd.type) # {} THEN DecodeError(t, cmd.type)
          ELSE late
  BY DEF Render, Fails, Script
<1>4. Good(ConvertError(cmd, given))
  BY DEF ConvertError, HexError, NoExit, ExitErrors, IsInvalidXDRError, InvalidXDRErrors
<1>5. Good(SelectError(cmd)) /\ Good(FormatError(cmd, type))
  <2> HIDE DEF type
  <2> QED
    BY DEF SelectError, FormatError, NoExit, ExitErrors, IsInvalidXDRError, InvalidXDRErrors
<1> HIDE DEF t, type
<1>6. Good(CheckCanonical(cmd, t))
  <2>1. CASE ~cmd.canonical \/ t.form = "empty" \/ ~IsBase64(t)
    BY <2>1 DEF CheckCanonical, NoExit, ExitErrors, IsInvalidXDRError, InvalidXDRErrors
  <2>2. CASE cmd.canonical /\ t.form # "empty" /\ IsBase64(t)
    <3>1. CheckCanonical(cmd, t) = CanonicalError(t, cmd.type)
      BY <2>2 DEF CheckCanonical
    <3> QED
      BY <1>2, <2>2, <3>1, CanonicalFails
  <2> QED
    BY <2>1, <2>2
<1>7. Good(DecodeError(t, cmd.type))
  BY <1>1, <1>2, DecodeFails
<1>8. Good(RunCandidates(t).err)
  <2>1. RunCandidates(t).err = DetectError(t)
    BY DEF RunCandidates, Fails, Script
  <2> QED
    BY <1>1, <1>2, <2>1, DetectFails
<1>9. Good(RunWASM(t).err)
  BY DEF RunWASM, Fails, Script, NoExit, ExitErrors, IsInvalidXDRError, InvalidXDRErrors
<1>10. Good(early)
  BY <1>4, <1>6, FirstOfTwo
<1>11. Good(late)
  BY <1>5, FirstOfTwo
<1> HIDE DEF early, late, Good
<1>12. Good(e)
  BY <1>3, <1>7, <1>8, <1>9, <1>10, <1>11
<1> QED
  BY <1>12 DEF Good

\* Where a source of a command is one that the assumption speaks of.
LEMMA SourcesAreRead ==
  ASSUME cmd \in Commands
  PROVE  CommandsRead(cmd)
BY CommandsAssumption

\* Which text resolveInput chooses: one that the command was given.
LEMMA InputIsGiven ==
  ASSUME cmd \in Commands
  PROVE  LET input == ResolveInput(cmd)
         IN  /\ NoExit(input.err) /\ ~IsInvalidXDRError(input.err)
             /\ input.text = SourceRead.text /\ IsText(input.text)
             /\ input.err = {} => SourceRead.kind = "text" /\ input.text \in Texts
<1> DEFINE input == ResolveInput(cmd)
<1>1. /\ IsSource(cmd.file) /\ IsSource(cmd.arg) /\ IsSource(cmd.stdin)
      /\ cmd.stdin.kind # "absent"
  BY SourcesAreRead DEF CommandsRead
<1>2. /\ SourceRead \in {cmd.file, cmd.arg, cmd.stdin} /\ IsSource(SourceRead)
      /\ SourceRead.kind # "absent"
  BY <1>1 DEF SourceRead
<1>3. /\ input.text = SourceRead.text
      /\ input.err \in {{}, {"reading"}, {"file is empty"}, {"errNoInput"}}
      /\ input.err = {} => SourceRead.kind # "unreadable"
  <2> DEFINE From(source, whenEmpty) ==
        IF source.kind = "unreadable" THEN [err |-> {"reading"}, text |-> source.text]
        ELSE IF source.text.form = "empty" THEN [err |-> whenEmpty, text |-> source.text]
        ELSE [err |-> {}, text |-> source.text]
  <2>1. input = IF cmd.file.kind # "absent" THEN From(cmd.file, {"file is empty"})
                ELSE IF cmd.arg.kind # "absent" THEN From(cmd.arg, {})
                ELSE From(cmd.stdin, {"errNoInput"})
    BY DEF ResolveInput
  <2>2. ASSUME NEW source, NEW whenEmpty
        PROVE  LET r == From(source, whenEmpty)
               IN  /\ r.text = source.text /\ r.err \in {{}, {"reading"}, whenEmpty}
                   /\ r.err = {} => source.kind # "unreadable"
    OBVIOUS
  <2> HIDE DEF input, From
  <2>3. \E whenEmpty \in {{}, {"file is empty"}, {"errNoInput"}} : input = From(SourceRead, whenEmpty)
    <3>1. CASE cmd.file.kind # "absent"
      <4>1. SourceRead = cmd.file /\ input = From(cmd.file, {"file is empty"})
        BY <2>1, <3>1 DEF SourceRead
      <4> QED
        BY <4>1
    <3>2. CASE cmd.file.kind = "absent" /\ cmd.arg.kind # "absent"
      <4>1. SourceRead = cmd.arg /\ input = From(cmd.arg, {})
        BY <2>1, <3>2 DEF SourceRead
      <4> QED
        BY <4>1
    <3>3. CASE cmd.file.kind = "absent" /\ cmd.arg.kind = "absent"
      <4>1. SourceRead = cmd.stdin /\ input = From(cmd.stdin, {"errNoInput"})
        BY <2>1, <3>3 DEF SourceRead
      <4> QED
        BY <4>1
    <3> QED
      BY <3>1, <3>2, <3>3
  <2>4. PICK whenEmpty \in {{}, {"file is empty"}, {"errNoInput"}} : input = From(SourceRead, whenEmpty)
    BY <2>3
  <2>5. /\ input.text = SourceRead.text /\ input.err \in {{}, {"reading"}, whenEmpty}
        /\ input.err = {} => SourceRead.kind # "unreadable"
    BY <2>2, <2>4
  <2> QED
    BY <2>4, <2>5
<1> HIDE DEF input
<1>4. NoExit(input.err) /\ ~IsInvalidXDRError(input.err)
  BY <1>3 DEF NoExit, ExitErrors, IsInvalidXDRError, InvalidXDRErrors
<1>5. SourceRead.kind = "text" => input.text \in Texts
  BY <1>2, <1>3 DEF Texts
<1> QED
  BY <1>2, <1>3, <1>4, <1>5 DEF IsSource, input

\* What the theorem asks of the error of a command: it ends a check with status 2
\* only when the check is false, and is invalid XDR only if a text is to blame.
SomeTextBlamed == \E t \in Texts : Blamed(t)
Honest(e) == NoExit(e) /\ (IsInvalidXDRError(e) => SomeTextBlamed)

\* One payload.
LEMMA DecodeIsHonest ==
  ASSUME cmd \in Commands, cmd.name = "decode"
  PROVE  Honest(RunDecode(cmd).err)
<1> DEFINE input == ResolveInput(cmd)
<1>1. RunDecode(cmd).err = IF input.err # {} THEN input.err ELSE Render(cmd, input.text).err
  BY DEF RunDecode, Fails, Script
<1>2. /\ NoExit(input.err) /\ ~IsInvalidXDRError(input.err) /\ IsText(input.text)
      /\ input.err = {} => input.text \in Texts
  BY InputIsGiven
<1> HIDE DEF input
<1>3. LET e == Render(cmd, input.text).err
      IN  NoExit(e) /\ (IsInvalidXDRError(e) => Blamed(input.text))
  BY <1>2, RenderFails
<1> QED
  BY <1>1, <1>2, <1>3 DEF Honest, SomeTextBlamed

\* A file of a batch: it fails as invalid XDR only when it is there.
LEMMA FileFails ==
  ASSUME cmd \in Commands, cmd.name = "decode", NEW i \in DOMAIN cmd.files
  PROVE  LET e == FileError(cmd, cmd.files[i])
         IN  /\ Honest(e) /\ (IsInvalidXDRError(e) => cmd.files[i].kind = "text")
             /\ e = {} => cmd.files[i].kind = "text"
<1> DEFINE file == cmd.files[i]
           e    == FileError(cmd, file)
<1>1. file \in ToSet(cmd.files)
  BY DEF ToSet
<1>2. IsSource(file) /\ file.kind # "absent"
  BY <1>1, SourcesAreRead DEF CommandsRead
<1>3. file.kind = "text" => file.text \in Texts
  BY <1>1 DEF Texts
<1>4. e = IF file.kind = "unreadable" THEN {"reading"}
          ELSE IF file.text.form = "empty" THEN {"file is empty"}
          ELSE Render(cmd, file.text).err
  BY DEF FileError
<1>5. NoExit({"reading"}) /\ ~IsInvalidXDRError({"reading"}) /\ NoExit({"file is empty"}) /\ ~IsInvalidXDRError({"file is empty"})
  BY DEF NoExit, ExitErrors, IsInvalidXDRError, InvalidXDRErrors
<1>6. LET r == Render(cmd, file.text).err
      IN  NoExit(r) /\ (IsInvalidXDRError(r) => Blamed(file.text))
  BY <1>2, RenderFails DEF IsSource
<1> HIDE DEF file, e
<1>7. CASE file.kind = "unreadable"
  BY <1>4, <1>5, <1>7 DEF Honest, e, file
<1>8. CASE file.kind = "text"
  <2>1. e = {"file is empty"} \/ e = Render(cmd, file.text).err
    BY <1>4, <1>8
  <2>2. Honest(e)
    BY <1>3, <1>5, <1>6, <1>8, <2>1 DEF Honest, SomeTextBlamed
  <2> QED
    BY <1>8, <2>2 DEF e, file
<1> QED
  BY <1>2, <1>7, <1>8 DEF IsSource

\* A batch fails as invalid XDR only when every file of it was there.
LEMMA BatchIsHonest ==
  ASSUME cmd \in Commands, cmd.name = "decode"
  PROVE  LET e == RunBatchDecode(cmd).err
         IN  Honest(e) /\ (IsInvalidXDRError(e) => \A i \in DOMAIN cmd.files : cmd.files[i].kind = "text")
<1> DEFINE e        == RunBatchDecode(cmd).err
           failing  == FailedNumbers(cmd)
           failures == [i \in failing |-> FileError(cmd, cmd.files[i])]
           least    == Min(failing)
<1>1. e \in {ResolveBatchFiles(cmd), {}} \/ (failing # {} /\ e = NewBatchError(failures))
  BY DEF RunBatchDecode, Fails, Script
<1>2. /\ Honest({}) /\ ~IsInvalidXDRError({}) /\ Honest(ResolveBatchFiles(cmd)) /\ ~IsInvalidXDRError(ResolveBatchFiles(cmd))
      /\ Honest({"batchError"}) /\ ~IsInvalidXDRError({"batchError"})
  BY DEF Honest, NoExit, ExitErrors, IsInvalidXDRError, InvalidXDRErrors, ResolveBatchFiles
<1>3. failing \subseteq DOMAIN cmd.files /\ DOMAIN failures = failing
  BY DEF FailedNumbers
<1>4. DOMAIN cmd.files \in SUBSET Nat
  BY SourcesAreRead DEF CommandsRead
<1>5. CASE failing # {} /\ e = NewBatchError(failures)
  <2>1. least \in failing
    <3> HIDE DEF failing
    <3> QED
      BY <1>3, <1>4, <1>5, MinIsMember
  <2>2. failures[least] = FileError(cmd, cmd.files[least])
    BY <2>1
  <2>3. Honest(failures[least])
    BY <1>3, <2>1, <2>2, FileFails
  <2>4. CASE \A i \in failing : IsInvalidXDRError(failures[i])
    <3>1. e = {"batchError"} \cup failures[least]
      BY <1>3, <1>5, <2>4 DEF NewBatchError
    <3>2. IsInvalidXDRError(failures[least])
      BY <2>1, <2>4
    <3>3. Honest(e)
      BY <2>3, <3>1, <3>2, <1>2 DEF Honest, NoExit
    <3>4. ASSUME NEW i \in DOMAIN cmd.files
          PROVE  cmd.files[i].kind = "text"
      <4>1. CASE FileError(cmd, cmd.files[i]) = {}
        BY <3>4, <4>1, FileFails
      <4>2. CASE FileError(cmd, cmd.files[i]) # {}
        <5>1. i \in failing /\ failures[i] = FileError(cmd, cmd.files[i])
          BY <3>4, <4>2 DEF FailedNumbers
        <5> QED
          BY <2>4, <3>4, <5>1, FileFails
      <4> QED
        BY <4>1, <4>2
    <3> QED
      BY <3>3, <3>4
  <2>5. CASE ~ \A i \in failing : IsInvalidXDRError(failures[i])
    <3>1. e = {"batchError"}
      BY <1>3, <1>5, <2>5 DEF NewBatchError
    <3> QED
      BY <1>2, <3>1
  <2> QED
    BY <2>4, <2>5
<1> HIDE DEF e, failing, failures
<1>6. CASE e \in {ResolveBatchFiles(cmd), {}}
  BY <1>2, <1>6 DEF e
<1> QED
  BY <1>1, <1>5, <1>6

\* A member of a sequence that SelectInSeq finds is there and passes the test.
LEMMA BadRecord ==
  ASSUME cmd \in Commands, NEW bad,
         bad = SelectInSeq(cmd.records, LAMBDA t : ChunkError(cmd, t) # {}), bad # 0
  PROVE  bad \in DOMAIN cmd.records /\ cmd.records[bad] \in ToSet(cmd.records)
<1> DEFINE I == {i \in 1 .. Len(cmd.records) : ChunkError(cmd, cmd.records[i]) # {}}
<1>1. cmd.records \in Seq(ToSet(cmd.records))
  BY SourcesAreRead DEF CommandsRead
<1>2. bad = IF I # {} THEN Min(I) ELSE 0
  BY DEF SelectInSeq
<1>3. I \in SUBSET Nat /\ I \subseteq DOMAIN cmd.records
  BY <1>1
<1> HIDE DEF I
<1>4. bad \in I
  BY <1>2, <1>3, MinIsMember
<1> QED
  BY <1>3, <1>4 DEF ToSet

\* A record of a stream: an error of --canonical or of the decoder.
LEMMA ChunkFails ==
  ASSUME cmd \in Commands, NEW t \in ToSet(cmd.records)
  PROVE  Honest(ChunkError(cmd, t))
<1> DEFINE canonical == IF cmd.canonical THEN CanonicalError(t, cmd.type) ELSE {}
           decoded   == DecodeError(t, cmd.type)
           Good(e)   == NoExit(e) /\ (IsInvalidXDRError(e) => Blamed(t))
<1>1. t \in Texts
  BY DEF Texts
<1>2. IsText(t) /\ (IsBase64(t) \/ (t.form = "empty" /\ t.canonical /\ t.len % 4 = 0))
  BY SourcesAreRead DEF CommandsRead
<1>3. KnownTypes(t)
  BY <1>2 DEF IsText, KnownTypes
<1>4. ASSUME t.form # "empty", ~Decodes(t, cmd.type) \/ (cmd.canonical /\ ~(t.canonical /\ t.len % 4 = 0))
      PROVE  Blamed(t)
  BY <1>2, <1>4 DEF Blamed, IsHexString, IsBase64, Decodes, Readable
<1>5. Good({})
  BY DEF NoExit, IsInvalidXDRError
<1>6. Good(decoded)
  BY <1>3, <1>4, DecodeFails
<1>7. Good(canonical)
  <2>1. CASE cmd.canonical
    <3>1. t.form = "empty" => t.canonical /\ t.len % 4 = 0
      BY <1>2 DEF IsBase64
    <3>2. /\ NoExit(CanonicalError(t, cmd.type))
          /\ IsInvalidXDRError(CanonicalError(t, cmd.type)) =>
               \/ ~(t.canonical /\ t.len % 4 = 0)
               \/ t.form # "empty" /\ ~Decodes(t, cmd.type)
      BY CanonicalFails
    <3> HIDE DEF Good
    <3>3. Good(CanonicalError(t, cmd.type))
      BY <1>4, <2>1, <3>1, <3>2 DEF Good
    <3> QED
      BY <2>1, <3>3
  <2>2. CASE ~cmd.canonical
    BY <1>5, <2>2
  <2> QED
    BY <2>1, <2>2
<1> HIDE DEF canonical, decoded, Good
<1>8. Good(FirstError(<<canonical, decoded>>))
  BY <1>6, <1>7, FirstOfTwo
<1>9. ChunkError(cmd, t) = FirstError(<<canonical, decoded>>)
  BY DEF ChunkError, canonical, decoded
<1> QED
  BY <1>1, <1>8, <1>9 DEF Good, Honest, SomeTextBlamed

\* A stream ends with the error of a record or with that of the parser.
LEMMA StreamIsHonest ==
  ASSUME cmd \in Commands
  PROVE  Honest(RunStream(cmd).err) \/ (RunStream(cmd).err = {cmd.tail} /\ cmd.tail # "io.EOF")
<1> DEFINE bad == SelectInSeq(cmd.records, LAMBDA t : ChunkError(cmd, t) # {})
           e   == RunStream(cmd).err
<1>1. e = IF cmd.file.kind = "unreadable" THEN {"reading"}
          ELSE IF bad # 0 THEN ChunkError(cmd, cmd.records[bad])
          ELSE IF cmd.tail = "io.EOF" THEN {} ELSE {cmd.tail}
  BY DEF RunStream, Fails, Script
<1>2. bad # 0 => cmd.records[bad] \in ToSet(cmd.records)
  BY BadRecord
<1> HIDE DEF bad, e
<1>3. Honest({"reading"}) /\ Honest({})
  BY DEF Honest, NoExit, ExitErrors, IsInvalidXDRError, InvalidXDRErrors
<1>4. bad # 0 => Honest(ChunkError(cmd, cmd.records[bad]))
  BY <1>2, ChunkFails
<1> QED
  BY <1>1, <1>3, <1>4 DEF e

\* Where a text of several lines stops: at a line of data that does not decode.
LEMMA BadLineIsData ==
  ASSUME cmd \in Commands, NEW opts, BadLine(cmd.lines, opts) # 0
  PROVE  LET l == cmd.lines[BadLine(cmd.lines, opts)]
         IN  l \in ToSet(cmd.lines) /\ l.kind = "data" /\ DecodeLine(l.text, opts) # {}
<1> DEFINE lines   == cmd.lines
           long    == {i \in 1 .. Len(lines) : lines[i].kind = "long"}
           scanned == Scanned(lines)
           I       == {i \in 1 .. Len(scanned) :
                         scanned[i].kind = "data" /\ DecodeLine(scanned[i].text, opts) # {}}
           bad     == BadLine(lines, opts)
<1>1. lines \in Seq(ToSet(lines))
  BY SourcesAreRead DEF CommandsRead
<1>2. LongLine(lines) = IF long # {} THEN Min(long) ELSE 0
  BY DEF LongLine, SelectInSeq
<1>3. bad = IF I # {} THEN Min(I) ELSE 0
  BY DEF BadLine, SelectInSeq
<1>4. bad # 0
  OBVIOUS
<1> HIDE DEF bad
<1>5. LongLine(lines) \in 0 .. Len(lines)
  <2>1. long \in SUBSET (1 .. Len(lines)) /\ long \in SUBSET Nat /\ Len(lines) \in Nat
    BY <1>1
  <2> HIDE DEF long
  <2>2. long # {} => Min(long) \in long
    BY <2>1, MinIsMember
  <2>3. CASE long # {}
    <3>1. Min(long) \in 1 .. Len(lines)
      BY <2>1, <2>2, <2>3
    <3>2. LongLine(lines) = Min(long)
      BY <1>2, <2>3
    <3> QED
      BY <2>1, <3>1, <3>2
  <2>4. CASE long = {}
    BY <1>2, <2>1, <2>4
  <2> QED
    BY <2>3, <2>4
<1>6. /\ Len(scanned) \in Nat /\ Len(scanned) <= Len(lines)
      /\ \A i \in 1 .. Len(scanned) : scanned[i] = lines[i]
  <2> HIDE DEF lines
  <2>1. CASE LongLine(lines) = 0
    BY <1>1, <2>1 DEF Scanned
  <2>2. CASE LongLine(lines) # 0
    <3>1. scanned = SubSeq(lines, 1, LongLine(lines) - 1)
      BY <2>2 DEF Scanned
    <3> QED
      BY <1>1, <1>5, <2>2, <3>1
  <2> QED
    BY <2>1, <2>2
<1>7. I \in SUBSET Nat /\ I \subseteq 1 .. Len(scanned)
      /\ \A i \in I : scanned[i].kind = "data" /\ DecodeLine(scanned[i].text, opts) # {}
  BY <1>6
<1> HIDE DEF I, scanned
<1>8. bad \in I
  BY <1>3, <1>4, <1>7, MinIsMember
<1>9. bad \in 1 .. Len(lines) /\ lines[bad].kind = "data"
      /\ DecodeLine(lines[bad].text, opts) # {}
  BY <1>6, <1>7, <1>8
<1>10. lines[bad] \in ToSet(lines)
  BY <1>1, <1>9 DEF ToSet
<1> QED
  BY <1>9, <1>10 DEF bad

\* A text that is there and does not decode as asked.
LEMMA UndecodedText ==
  ASSUME NEW t, NEW type, KnownTypes(t), t.form # "empty",
         type # "" => type \in TypeNames, DecodeError(t, type) # {}
  PROVE  ~Decodes(t, type)
<1>1. CASE type = ""
  <2>1. ~IsBase64(t) \/ Matching(t) = {}
    BY <1>1 DEF DecodeError, DetectError, TextError
  <2>2. Matching(t) = {} => DOMAIN t.trees = {}
    BY DEF Matching, KnownTypes, TypeNames
  <2> QED
    BY <1>1, <2>1, <2>2 DEF Decodes, ReadableAs
<1>2. CASE type # ""
  BY <1>2 DEF DecodeError, DecodeAsError, Decodes, ReadableAs
<1> QED
  BY <1>1, <1>2

TypeIsKnown == cmd.type # "" => cmd.type \in TypeNames

\* A line is read as base64, or as hexadecimal digits with --hex or a 0x prefix.
LEMMA LineFails ==
  ASSUME NEW t, IsText(t), t.form # "empty", cmd.name = "decode", cmd.multi
  PROVE  LET e == DecodeLine(t, MultiOptions(cmd))
         IN  NoExit(e) /\ (TypeIsKnown /\ e # {} => Blamed(t))
<1> DEFINE opts == MultiOptions(cmd)
           e    == DecodeLine(t, opts)
<1>1. /\ opts.typeName = cmd.type /\ opts.allowHex = cmd.hex /\ opts.stopOnError = TRUE
      /\ KnownTypes(t)
  BY DEF MultiOptions, IsText, KnownTypes
<1>0. SUFFICES NoExit(e) /\ (TypeIsKnown /\ e # {} => Blamed(t))
  OBVIOUS
<1> HIDE DEF opts
<1>2. CASE IsHexLine(t, opts) /\ IsHexString(t)
  <2> DEFINE b == HexToBase64(t)
  <2>1. b.form = "base64" /\ b.trees = t.hexTrees /\ KnownTypes(b)
    BY HexReading
  <2>2. e = DecodeError(b, cmd.type)
    BY <1>1, <1>2 DEF DecodeLine, DecodeHexError, HexError
  <2> HIDE DEF b, e
  <2>3. NoExit(e)
    BY <2>1, <2>2, DecodeFails
  <2>4. ASSUME TypeIsKnown, e # {}
        PROVE  Blamed(t)
    <3>1. ~ReadableAs(b.trees, cmd.type)
      BY <2>1, <2>2, <2>4, UndecodedText DEF Decodes, IsBase64, TypeIsKnown
    <3> QED
      BY <1>2, <2>1, <3>1 DEF Blamed, Readable, IsHexString, IsBase64
  <2> QED
    BY <2>3, <2>4
<1>3. CASE IsHexLine(t, opts) /\ ~IsHexString(t)
  <2>1. t.zeroX /\ e = {"ErrInvalidHex"}
    BY <1>3 DEF IsHexLine, DecodeLine, DecodeHexError, HexError
  <2>2. ~Readable(t, cmd.type)
    BY <1>3, <2>1 DEF Readable
  <2> QED
    BY <2>1, <2>2 DEF Blamed, NoExit, ExitErrors
<1>4. CASE ~IsHexLine(t, opts)
  <2>1. e = DecodeError(t, cmd.type) /\ ~((cmd.hex \/ t.zeroX) /\ IsHexString(t))
    BY <1>1, <1>4 DEF IsHexLine, DecodeLine
  <2>2. TypeIsKnown /\ e # {} => ~Decodes(t, cmd.type)
    BY <1>1, <2>1, UndecodedText DEF TypeIsKnown
  <2>3. NoExit(e)
    BY <1>1, <2>1, DecodeFails
  <2>4. ~Decodes(t, cmd.type) => ~Readable(t, cmd.type)
    BY <2>1 DEF Readable, Decodes
  <2> HIDE DEF e
  <2> QED
    BY <2>2, <2>3, <2>4 DEF Blamed
<1> QED
  BY <1>2, <1>3, <1>4

\* Several lines: the error names the first line that does not decode.
LEMMA MultiIsHonest ==
  ASSUME cmd \in Commands, cmd.name = "decode", cmd.multi
  PROVE  LET e == RunMultiStream(cmd).err
         IN  NoExit(e) /\ (TypeIsKnown => Honest(e))
<1> DEFINE opts == MultiOptions(cmd)
           bad  == BadLine(cmd.lines, opts)
           l    == cmd.lines[bad]
           e    == RunMultiStream(cmd).err
           all  == NextAll(cmd.lines, cmd.tail # "io.EOF", opts)
           Plainly(x) == NoExit(x) /\ ~IsInvalidXDRError(x)
<1>1. /\ Plainly({}) /\ Plainly({"reading"}) /\ Plainly({"reading multi-stream"})
      /\ Plainly({"ErrEmptyMultiStream"})
  BY DEF NoExit, ExitErrors, IsInvalidXDRError, InvalidXDRErrors
<1>2. e \in {{"reading"}, {}, {"ErrEmptyMultiStream"}, all.err}
  <2>1. DecodeAll(cmd.lines, cmd.tail # "io.EOF", opts).err \in {all.err, {"ErrEmptyMultiStream"}}
    <3> HIDE DEF all
    <3> QED
      BY DEF DecodeAll, all
  <2> HIDE DEF all, opts
  <2> QED
    BY <2>1 DEF RunMultiStream, Fails, Script, opts
<1>3. \/ all.err \in {{}, {"reading multi-stream"}}
      \/ bad # 0 /\ all.err = {"ErrCorruptMultiStreamRecord"} \cup DecodeLine(l.text, opts)
  <2> HIDE DEF opts
  <2> QED
    BY DEF NextAll
<1>4. ASSUME bad # 0
      PROVE  NoExit(DecodeLine(l.text, opts)) /\ (TypeIsKnown => SomeTextBlamed)
  <2>1. l \in ToSet(cmd.lines) /\ l.kind = "data" /\ DecodeLine(l.text, opts) # {}
    BY <1>4, BadLineIsData
  <2>2. IsText(l.text) /\ l.text.form # "empty" /\ l.text \in Texts
    BY <2>1, SourcesAreRead DEF CommandsRead, Texts
  <2> QED
    BY <2>1, <2>2, LineFails DEF SomeTextBlamed
<1> HIDE DEF opts, bad, l, e, all
<1>5. CASE bad # 0 /\ e = {"ErrCorruptMultiStreamRecord"} \cup DecodeLine(l.text, opts)
  BY <1>4, <1>5 DEF Honest, NoExit, ExitErrors, e
<1>6. CASE Plainly(e)
  BY <1>6 DEF Honest, e
<1> QED
  BY <1>1, <1>2, <1>3, <1>5, <1>6

\* The decode command in all its forms: what its error says of the texts.  With
\* --stream the parser may have ended early, and with --multi an unknown type is
\* taken for a corrupt record.
LEMMA DecodeCommandIsHonest ==
  ASSUME cmd \in Commands, cmd.name = "decode"
  PROVE  LET e == DecodeScript(cmd).err
         IN  /\ \/ Honest(e)
                \/ cmd.stream /\ e = {cmd.tail} /\ cmd.tail # "io.EOF"
                \/ cmd.multi /\ cmd.type # "" /\ cmd.type \notin TypeNames /\ NoExit(e)
             /\ cmd.batch /\ IsInvalidXDRError(e) => \A i \in DOMAIN cmd.files : cmd.files[i].kind = "text"
<1> DEFINE e == DecodeScript(cmd).err
<1>1. CASE cmd.batch /\ BatchConflict(cmd) # {}
  <2>1. e = {"ErrInvalidArgument"}
    BY <1>1 DEF DecodeScript, Fails, Script, BatchConflict
  <2>2. Honest(e) /\ ~IsInvalidXDRError(e)
    BY <2>1 DEF Honest, NoExit, ExitErrors, IsInvalidXDRError, InvalidXDRErrors
  <2> QED
    BY <2>2
<1>2. CASE ~(cmd.batch /\ BatchConflict(cmd) # {}) /\ cmd.stream
  <2>1. e = RunStream(cmd).err /\ ~cmd.batch
    BY <1>2 DEF DecodeScript, BatchConflict
  <2> QED
    BY <1>2, <2>1, StreamIsHonest
<1>3. CASE ~(cmd.batch /\ BatchConflict(cmd) # {}) /\ ~cmd.stream /\ cmd.multi
  <2>1. e = RunMultiStream(cmd).err /\ ~cmd.batch
    BY <1>3 DEF DecodeScript, BatchConflict
  <2> QED
    BY <1>3, <2>1, MultiIsHonest DEF TypeIsKnown
<1>4. CASE ~(cmd.batch /\ BatchConflict(cmd) # {}) /\ ~cmd.stream /\ ~cmd.multi /\ cmd.batch
  <2>1. e = RunBatchDecode(cmd).err
    BY <1>4 DEF DecodeScript
  <2> QED
    BY <2>1, BatchIsHonest
<1>5. CASE ~cmd.stream /\ ~cmd.multi /\ ~cmd.batch
  <2>1. e = RunDecode(cmd).err
    BY <1>5 DEF DecodeScript
  <2> QED
    BY <1>5, <2>1, DecodeIsHonest
<1> QED
  BY <1>1, <1>2, <1>3, <1>4, <1>5

\* A text that the other commands cannot read: they look for base64 only, and
\* read it as the type that --type names, as the best candidate, or as their own.
LEMMA OthersReadBase64 ==
  ASSUME NEW t, cmd.name # "decode", t.form # "empty"
  PROVE  \A type : ~Decodes(t, type) => ~Readable(t, type)
BY DEF Readable, Decodes

\* What detection on a given text says of a command that is not decode.
LEMMA DetectIsHonest ==
  ASSUME NEW t \in Texts, IsText(t), cmd.name # "decode"
  PROVE  Honest(DetectError(t)) /\ (DetectError(t) = {} => t.form # "empty")
<1>1. LET e == DetectError(t)
      IN  /\ NoExit(e) /\ (e = {} => t.form # "empty")
          /\ IsInvalidXDRError(e) => t.form # "empty" /\ \A type : ~Decodes(t, type)
  BY DetectFails DEF IsText, KnownTypes
<1>2. IsInvalidXDRError(DetectError(t)) => Blamed(t)
  BY <1>1, OthersReadBase64 DEF Blamed
<1> QED
  BY <1>1, <1>2 DEF Honest, SomeTextBlamed

\* An optional payload is read only where it is given.
LEMMA OptionalIsHonest ==
  ASSUME cmd \in Commands, NEW source \in {cmd.result, cmd.meta}, cmd.name # "decode"
  PROVE  Honest(OptionalError(source))
<1>1. IsSource(source)
  BY SourcesAreRead DEF CommandsRead
<1>2. Honest({"reading"}) /\ Honest({})
  BY DEF Honest, NoExit, ExitErrors, IsInvalidXDRError, InvalidXDRErrors
<1>3. CASE source.kind = "text"
  <2>1. source.text \in Texts
    BY <1>3 DEF Texts
  <2>2. OptionalError(source) \in {{}, DetectError(source.text)}
    BY <1>3 DEF OptionalError
  <2> QED
    BY <1>1, <1>2, <2>1, <2>2, DetectIsHonest DEF IsSource
<1>4. CASE source.kind # "text"
  BY <1>1, <1>2, <1>4 DEF OptionalError, IsSource
<1> QED
  BY <1>3, <1>4

\* explain: --fail-on-error ends with status 2 exactly when the result that is
\* explained is that of a failed transaction.
LEMMA ExplainIsHonest ==
  ASSUME cmd \in Commands, cmd.name = "explain"
  PROVE  LET e == ExplainScript(cmd).err
         IN  /\ IsInvalidXDRError(e) => SomeTextBlamed
             /\ e \cap ExitErrors # {} => CheckIsFalse
             /\ CheckIsFalse /\ cmd.format # "markdown" => e # {}
<1> DEFINE input   == ResolveInput(cmd)
           primary == input.text
           detect  == IF input.err = {} THEN DetectError(primary) ELSE {}
           early   == FirstError(<<input.err, detect, OptionalError(cmd.result)>>)
           noSoroban == IF cmd.resources /\ ~primary.soroban THEN {"ErrUnsupportedType"} ELSE {}
           badTime   == IF cmd.expiry /\ cmd.reference = "malformed" THEN {"reference-time"} ELSE {}
           badTheme  == IF cmd.format = "text" /\ cmd.theme = "unknown" THEN {"theme"} ELSE {}
           late == FirstError(<<SummaryError(cmd, primary), OptionalError(cmd.meta),
                                noSoroban, badTime, badTheme>>)
           e == ExplainScript(cmd).err
<1>1. e = IF early # {} THEN early ELSE IF late # {} THEN late ELSE ExplainGate(cmd, primary)
  BY DEF ExplainScript, Fails, Script
<1>2. /\ NoExit(input.err) /\ ~IsInvalidXDRError(input.err) /\ IsText(primary)
      /\ primary = SourceRead.text
      /\ input.err = {} => SourceRead.kind = "text" /\ primary \in Texts
  BY InputIsGiven
<1> HIDE DEF input, primary
<1>3. Honest({}) /\ Honest(input.err)
  BY <1>2 DEF Honest, NoExit, IsInvalidXDRError
<1>4. Honest(detect) /\ (input.err = {} /\ detect = {} => primary.form # "empty")
  BY <1>2, <1>3, DetectIsHonest
<1>5. Honest(OptionalError(cmd.result)) /\ Honest(OptionalError(cmd.meta))
  BY OptionalIsHonest
<1>6. Honest(noSoroban) /\ Honest(badTime) /\ Honest(badTheme) /\ Honest(SummaryError(cmd, primary))
  BY DEF SummaryError, Honest, NoExit, ExitErrors, IsInvalidXDRError, InvalidXDRErrors
<1> HIDE DEF detect, noSoroban, badTime, badTheme
<1>7. Honest(early) /\ (early = {} => input.err = {} /\ detect = {})
  BY <1>3, <1>4, <1>5, FirstOfThree
<1>8. Honest(late) /\ (late = {} => SummaryError(cmd, primary) = {})
  BY <1>5, <1>6, FirstOfFive
<1> HIDE DEF early, late, e
<1>9. CheckIsFalse <=> cmd.failOnError /\ \E source \in {SourceRead, cmd.result} : Given(source) /\ source.text.failed
  BY DEF CheckIsFalse
<1>10. CASE early # {} \/ late # {}
  <2>1. Honest(e) /\ e # {}
    BY <1>1, <1>7, <1>8, <1>10
  <2> QED
    BY <2>1 DEF Honest, NoExit, e
<1>11. CASE early = {} /\ late = {}
  <2>1. e = ExplainGate(cmd, primary)
    BY <1>1, <1>11
  <2>2. Given(SourceRead) /\ SummaryError(cmd, primary) = {}
    BY <1>2, <1>4, <1>7, <1>8, <1>11 DEF Given
  <2>3. ~IsInvalidXDRError(e)
    BY <2>1 DEF ExplainGate, IsInvalidXDRError, InvalidXDRErrors
  <2>4. ASSUME e \cap ExitErrors # {}
        PROVE  CheckIsFalse
    <3>1. cmd.failOnError /\ ResultText(cmd, primary).failed
      BY <2>1, <2>4 DEF ExplainGate, Failed
    <3>2. \E source \in {SourceRead, cmd.result} : Given(source) /\ source.text = ResultText(cmd, primary)
      BY <1>2, <2>2 DEF ResultText
    <3> QED
      BY <1>9, <3>1, <3>2
  <2>5. ASSUME CheckIsFalse, cmd.format # "markdown"
        PROVE  e # {}
    <3>1. PICK source \in {SourceRead, cmd.result} : Given(source) /\ source.text.failed
      BY <1>9, <2>5
    <3>2. IsText(source.text)
      BY <1>2, <3>1, SourcesAreRead DEF CommandsRead, IsSource
    <3>3. TypeOf(source.text) = "TransactionResult"
      BY <3>1, <3>2 DEF IsText
    <3>4. source.text = ResultText(cmd, primary)
      <4>1. CASE Given(cmd.result)
        <5>1. TypeOf(primary) = "TransactionEnvelope"
          BY <2>2, <4>1 DEF SummaryError
        <5> QED
          BY <1>2, <3>1, <3>3, <4>1, <5>1 DEF ResultText
      <4>2. CASE ~Given(cmd.result)
        BY <1>2, <3>1, <4>2 DEF ResultText
      <4> QED
        BY <4>1, <4>2
    <3>5. Failed(cmd, primary) /\ cmd.failOnError
      BY <1>9, <2>5, <3>1, <3>3, <3>4 DEF Failed, HasOutcome
    <3> QED
      BY <2>1, <2>5, <3>5 DEF ExplainGate
  <2> QED
    BY <2>3, <2>4, <2>5 DEF e
<1> QED
  BY <1>10, <1>11

\* The operands of the two comparing commands.
LEMMA OperandsAreHonest ==
  ASSUME cmd \in Commands, cmd.name \in {"diff", "result-diff"}
  PROVE  LET e == OperandErrors(cmd)
             l == cmd.left.text
             r == cmd.right.text
         IN  /\ Honest(e) /\ KnownTypes(l) /\ KnownTypes(r) /\ IsText(l) /\ IsText(r)
             /\ e = {} => l \in Texts /\ r \in Texts
<1>1. /\ IsSource(cmd.left) /\ IsSource(cmd.right)
      /\ cmd.left.kind # "absent" /\ cmd.right.kind # "absent"
  BY SourcesAreRead DEF CommandsRead
<1>2. Honest({"reading"}) /\ Honest({})
  BY DEF Honest, NoExit, ExitErrors, IsInvalidXDRError, InvalidXDRErrors
<1>3. /\ OperandErrors(cmd) \in {OperandError(cmd.left), OperandError(cmd.right)}
      /\ OperandErrors(cmd) = {} => OperandError(cmd.left) = {} /\ OperandError(cmd.right) = {}
  BY FirstOfTwo DEF OperandErrors
<1>4. Honest(OperandErrors(cmd))
  BY <1>2, <1>3 DEF OperandError
<1>5. OperandErrors(cmd) = {} => cmd.left.kind = "text" /\ cmd.right.kind = "text"
  BY <1>1, <1>3 DEF OperandError, IsSource
<1>6. OperandErrors(cmd) = {} => cmd.left.text \in Texts /\ cmd.right.text \in Texts
  BY <1>5 DEF Texts
<1> QED
  BY <1>1, <1>4, <1>6 DEF IsSource, IsText, KnownTypes

\* What decoding a given text as --type says of a command that is not decode.
LEMMA TypedIsHonest ==
  ASSUME NEW t \in Texts, KnownTypes(t), cmd.name # "decode"
  PROVE  Honest(DecodeError(t, cmd.type))
<1>1. LET e == DecodeError(t, cmd.type)
      IN  NoExit(e) /\ (IsInvalidXDRError(e) => t.form # "empty" /\ ~Decodes(t, cmd.type))
  BY DecodeFails
<1>2. IsInvalidXDRError(DecodeError(t, cmd.type)) => Blamed(t)
  BY <1>1, OthersReadBase64 DEF Blamed
<1> QED
  BY <1>1, <1>2 DEF Honest, SomeTextBlamed

\* The errors that are no text's fault.
LEMMA UsageErrors ==
  /\ Honest({}) /\ Honest({"ErrInvalidArgument"}) /\ Honest({"theme"}) /\ Honest({"no footprint"})
  /\ Honest({"arguments"}) /\ Honest({"ErrUnknownType"}) /\ Honest({"schema validation"}) /\ Honest({"encode"})
BY DEF Honest, NoExit, ExitErrors, IsInvalidXDRError, InvalidXDRErrors

\* diff: the gate is the last word of both forms.
LEMMA DiffIsHonest ==
  ASSUME cmd \in Commands, cmd.name = "diff"
  PROVE  LET e == DiffScript(cmd).err
         IN  (Honest(e) /\ e # {}) \/ e = DiffGate(cmd, cmd.left.text.value = cmd.right.text.value)
<1> DEFINE l == cmd.left.text
           r == cmd.right.text
           usage == FirstError(<<DiffUsageError(cmd), OperandErrors(cmd)>>)
           theme == IF DiffMode(cmd) \in ColouredDiffs /\ ~cmd.quiet /\ cmd.theme = "unknown"
                      THEN {"theme"} ELSE {}
           typed == FirstError(<<DecodeError(l, cmd.type), DecodeError(r, cmd.type), theme>>)
           none  == IF l.footprint /\ r.footprint THEN {} ELSE {"no footprint"}
           found == FirstError(<<DetectError(l), DetectError(r), none>>)
           gate  == DiffGate(cmd, l.value = r.value)
           e     == DiffScript(cmd).err
<1>1. RunDiff(cmd).err = IF typed # {} THEN typed ELSE gate
  BY DEF RunDiff, Fails, Script
<1>2. RunFootprintDiff(cmd).err = IF found # {} THEN found ELSE gate
  BY DEF RunFootprintDiff, Fails, Script
<1>3. e = IF usage # {} THEN usage
          ELSE IF cmd.footprint THEN RunFootprintDiff(cmd).err ELSE RunDiff(cmd).err
  BY DEF DiffScript, Fails, Script
<1>4. /\ Honest(OperandErrors(cmd)) /\ KnownTypes(l) /\ KnownTypes(r) /\ IsText(l) /\ IsText(r)
      /\ OperandErrors(cmd) = {} => l \in Texts /\ r \in Texts
  BY OperandsAreHonest
<1>5. Honest(DiffUsageError(cmd)) /\ Honest(theme) /\ Honest(none)
  BY UsageErrors DEF DiffUsageError
<1> HIDE DEF l, r, theme, none
<1>6. Honest(usage) /\ (usage = {} => OperandErrors(cmd) = {})
  BY <1>4, <1>5, FirstOfTwo
<1>7. ASSUME OperandErrors(cmd) = {}
      PROVE  Honest(typed) /\ Honest(found)
  <2>1. /\ Honest(DecodeError(l, cmd.type)) /\ Honest(DecodeError(r, cmd.type))
        /\ Honest(DetectError(l)) /\ Honest(DetectError(r))
    BY <1>4, <1>7, TypedIsHonest, DetectIsHonest
  <2>2. Honest(typed)
    BY <1>5, <2>1, FirstOfThree
  <2>3. Honest(found)
    BY <1>5, <2>1, FirstOfThree
  <2> QED
    BY <2>2, <2>3
<1> HIDE DEF usage, typed, found, e, gate
<1>8. (Honest(e) /\ e # {}) \/ e = gate
  BY <1>1, <1>2, <1>3, <1>6, <1>7
<1> QED
  BY <1>8 DEF e, gate, l, r

\* result-diff.
LEMMA ResultDiffIsHonest ==
  ASSUME cmd \in Commands, cmd.name = "result-diff"
  PROVE  LET e == ResultDiffScript(cmd).err
         IN  (Honest(e) /\ e # {}) \/ e = DiffGate(cmd, cmd.left.text.operations = cmd.right.text.operations)
<1> DEFINE l == cmd.left.text
           r == cmd.right.text
           fail == FirstError(<<OperandErrors(cmd), DetectError(l), DetectError(r)>>)
           gate == DiffGate(cmd, l.operations = r.operations)
           e    == ResultDiffScript(cmd).err
<1>1. e = IF fail # {} THEN fail
          ELSE IF TypeOf(l) # "TransactionEnvelope" \/ TypeOf(r) # "TransactionResult"
                 THEN {"ErrInvalidArgument"} ELSE gate
  BY DEF ResultDiffScript, Fails, Script
<1>2. /\ Honest(OperandErrors(cmd)) /\ IsText(l) /\ IsText(r)
      /\ OperandErrors(cmd) = {} => l \in Texts /\ r \in Texts
  BY OperandsAreHonest
<1> HIDE DEF l, r
<1>3. Honest(fail)
  <2>1. CASE OperandErrors(cmd) = {}
    <3>1. Honest(DetectError(l)) /\ Honest(DetectError(r))
      BY <1>2, <2>1, DetectIsHonest
    <3> QED
      BY <1>2, <3>1, FirstOfThree
  <2>2. CASE OperandErrors(cmd) # {}
    BY <1>2, <2>2, FirstOfThree
  <2> QED
    BY <2>1, <2>2
<1> HIDE DEF fail, e, gate
<1>4. (Honest(e) /\ e # {}) \/ e = gate
  BY <1>1, <1>3, UsageErrors
<1> QED
  BY <1>4 DEF e, gate, l, r

\* A text is to blame: this is what status 3 is taken to say.
Unreadable ==
  \/ \E text \in Texts, type \in {cmd.type, "Asset", "TransactionMeta"} :
       /\ text.form # "empty" /\ ~Readable(text, type)
       /\ cmd.name \notin {"asset", "meta-diff"} => type = cmd.type
  \/ \E text \in Texts : text.form = "both"

LEMMA BlameIsEnough == SomeTextBlamed => Unreadable
BY DEF SomeTextBlamed, Blamed, Unreadable

\* meta-diff and asset read one value as a type of their own.
LEMMA OwnTypeIsHonest ==
  ASSUME cmd \in Commands, cmd.name \in {"asset", "meta-diff"},
         NEW source, NEW what, NEW type \in {"Asset", "TransactionMeta"},
         source.kind = "text" => source.text \in Texts
  PROVE  LET e == TypedScript(cmd, source, type, what).err
         IN  NoExit(e) /\ (IsInvalidXDRError(e) => Unreadable)
<1> DEFINE derived == DerivationError(cmd, source.text)
           both    == FirstError(<<DecodeAsError(source.text, type), derived>>)
           first   == FirstError(<<OperandError(source), ValueError(cmd, source, type)>>)
           Good(x) == NoExit(x) /\ (IsInvalidXDRError(x) => Unreadable)
           e       == TypedScript(cmd, source, type, what).err
<1>1. e = first
  BY DEF TypedScript, Fails, Script
<1>2. Good({}) /\ Good({"reading"})
  BY DEF NoExit, ExitErrors, IsInvalidXDRError, InvalidXDRErrors
<1>3. source.kind = "text" => Good(DecodeAsError(source.text, type))
  <2> SUFFICES ASSUME source.kind = "text"
               PROVE  Good(DecodeAsError(source.text, type))
    OBVIOUS
  <2> DEFINE t == source.text
  <2>1. LET d == DecodeAsError(t, type)
        IN  NoExit(d) /\ (IsInvalidXDRError(d) => t.form # "empty" /\ ~Decodes(t, type))
    <3>1. type # ""
      OBVIOUS
    <3> QED
      BY <3>1, DecodeAsFails
  <2>2. t.form # "empty" /\ ~Decodes(t, type) => ~Readable(t, type)
    BY OthersReadBase64
  <2> QED
    BY <2>1, <2>2 DEF Unreadable
<1>4. Good(derived)
  BY DEF DerivationError, NoExit, ExitErrors, IsInvalidXDRError, InvalidXDRErrors
<1> HIDE DEF Good, derived
<1>5. source.kind = "text" => Good(both)
  BY <1>3, <1>4, FirstOfTwo DEF both
<1>6. ValueError(cmd, source, type) = IF source.kind = "text" THEN both ELSE {}
  BY DEF ValueError, both, derived
<1> HIDE DEF both, first
<1>7. Good(ValueError(cmd, source, type)) /\ Good(OperandError(source))
  BY <1>2, <1>5, <1>6 DEF OperandError
<1>8. Good(first)
  BY <1>7, FirstOfTwo DEF first
<1> QED
  BY <1>1, <1>8 DEF Good

LEMMA MetaDiffIsHonest ==
  ASSUME cmd \in Commands, cmd.name = "meta-diff"
  PROVE  LET e == MetaDiffScript(cmd).err
         IN  NoExit(e) /\ (IsInvalidXDRError(e) => Unreadable)
<1> DEFINE source == IF cmd.file.kind = "absent" THEN cmd.arg ELSE cmd.file
           e      == MetaDiffScript(cmd).err
<1>1. e \in {{"arguments"}, TypedScript(cmd, source, "TransactionMeta", "balances").err}
  BY DEF MetaDiffScript, Fails, Script
<1>2. source.kind = "text" => source.text \in Texts
  BY DEF Texts
<1> HIDE DEF source, e
<1>3. LET x == TypedScript(cmd, source, "TransactionMeta", "balances").err
      IN  NoExit(x) /\ (IsInvalidXDRError(x) => Unreadable)
  BY <1>2, OwnTypeIsHonest
<1> QED
  BY <1>1, <1>3, UsageErrors, BlameIsEnough DEF Honest, e

LEMMA AssetIsHonest ==
  ASSUME cmd \in Commands, cmd.name = "asset"
  PROVE  LET e == AssetScript(cmd).err
         IN  NoExit(e) /\ (IsInvalidXDRError(e) => Unreadable)
<1> DEFINE input  == ResolveInput(cmd)
           source == [kind |-> "text", text |-> input.text]
           e      == AssetScript(cmd).err
<1>1. e = IF input.err # {} THEN input.err ELSE TypedScript(cmd, source, "Asset", "asset").err
  BY DEF AssetScript, Fails, Script
<1>2. /\ NoExit(input.err) /\ ~IsInvalidXDRError(input.err)
      /\ input.err = {} => input.text \in Texts
  BY InputIsGiven
<1>3. source.text = input.text
  OBVIOUS
<1> HIDE DEF input, source, e
<1>4. CASE input.err = {}
  <2>1. LET x == TypedScript(cmd, source, "Asset", "asset").err
        IN  NoExit(x) /\ (IsInvalidXDRError(x) => Unreadable)
    BY <1>2, <1>3, <1>4, OwnTypeIsHonest
  <2> QED
    BY <1>1, <1>4, <2>1 DEF e
<1>5. CASE input.err # {}
  BY <1>1, <1>2, <1>5 DEF e
<1> QED
  BY <1>4, <1>5

\* encode reads JSON: none of its errors is invalid XDR.
LEMMA EncodeIsHonest ==
  ASSUME cmd \in Commands, cmd.name = "encode"
  PROVE  LET e == EncodeScript(cmd).err IN NoExit(e) /\ ~IsInvalidXDRError(e)
<1> DEFINE input  == ResolveInput(cmd)
           goal   == EncodeTarget(cmd, input.text)
           wrong  == EncodeError(cmd, input.text, goal)
           first  == FirstError(<<input.err, wrong>>)
<1>1. EncodeScript(cmd).err = first
  BY DEF EncodeScript, Fails, Script
<1>2. NoExit(input.err) /\ ~IsInvalidXDRError(input.err)
  BY InputIsGiven
<1> HIDE DEF input, goal
<1>3. NoExit(wrong) /\ ~IsInvalidXDRError(wrong)
  BY DEF EncodeError, NoExit, ExitErrors, IsInvalidXDRError, InvalidXDRErrors
<1> HIDE DEF wrong
<1>4. NoExit(first) /\ ~IsInvalidXDRError(first)
  BY <1>2, <1>3, FirstOfTwo
<1> QED
  BY <1>1, <1>4

\* Every command: its error says of the input only what is so.
LEMMA CommandIsHonest ==
  ASSUME cmd \in Commands
  PROVE  LET e == CommandScript(cmd).err
         IN  /\ CheckIsFalse /\ cmd.format # "markdown" => e # {}
             /\ e \cap ExitErrors # {} => CheckIsFalse
             /\ IsInvalidXDRError(e) /\ ~(cmd.multi /\ cmd.type # "" /\ cmd.type \notin TypeNames) =>
                  (cmd.stream /\ cmd.tail # "io.EOF") \/ Unreadable
             /\ cmd.batch /\ IsInvalidXDRError(e) => \A i \in DOMAIN cmd.files : cmd.files[i].kind = "text"
<1> DEFINE e == CommandScript(cmd).err
           names == {"decode", "explain", "diff", "result-diff", "meta-diff", "asset", "encode"}
<1>1. cmd.batch => cmd.name = "decode"
  BY SourcesAreRead DEF CommandsRead
<1>2. cmd.name \notin {"explain", "diff", "result-diff"} => ~CheckIsFalse
  BY DEF CheckIsFalse
<1>3. CASE cmd.name = "decode"
  <2>1. e = DecodeScript(cmd).err
    BY <1>3 DEF CommandScript
  <2>2. /\ \/ Honest(e)
           \/ cmd.stream /\ e = {cmd.tail} /\ cmd.tail # "io.EOF"
           \/ cmd.multi /\ cmd.type # "" /\ cmd.type \notin TypeNames /\ NoExit(e)
        /\ cmd.batch /\ IsInvalidXDRError(e) => \A i \in DOMAIN cmd.files : cmd.files[i].kind = "text"
    BY <1>3, <2>1, DecodeCommandIsHonest
  <2>3. cmd.tail \notin ExitErrors
    BY SourcesAreRead DEF CommandsRead
  <2> HIDE DEF e
  <2>4. NoExit(e)
    BY <2>2, <2>3 DEF Honest, NoExit
  <2> QED
    BY <1>2, <1>3, <2>2, <2>4, BlameIsEnough DEF Honest, NoExit, e
<1>4. CASE cmd.name = "explain"
  <2>1. e = ExplainScript(cmd).err
    BY <1>4 DEF CommandScript
  <2> QED
    BY <1>1, <1>4, <2>1, ExplainIsHonest, BlameIsEnough
<1>5. CASE cmd.name \in {"diff", "result-diff"}
  <2> DEFINE equal == IF cmd.name = "diff" THEN cmd.left.text.value = cmd.right.text.value
                      ELSE cmd.left.text.operations = cmd.right.text.operations
  <2>1. (Honest(e) /\ e # {}) \/ e = DiffGate(cmd, equal)
    <3>1. CASE cmd.name = "diff"
      BY <3>1, DiffIsHonest DEF CommandScript
    <3>2. CASE cmd.name = "result-diff"
      BY <3>2, ResultDiffIsHonest DEF CommandScript
    <3> QED
      BY <1>5, <3>1, <3>2
  <2>2. CheckIsFalse <=> (cmd.exitCode \/ cmd.quiet) /\ ~equal
    BY <1>5 DEF CheckIsFalse
  <2> HIDE DEF e, equal
  <2>3. CASE Honest(e) /\ e # {}
    BY <1>1, <1>5, <2>3, BlameIsEnough DEF Honest, NoExit, e
  <2>4. CASE e = DiffGate(cmd, equal)
    <3>1. e # {} <=> CheckIsFalse
      BY <2>2, <2>4 DEF DiffGate
    <3>2. ~IsInvalidXDRError(e)
      BY <2>4 DEF DiffGate, IsInvalidXDRError, InvalidXDRErrors
    <3> QED
      BY <3>1, <3>2 DEF e
  <2> QED
    BY <2>1, <2>3, <2>4
<1>6. CASE cmd.name = "meta-diff"
  <2>1. e = MetaDiffScript(cmd).err
    BY <1>6 DEF CommandScript
  <2> QED
    BY <1>1, <1>2, <1>6, <2>1, MetaDiffIsHonest DEF NoExit
<1>7. CASE cmd.name = "asset"
  <2>1. e = AssetScript(cmd).err
    BY <1>7 DEF CommandScript
  <2> QED
    BY <1>1, <1>2, <1>7, <2>1, AssetIsHonest DEF NoExit
<1>8. CASE cmd.name = "encode"
  <2>1. e = EncodeScript(cmd).err
    BY <1>8 DEF CommandScript
  <2> QED
    BY <1>1, <1>2, <1>8, <2>1, EncodeIsHonest DEF NoExit
<1>9. CASE cmd.name \notin names
  <2>1. e \in {{}, {"arguments"}}
    BY <1>9 DEF CommandScript, ListScript, Script, Fails
  <2>2. ~IsInvalidXDRError(e) /\ e \cap ExitErrors = {}
    BY <2>1 DEF IsInvalidXDRError, InvalidXDRErrors, ExitErrors
  <2> QED
    BY <1>2, <1>9, <2>2
<1> QED
  BY <1>3, <1>4, <1>5, <1>6, <1>7, <1>8, <1>9

-----------------------------------------------------------------------------
(***************************************************************************)
(* The status of the process.                                              *)
(***************************************************************************)

\* The command returns the error of its script, or that of a write.
Judged ==
  /\ cmd \in Commands /\ script = CommandScript(cmd)
  /\ phase \in {"writing", "closing", "exited"} => err = Intended \/ err = {"writing"}

LEMMA JudgedFromTheStart == Init => Judged
BY DEF Init, Judged

LEMMA JudgedStep == Judged /\ [Next]_vars => Judged'
<1> SUFFICES ASSUME Judged, [Next]_vars
             PROVE  Judged'
  OBVIOUS
<1> USE DEF Judged, Intended
<1>1. CASE RunE
  BY <1>1 DEF RunE
<1>2. CASE WriteChunk
  BY <1>2 DEF WriteChunk
<1>3. CASE WriteChunkFails
  BY <1>3 DEF WriteChunkFails
<1>4. CASE Return
  BY <1>4 DEF Return
<1>5. CASE Closing
  BY <1>5 DEF Closing, commandVars
<1>6. CASE Exit
  BY <1>6 DEF Exit
<1>7. CASE Crash
  BY <1>7 DEF Crash
<1>8. CASE Stopped \/ UNCHANGED vars
  BY <1>8 DEF Stopped, vars
<1> QED
  BY <1>1, <1>2, <1>3, <1>4, <1>5, <1>6, <1>7, <1>8 DEF Next

\* A process that exits with 0 had no error, and one that exits with 2 or 3
\* had that of its command.
LEMMA StatusIsOfCommand ==
  ASSUME CommandInv, Judged, Exited
  PROVE  /\ code = ExitSuccess => Intended = {}
         /\ code = ExitDiffFound => Intended \cap ExitErrors # {}
         /\ code = ExitInvalidXDR => IsInvalidXDRError(Intended)
<1>1. code = ExitCode(Outcome)
  BY DEF CommandInv, PhasesAgree, Exited
<1>2. err = Intended \/ err = {"writing"}
  BY DEF Judged, Exited
<1>3. Outcome \in {Intended, {"writing"}, {"closing"}}
  BY <1>2 DEF Outcome
<1>4. ExitCode({"writing"}) = ExitError /\ ExitCode({"closing"}) = ExitError
  BY DEF ExitCode, ExitErrors, IsInvalidXDRError, InvalidXDRErrors
<1>5. /\ ExitCode(Intended) = ExitSuccess => Intended = {}
      /\ ExitCode(Intended) = ExitDiffFound => Intended \cap ExitErrors # {}
      /\ ExitCode(Intended) = ExitInvalidXDR => IsInvalidXDRError(Intended)
  BY DEF ExitCode, ExitSuccess, ExitDiffFound, ExitInvalidXDR, ExitError
<1>6. ExitError \notin {ExitSuccess, ExitDiffFound, ExitInvalidXDR}
  BY DEF ExitSuccess, ExitDiffFound, ExitInvalidXDR, ExitError
<1> QED
  BY <1>1, <1>3, <1>4, <1>5, <1>6

\* exitcodes.go 19-21 and README.md 790-800: for every set of command lines, and
\* whatever writing and closing do, a check that came out false does not exit
\* with 0 and only such a check exits with 2; status 3 means that a text could
\* not be read as asked, and of a batch that every file was there.
THEOREM StatusIsTrue == Spec => []StatusTellsAnswer
<1>1. CommandInv /\ Judged => StatusTellsAnswer
  <2> SUFFICES ASSUME CommandInv, Judged
               PROVE  StatusTellsAnswer
    OBVIOUS
  <2> DEFINE e == Intended
  <2>1. /\ CheckIsFalse /\ cmd.format # "markdown" => e # {}
        /\ e \cap ExitErrors # {} => CheckIsFalse
        /\ IsInvalidXDRError(e) /\ ~(cmd.multi /\ cmd.type # "" /\ cmd.type \notin TypeNames) =>
             (cmd.stream /\ cmd.tail # "io.EOF") \/ Unreadable
        /\ cmd.batch /\ IsInvalidXDRError(e) => \A i \in DOMAIN cmd.files : cmd.files[i].kind = "text"
    <3>1. e = CommandScript(cmd).err /\ cmd \in Commands
      BY DEF Judged, Intended
    <3> QED
      BY <3>1, CommandIsHonest
  <2>2. ASSUME Exited
        PROVE  /\ code = ExitSuccess => e = {}
               /\ code = ExitDiffFound => e \cap ExitErrors # {}
               /\ code = ExitInvalidXDR => IsInvalidXDRError(e)
    BY <2>2, StatusIsOfCommand
  <2> HIDE DEF e
  <2>3. GateHolds
    BY <2>1, <2>2 DEF GateHolds
  <2>4. ThreeMeansUnreadable
    BY <2>1, <2>2 DEF ThreeMeansUnreadable, Unreadable
  <2>5. OneStatusForABatch
    BY <2>1, <2>2 DEF OneStatusForABatch
  <2> QED
    BY <2>3, <2>4, <2>5 DEF StatusTellsAnswer
<1>2. Spec => []Judged
  BY JudgedFromTheStart, JudgedStep, PTL DEF Spec
<1> QED
  BY <1>1, <1>2, RunInvariant, PTL

=============================================================================
