------------------------------ MODULE OutputSink ------------------------------
(***************************************************************************)
(* internal/cli/output.go: where a command's report goes.  A report for a  *)
(* file is written beside it and renamed over it when the command has      *)
(* succeeded.  Any call to the file system may fail, and the process or    *)
(* the machine may stop between any two of them.                           *)
(***************************************************************************)
EXTENDS Naturals, Sequences

VARIABLES
  dest,      \* "discard", "base" or "file": what the flags ask for
  writer,    \* "none" until the first write, then dest
  handle,    \* is the temporary file open?
  tempPath,  \* does the sink still know the temporary file?
  sinkErr,   \* the remembered failure of opening
  closing,   \* how far Close is: "open", "sync", "close", "chmod", "rename", "closed"
  closeErr,  \* did Close fail?
  temp,      \* the temporary file: its content and how much of it is on the disk
  target,    \* the file the user named
  stdout     \* what reached standard output

sinkVars == <<dest, writer, handle, tempPath, sinkErr, closing, closeErr, temp, target, stdout>>

NoFile == [there |-> FALSE, data |-> << >>, synced |-> 0]
NewFile == [there |-> TRUE, data |-> << >>, synced |-> 0]
Previous == [there |-> TRUE, data |-> <<[what |-> "previous", id |-> "", checked |-> TRUE]>>, synced |-> 1]

SinkInit ==
  /\ dest \in {"discard", "base", "file"}
  /\ writer = "none" /\ handle = FALSE /\ tempPath = FALSE /\ sinkErr = FALSE
  /\ closing = "open" /\ closeErr = FALSE
  /\ temp = NoFile /\ target = Previous /\ stdout = << >>

-----------------------------------------------------------------------------
(***************************************************************************)
(* Write.                                                                  *)
(***************************************************************************)
\* The destination is chosen on the first write.  Creating the file may fail,
\* which is remembered.
Opens == writer = "none" /\ ~sinkErr

OpenFails ==
  /\ Opens /\ dest = "file"
  /\ sinkErr' = TRUE
  /\ UNCHANGED <<dest, writer, handle, tempPath, closing, closeErr, temp, target, stdout>>

\* Later writes get the remembered failure.
WriteRefused ==
  /\ sinkErr
  /\ UNCHANGED sinkVars

\* A write of chunk that the destination takes.
WriteAccepted(chunk) ==
  /\ ~sinkErr
  /\ writer' = dest
  /\ IF Opens /\ dest = "file" THEN handle' = TRUE /\ tempPath' = TRUE
                               ELSE UNCHANGED <<handle, tempPath>>
  /\ temp' = IF dest # "file" THEN temp
             ELSE LET file == IF Opens THEN NewFile ELSE temp
                  IN  [file EXCEPT !.data = Append(@, chunk)]
  /\ stdout' = IF dest = "base" THEN Append(stdout, chunk) ELSE stdout
  /\ UNCHANGED <<dest, sinkErr, closing, closeErr, target>>

\* A write that the destination refuses: a full disk, a closed pipe.
WriteFails ==
  /\ ~sinkErr /\ dest # "discard"
  /\ writer' = dest
  /\ IF Opens /\ dest = "file" THEN handle' = TRUE /\ tempPath' = TRUE /\ temp' = NewFile
                               ELSE UNCHANGED <<handle, tempPath, temp>>
  /\ UNCHANGED <<dest, sinkErr, closing, closeErr, target, stdout>>

-----------------------------------------------------------------------------
(***************************************************************************)
(* Close.                                                                  *)
(***************************************************************************)

\* The failure of removing the file is ignored, and it stays.
Discard ==
  /\ handle' = FALSE /\ tempPath' = FALSE
  /\ IF tempPath THEN temp' \in {NoFile, temp} ELSE UNCHANGED temp

StartClose(success) ==
  /\ closing = "open"
  /\ IF sinkErr THEN /\ Discard
                     /\ closing' = "closed" /\ closeErr' = TRUE
     ELSE IF ~handle THEN closing' = "closed" /\ UNCHANGED <<closeErr, handle, tempPath, temp>>
     ELSE IF ~success THEN Discard /\ closing' = "closed" /\ UNCHANGED closeErr
     ELSE closing' = "sync" /\ UNCHANGED <<closeErr, handle, tempPath, temp>>
  /\ UNCHANGED <<dest, writer, sinkErr, target, stdout>>

CloseStepFails ==
  /\ closing \in {"sync", "close", "chmod", "rename"}
  /\ Discard /\ closing' = "closed" /\ closeErr' = TRUE
  /\ UNCHANGED <<dest, writer, sinkErr, target, stdout>>

SyncUnflushed == closing = "sync" /\ closing' = "close" /\ UNCHANGED temp

Sync ==
  /\ closing = "sync" /\ closing' = "close"
  /\ temp' = [temp EXCEPT !.synced = Len(temp.data)]

SyncFile == Sync /\ UNCHANGED <<dest, writer, handle, tempPath, sinkErr, closeErr, target, stdout>>

CloseHandle ==
  /\ closing = "close" /\ closing' = "chmod" /\ handle' = FALSE
  /\ UNCHANGED <<dest, writer, tempPath, sinkErr, closeErr, temp, target, stdout>>

Chmod ==
  /\ closing = "chmod" /\ closing' = "rename"
  /\ UNCHANGED <<dest, writer, handle, tempPath, sinkErr, closeErr, temp, target, stdout>>

\* Rename is atomic: the name stands for the old file or the new one.
Rename ==
  /\ closing = "rename" /\ closing' = "closed"
  /\ target' = temp /\ temp' = NoFile /\ tempPath' = FALSE
  /\ UNCHANGED <<dest, writer, handle, sinkErr, closeErr, stdout>>

CloseStep == CloseStepFails \/ SyncFile \/ CloseHandle \/ Chmod \/ Rename

-----------------------------------------------------------------------------
(***************************************************************************)
(* What a crash leaves.  Files survive a killed process; a machine that    *)
(* stops may lose what was not synchronised, also of a file renamed since, *)
(* and the renaming itself.                                                *)
(***************************************************************************)
Surviving(file) ==
  {[file EXCEPT !.data = SubSeq(@, 1, n), !.synced = n] : n \in file.synced .. Len(file.data)}

SinkCrash ==
  /\ temp' \in Surviving(temp)
  /\ target' \in Surviving(target) \cup {Previous}
  /\ closing' = "crashed"
  /\ UNCHANGED <<dest, writer, handle, tempPath, sinkErr, closeErr, stdout>>
=============================================================================
