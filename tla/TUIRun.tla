-------------------------------- MODULE TUIRun --------------------------------
(***************************************************************************)
(* TUITree.Run: it draws, reads a key from a bufio.Reader and handles it,  *)
(* until q, Ctrl+C, the end of input or an error.                          *)
(*                                                                         *)
(* The bytes are those still to be read; each says whether it is the last  *)
(* of what one Read of the terminal returned, which is all that            *)
(* reader.Buffered can tell.                                               *)
(***************************************************************************)
EXTENDS TUITree, Sequences

CONSTANTS
  TypedBytes,   \* bytes that may be typed
  Inputs        \* the sequences of them that are

ASSUME InputsAssumption == Inputs \subseteq Seq(TypedBytes)

VARIABLES
  typed,    \* bytes not yet read: records of a byte and an end-of-read flag
  heard,    \* history: the bytes that were read
  ending,   \* what follows them: "eof" or "ioerr"
  status    \* "reading", or how Run ended: "quit", "eof", "error"

runVars == <<expanded, rows, cursor, scrollOffset, height, filter, quit,
             typed, heard, ending, status>>

-----------------------------------------------------------------------------
(***************************************************************************)
(* readKey: the key, how many bytes it took, and whether the reader failed.*)
(***************************************************************************)
Plain == [b \in {"CR", "LF", "SP", "TAB", "ETX"} |->
  CASE b \in {"CR", "LF"} -> "enter" [] b = "SP" -> "space"
    [] b = "TAB" -> "tab" [] OTHER -> "ctrl+c"]

Arrow == [b \in {"A", "B", "C", "D", "H", "F"} |->
  CASE b = "A" -> "up" [] b = "B" -> "down" [] b = "C" -> "right"
    [] b = "D" -> "left" [] b = "H" -> "home" [] OTHER -> "end"]

Byte(i) == typed[i].byte
Key(name, n) == [key |-> name, used |-> n, failed |-> FALSE]
Broken(n)    == [key |-> "none", used |-> n, failed |-> TRUE]

ReadEscapePair ==
  IF Len(typed) < 2 THEN Broken(1) ELSE Key("esc", 2)

\* After an escape byte that was not the last of its read.
ReadEscape ==
  IF Len(typed) < 2 THEN Broken(1)
  ELSE IF Byte(2) # "[" THEN Key("esc", 2)
  ELSE IF Len(typed) < 3 THEN Broken(2)
  ELSE IF Byte(3) \in DOMAIN Arrow THEN Key(Arrow[Byte(3)], 3)
  ELSE Key("esc", 3)

ReadKey ==
  IF typed = << >> THEN Broken(0)
  ELSE IF Byte(1) \in DOMAIN Plain THEN Key(Plain[Byte(1)], 1)
  ELSE IF Byte(1) = "ESC" THEN (IF typed[1].ends THEN Key("esc", 1) ELSE ReadEscape)
  ELSE Key(Byte(1), 1)

Rest(n) == SubSeq(typed, n + 1, Len(typed))

\* n bytes leave the reader.
Take(n) ==
  /\ typed' = Rest(n)
  /\ heard' = heard \o [i \in 1 .. n |-> Byte(i)]

\* Handles one key.  A slash comes alone, so it is a search for nothing.
HandleNext ==
  /\ status = "reading" /\ ~quit /\ ~ReadKey.failed
  /\ Take(ReadKey.used)
  /\ IF ReadKey.key = "/" THEN SetFilter(NoFilter) ELSE HandleKey(ReadKey.key)
  /\ UNCHANGED <<ending, status>>

\* The loop's condition.
StopOnQuit ==
  /\ status = "reading" /\ quit
  /\ status' = "quit"
  /\ UNCHANGED <<treeVars, typed, heard, ending>>

\* The end of the input ends Run without an error, within a key too.
StopOnReadError ==
  /\ status = "reading" /\ ~quit /\ ReadKey.failed
  /\ Take(ReadKey.used)
  /\ status' = IF ending = "eof" THEN "eof" ELSE "error"
  /\ UNCHANGED <<treeVars, ending>>

\* The screen cannot be written, which Run tries before every key.
StopOnRenderError ==
  /\ status = "reading" /\ ~quit
  /\ status' = "error"
  /\ UNCHANGED <<treeVars, typed, heard, ending>>

RunInit ==
  /\ NewTUITree
  /\ \E text \in Inputs : \E pieces \in [DOMAIN text -> BOOLEAN] :
       typed = [i \in DOMAIN text |-> [byte |-> text[i], ends |-> pieces[i]]]
  /\ heard = << >>
  /\ ending \in {"eof", "ioerr"} /\ status = "reading"

RunNext == HandleNext \/ StopOnQuit \/ StopOnReadError \/ StopOnRenderError

RunSpec == RunInit /\ [][RunNext]_runVars

-----------------------------------------------------------------------------
(***************************************************************************)
(* Properties.                                                             *)
(***************************************************************************)
\* An arrow typed in one piece is one key: none of its bytes is handled as a
\* command of its own, so the cursor keys never toggle, collapse or quit.
ArrowsAreWhole ==
  [][typed # << >> /\ Byte(1) = "ESC" /\ ~typed[1].ends /\ Len(typed) >= 3
       /\ Byte(2) = "[" /\ Byte(3) \in {"A", "B"} /\ typed' # typed =>
     /\ typed' = Rest(3)
     /\ UNCHANGED <<expanded, rows, filter, quit>>]_runVars

\* Whether text is arrows, the last perhaps cut short, of the given kinds.
ArrowsOf(text, kinds) ==
  \A i \in DOMAIN text :
    CASE i % 3 = 1 -> text[i] = "ESC"
      [] i % 3 = 2 -> text[i] = "["
      [] OTHER     -> text[i] \in kinds

\* An arrow that the terminal delivers in pieces is taken for an escape and two
\* letters (readKey asks Buffered once, after the escape byte).  That may lose
\* it, but it does nothing else: however arrows are split, and wherever the
\* input breaks off, they never quit, up, down and home expand or collapse
\* nothing, and the cursor is not further down than there were downs.
SplitArrowsOnlyMove ==
  /\ ArrowsOf(heard, DOMAIN Arrow) => ~quit /\ filter = NoFilter
  /\ ArrowsOf(heard, {"A", "B", "H"}) =>
       /\ expanded = InitiallyExpanded
       /\ cursor <= Cardinality({i \in DOMAIN heard : heard[i] = "B"})

=============================================================================
