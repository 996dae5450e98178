------------------------------- MODULE NodeTree -------------------------------
(***************************************************************************)
(* The neutral tree of pkg/lens/node.go that formatters and the differ     *)
(* read instead of the decoded XDR types.                                  *)
(*                                                                         *)
(* A scalar's payload is a record: its Go type and its text, and, when the *)
(* text reads as a number, as hexadecimal or as base64, the number or the  *)
(* bytes (as a set that is empty otherwise).                               *)
(***************************************************************************)
EXTENDS Integers, Sequences, SequencesExt, FiniteSets, TLC

Payload(sort, text) == [sort |-> sort, text |-> text, num |-> {}, hex |-> {}, base64 |-> {}]
Text(text) == Payload("string", text)
Number(n) == [Payload("uint64", ToString(n)) EXCEPT !.num = {n}]
NoValue == Payload("nil", "<nil>")

Node(name, kind, type, value, note, children) ==
  [name |-> name, kind |-> kind, type |-> type, value |-> value, note |-> note, children |-> children]
Scalar(name, type, value) == Node(name, "scalar", type, value, "", << >>)
Struct(name, type, children) == Node(name, "struct", type, NoValue, "", children)
List(name, type, children) == Node(name, "list", type, NoValue, "", children)

\* The nil pointer.
NoNode == Node("", "nil", "", NoValue, "", << >>)
IsNil(n) == n.kind = "nil"

\* Child: the first child of that name.
Child(n, name) ==
  LET named == SelectSeq(n.children, LAMBDA c : c.name = name)
  IN  IF named = << >> THEN NoNode ELSE Head(named)
HasChild(n, name) == \E i \in DOMAIN n.children : n.children[i].name = name

\* A path is a sequence of segments, each a field or an index.
Field(name) == [name |-> name, index |-> -1]
Index(i) == [name |-> "", index |-> i]
JoinPath(path, name) == IF name = "" THEN path ELSE Append(path, Field(name))
AtIndex(path, i) == Append(path, Index(i))

RECURSIVE Find(_, _)
Find(n, path) ==
  IF path = << >> \/ IsNil(n) THEN n
  ELSE LET segment == Head(path)
       IN  Find(IF segment.index < 0 THEN Child(n, segment.name)
                ELSE IF segment.index < Len(n.children) THEN n.children[segment.index + 1]
                ELSE NoNode, Tail(path))

\* How a node is named in a change and in a label.
LeafValue(n) ==
  CASE n.kind = "scalar" -> n.value.text
    [] n.kind = "list" -> "[" \o ToString(Len(n.children)) \o " item(s)]"
    [] n.kind = "struct" -> "{" \o (IF n.type = "" THEN "..." ELSE n.type) \o "}"
    [] OTHER -> "(none)"
NodeString(n) ==
  CASE n.kind = "scalar" /\ n.value = NoValue -> n.note
    [] n.kind = "scalar" -> n.value.text \o (IF n.note = "" THEN "" ELSE " (" \o n.note \o ")")
    [] n.kind = "list" -> LeafValue(n)
    [] OTHER -> IF n.type = "" THEN "{...}" ELSE n.type

\* Every path of a tree, in document order.
RECURSIVE PathsUnder(_, _)
PathsUnder(n, path) ==
  LET below(i) == PathsUnder(n.children[i], IF n.kind = "list" THEN AtIndex(path, i - 1)
                                            ELSE JoinPath(path, n.children[i].name))
  IN  {path} \cup UNION {below(i) : i \in DOMAIN n.children}

-----------------------------------------------------------------------------
(***************************************************************************)
(* FilterByAccount and FilterByOpType: the decode command's --filter.      *)
(***************************************************************************)
IsAccount(n, account) ==
  /\ n.kind = "scalar" /\ n.type \in {"AccountId", "MuxedAccount"}
  /\ n.note = account \/ (n.value.sort = "string" /\ n.value.text = account)

RECURSIVE MentionsAccount(_, _)
MentionsAccount(n, account) ==
  IsAccount(n, account) \/ \E i \in DOMAIN n.children : MentionsAccount(n.children[i], account)

Kept(children) == SelectSeq(children, LAMBDA c : ~IsNil(c))

RECURSIVE FilterNode(_, _)
FilterNode(n, account) ==
  IF ~MentionsAccount(n, account) THEN NoNode
  ELSE [n EXCEPT !.children = Kept([i \in DOMAIN n.children |-> FilterNode(n.children[i], account)])]

FilterByAccount(root, account) == IF account = "" THEN root ELSE FilterNode(root, account)

\* opMatchesType compares the discriminant of the operation's body, with its
\* prefix removed and in snake case.
OpMatchesType(n, snakeOf, type) ==
  LET discriminant == Child(Child(n, "Body"), "Type")
  IN  n.kind = "struct" /\ ~IsNil(discriminant) /\ discriminant.value # NoValue
      /\ snakeOf[discriminant.value.text] = type

RECURSIVE FilterOps(_, _, _)
FilterOps(n, snakeOf, type) ==
  LET below == IF n.kind = "list" /\ (n.type = "Operation" \/ n.name = "Operations")
                 THEN SelectSeq(n.children, LAMBDA c : OpMatchesType(c, snakeOf, type))
                 ELSE Kept([i \in DOMAIN n.children |-> FilterOps(n.children[i], snakeOf, type)])
  IN  IF n.kind = "struct" /\ n.type = "Operation"
        THEN IF OpMatchesType(n, snakeOf, type) THEN n ELSE NoNode
        ELSE IF below = << >> /\ n.kind # "scalar" THEN NoNode ELSE [n EXCEPT !.children = below]

FilterByOpType(root, snakeOf, type) == IF type = "" THEN root ELSE FilterOps(root, snakeOf, type)
=============================================================================
