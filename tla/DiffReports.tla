------------------------------- MODULE DiffReports -------------------------------
(***************************************************************************)
(* What is made of a list of changes: the summary line of diff.go, the     *)
(* statistics of diff_stats.go and the JSON patch of format/json_patch.go. *)
(***************************************************************************)
EXTENDS StructuralDiff

CountOf(changes, ops) == Len(SelectSeq(changes, LAMBDA c : c.op \in ops))

\* DiffResult.Summary: a changed type counts as changed.
Summary(changes) ==
  [changed |-> CountOf(changes, {"modified", "type_changed"}), added |-> CountOf(changes, {"added"}),
   removed |-> CountOf(changes, {"removed"}), reordered |-> CountOf(changes, {"reordered"})]

\* addChange: a reordered element counts as modified.
Counts(changes) ==
  [modified |-> CountOf(changes, {"modified", "reordered"}), added |-> CountOf(changes, {"added"}),
   removed |-> CountOf(changes, {"removed"}), typeChanged |-> CountOf(changes, {"type_changed"}),
   total |-> Len(changes)]

TopLevelSection(path) ==
  CASE path = << >> -> "(root)"
    [] path # << >> /\ Head(path).index >= 0 -> "[" \o ToString(Head(path).index) \o "]"
    [] OTHER -> Head(path).name

\* An index written after a field is part of the field's segment.
PathDepth(path) ==
  Cardinality({k \in DOMAIN path : path[k].index < 0 \/ k = 1 \/ path[k - 1].index >= 0})

\* SummarizeChanges: totals, sections in order of appearance, and the first of
\* the deepest paths.
SummarizeChanges(changes) ==
  LET section(i) == TopLevelSection(changes[i].path)
      starts == SelectSeq([i \in DOMAIN changes |-> i], LAMBDA i : \A j \in 1..(i - 1) : section(j) # section(i))
      deepest == {i \in DOMAIN changes : \A j \in DOMAIN changes :
                    LET x == PathDepth(changes[i].path) y == PathDepth(changes[j].path)
                    IN  x > y \/ (x = y /\ i <= j)}
  IN  [counts |-> Counts(changes),
       sections |-> [k \in DOMAIN starts |->
         [path |-> section(starts[k]),
          counts |-> Counts(SelectSeq(changes, LAMBDA c : TopLevelSection(c.path) = section(starts[k])))]],
       deepest |-> {changes[i].path : i \in deepest}]

-----------------------------------------------------------------------------
(***************************************************************************)
(* JSON documents are trees without types and notes; convertNode drops the *)
(* members without a name and keeps the last of those that share one.      *)
(***************************************************************************)
RECURSIVE ConvertNode(_)
ConvertNode(n) ==
  LET last(i) == n.children[i].name # "" /\ ~\E j \in DOMAIN n.children : j > i /\ n.children[j].name = n.children[i].name
      kept == IF n.kind = "list" THEN [i \in DOMAIN n.children |-> i]
              ELSE SelectSeq([i \in DOMAIN n.children |-> i], last)
  IN  [n EXCEPT !.type = "", !.note = "",
                !.children = [k \in DOMAIN kept |-> ConvertNode(n.children[kept[k]])]]

\* The same document, but for the notation of bytes.
RECURSIVE SameJSON(_, _)
SameJSON(x, y) ==
  \/ NodesBinaryEqual(x, y)
  \/ /\ x.kind = y.kind /\ x.value = y.value /\ Len(x.children) = Len(y.children)
     /\ \A i \in DOMAIN x.children :
       IF x.kind = "list" THEN SameJSON(x.children[i], y.children[i])
       ELSE HasChild(y, x.children[i].name) /\ SameJSON(x.children[i], Child(y, x.children[i].name))

\* operation: a change as an operation of the patch.  Its value is taken from
\* the right tree when the path leads somewhere there.
OpName(op) == CASE op = "added" -> "add" [] op = "removed" -> "remove" [] OTHER -> "replace"
PatchValueShown(right, change) ==
  IF change.op = "removed" THEN NoNode ELSE Scalar("", "", Text(change.after[1]))
PatchValue(right, change) ==
  LET node == Find(right, change.path)
  IN  CASE change.op = "removed" -> NoNode
        [] change.op # "removed" /\ ~IsNil(node) -> ConvertNode(node)
        [] OTHER -> Scalar("", "", Text(change.after[1]))
PatchOperation(right, change) ==
  [op |-> OpName(change.op), path |-> change.path, value |-> PatchValue(right, change)]
Patch(right, changes) == [i \in DOMAIN changes |-> PatchOperation(right, changes[i])]

\* The application of a patch, as RFC 6902 defines it: no document when an
\* operation has no target.
SetMember(doc, i, value) == [doc EXCEPT !.children[i] = [value EXCEPT !.name = doc.children[i].name]]
ApplyHere(doc, token, p) ==
  LET at == IF doc.kind = "list" THEN {i \in {token.index + 1} : i \in DOMAIN doc.children}
            ELSE {i \in DOMAIN doc.children : doc.children[i].name = token.name}
      value == [p.value EXCEPT !.name = token.name]
  IN  CASE p.op = "add" /\ doc.kind = "list" ->
             {[doc EXCEPT !.children = InsertAt(doc.children, i, value)] :
                i \in {token.index + 1} \cap 1..(Len(doc.children) + 1)}
        [] p.op = "add" /\ doc.kind = "struct" /\ at = {} -> {[doc EXCEPT !.children = Append(@, value)]}
        [] p.op = "remove" -> {[doc EXCEPT !.children = RemoveAt(doc.children, i)] : i \in at}
        [] OTHER -> {SetMember(doc, i, p.value) : i \in at}

RECURSIVE ApplyOperation(_, _, _)
ApplyOperation(doc, path, p) ==
  CASE path = << >> -> IF p.op = "remove" THEN {} ELSE {p.value}
    [] Len(path) = 1 -> ApplyHere(doc, path[1], p)
    [] OTHER ->
         LET at == IF doc.kind = "list" THEN {path[1].index + 1} \cap DOMAIN doc.children
                   ELSE {i \in DOMAIN doc.children : doc.children[i].name = path[1].name}
         IN  UNION {{SetMember(doc, i, d) : d \in ApplyOperation(doc.children[i], Tail(path), p)} : i \in at}

ApplyPatch(doc, patch) ==
  FoldLeft(LAMBDA docs, p : UNION {ApplyOperation(d, p.path, p) : d \in docs}, {doc}, patch)
=============================================================================
