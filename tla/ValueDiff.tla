-------------------------------- MODULE ValueDiff --------------------------------
(***************************************************************************)
(* One comparison of two decoded values: the passes of DiffWithOptions     *)
(* (pkg/lens/diff.go) in the order they run, and its reports.              *)
(***************************************************************************)
EXTENDS DiffReports

CONSTANT Families  \* records of the values to compare and the options to try

VARIABLES
  left, right, options,  \* what is compared
  pass,                  \* the next pass, "done" or "failed"
  nodes,                 \* the two trees as prepared so far
  redacted,              \* the paths that were redacted
  changes, warnings      \* the result so far

vars == <<left, right, options, pass, nodes, redacted, changes, warnings>>

Init ==
  /\ \E f \in Families : left \in f.values /\ right \in f.values /\ options \in f.options
  /\ pass = "prepare" /\ nodes = << >> /\ redacted = {} /\ changes = << >> /\ warnings = {}

-----------------------------------------------------------------------------
\* Masks are combined, and Soroban values rebuilt for a semantic comparison.
Prepared(v) == IF options.semantic THEN NodeForValue(v) ELSE {v.node}
Prepare ==
  /\ pass = "prepare" /\ pass' = "redact"
  /\ options' = [options EXCEPT !.mask = CombinedMask(options.mask, options.maskPaths)]
  /\ \E l \in Prepared(left), r \in Prepared(right) : nodes' = <<l, r>>
  /\ UNCHANGED <<left, right, redacted, changes, warnings>>

\* A Soroban value that cannot be rebuilt is an error, and there is no result.
PrepareFails ==
  /\ pass = "prepare" /\ pass' = "failed"
  /\ Prepared(left) = {} \/ Prepared(right) = {}
  /\ UNCHANGED <<left, right, options, nodes, redacted, changes, warnings>>

\* Both sides are redacted before they are compared.
RedactLeft ==
  /\ pass = "redact" /\ pass' = "walk"
  /\ nodes' = <<RedactNode(nodes[1], options.redaction), nodes[2]>>
  /\ redacted' = RedactedPaths(nodes[1], options.redaction, << >>)
  /\ UNCHANGED <<left, right, options, changes, warnings>>
Redact ==
  /\ pass = "redact" /\ pass' = "walk"
  /\ nodes' = <<RedactNode(nodes[1], options.redaction), RedactNode(nodes[2], options.redaction)>>
  /\ redacted' = UNION {RedactedPaths(nodes[s], options.redaction, << >>) : s \in {1, 2}}
  /\ UNCHANGED <<left, right, options, changes, warnings>>

Walk ==
  /\ pass = "walk" /\ pass' = "filter"
  /\ changes' = DiffNodes(nodes[1], nodes[2], << >>, options)
  /\ UNCHANGED <<left, right, options, nodes, redacted, warnings>>

Filter ==
  /\ pass = "filter" /\ pass' = "quorum"
  /\ changes' = FilterChanges(changes, options.filter)
  /\ UNCHANGED <<left, right, options, nodes, redacted, warnings>>

\* extractAccountEntry: the decoded entry, or what the tree says of one.
DecodedAccount(v) ==
  CASE v.raw /\ v.type = "AccountEntry" -> {v.node}
    [] v.raw /\ v.type = "LedgerEntry" -> {c \in {Child(Child(v.node, "Data"), "Account")} : ~IsNil(c)}
    [] OTHER -> {}
AccountEntry(v, n) ==
  IF DecodedAccount(v) # {} THEN {AccountOf(a) : a \in DecodedAccount(v)}
  ELSE IF HasAccount(n) THEN {AccountOf(n)} ELSE {}

PowerOf(accounts) == IF accounts = {} THEN 0 ELSE SigningPower(CHOOSE a \in accounts : TRUE)
PowerPath == <<Field("Thresholds"), Field("EffectiveSigningPower")>>

PowerChangesOfBoth(l, r) ==
  IF l = {} \/ r = {} THEN << >>
  ELSE IF PowerOf(l) = PowerOf(r) THEN << >>
  ELSE <<Change(PowerPath, "modified", <<ToString(PowerOf(l))>>, <<ToString(PowerOf(r))>>)>>
PowerChanges(l, r) ==
  IF PowerOf(l) = PowerOf(r) THEN << >>
  ELSE <<Change(PowerPath, "modified", <<ToString(PowerOf(l))>>, <<ToString(PowerOf(r))>>)>>

\* analyzeAccountQuorum runs last, whatever was masked or filtered out.
AnalyzeQuorum ==
  /\ pass = "quorum" /\ pass' = "done"
  /\ LET l == AccountEntry(left, nodes[1]) r == AccountEntry(right, nodes[2])
     IN  /\ changes' = changes \o PowerChanges(l, r)
         /\ warnings' = UNION {QuorumWarnings(a) : a \in r}
  /\ UNCHANGED <<left, right, options, nodes, redacted>>

Stopped == pass \in {"done", "failed"} /\ UNCHANGED vars

Next == Prepare \/ PrepareFails \/ Redact \/ Walk \/ Filter \/ AnalyzeQuorum \/ Stopped
Spec == Init /\ [][Next]_vars

-----------------------------------------------------------------------------
(***************************************************************************)
(* Properties.                                                             *)
(***************************************************************************)
Done == pass = "done"
Texts(c) == ToSet(c.before) \cup ToSet(c.after)
IsPrefixOf(p, q) == Len(p) <= Len(q) /\ SubSeq(q, 1, Len(p)) = p
IsHeader(c) == c.path = PowerPath \/ (c.path # << >> /\ Last(c.path) = Field("LedgerKey"))
               \/ c.before \in {<<"CREATED">>, <<"UPDATED">>, <<"DELETED">>}
Walked == SelectSeq(changes, LAMBDA c : ~IsHeader(c))

\* Nodes below which elements are matched by content, not by place.
RECURSIVE HasUnorderedList(_)
HasUnorderedList(n) ==
  \/ n.name = "Operations"
  \/ n.kind = "list" /\ \E i \in DOMAIN n.children : IsEventNode(n.children[i])
  \/ \E i \in DOMAIN n.children : HasUnorderedList(n.children[i])
ByPlace == ~options.align /\ ~options.unordered /\ ~HasUnorderedList(left.node) /\ ~HasUnorderedList(right.node)
Exact == options.threshold = 0 /\ options.redaction = NoRedaction

\* Two scalars that say the same: the same text, or the same bytes.
SameText(x, y) ==
  x.value.text = y.value.text \/ (x.value.hex \cup x.value.base64) \cap (y.value.hex \cup y.value.base64) # {}
SameHere(x, y) == x.kind = y.kind /\ x.value.sort = y.value.sort /\ (x.kind = "scalar" => SameText(x, y))
DifferingPaths(x, y) ==
  {p \in PathsUnder(x, << >>) \cup PathsUnder(y, << >>) : ~SameHere(Find(x, p), Find(y, p))}

\* Type invariant: a change has texts on the sides its kind says.
DiffTypeOK ==
  /\ pass \in {"prepare", "redact", "walk", "filter", "quorum", "done", "failed"}
  /\ warnings \subseteq {"medium", "high"}
  /\ \A i \in DOMAIN changes :
       /\ changes[i].op \in {"added", "removed", "modified", "type_changed", "reordered"}
       /\ (changes[i].before = Nothing) = (changes[i].op = "added")
       /\ (changes[i].after = Nothing) = (changes[i].op = "removed")

\* diff.go 80-92: every path at which the values differ lies on the path of a
\* change, so that values without changes are the same.  (A list of bytes and
\* a text with those bytes are the same.)
EveryDifferenceLocated ==
  Done /\ ByPlace /\ Exact /\ options.mask = NoFilter /\ options.filter = NoFilter =>
    \A p \in DifferingPaths(nodes[1], nodes[2]) :
      \/ \E i \in DOMAIN changes : IsPrefixOf(changes[i].path, p) \/ IsPrefixOf(p, changes[i].path)
      \/ \E k \in 0..Len(p) : NodesBinaryEqual(Find(nodes[1], SubSeq(p, 1, k)), Find(nodes[2], SubSeq(p, 1, k)))

\* A change leads to what it reports.  Its path is that of the right value, and the
\* text after it is the one that stands there; the text before it stands at the same
\* place on the left.  Elements that are matched by what they hold (diff.go:1329,
\* 1520) may have another index there, one and the same for every change below the
\* element; a whole element that is gone has its own index on the left.
MatchedList(n) ==
  n.kind = "list" /\ (options.align \/ n.name = "Operations" \/ \E i \in DOMAIN n.children : IsEventNode(n.children[i]))
ElementOf(c) ==
  {k \in DOMAIN c.path : c.path[k].index >= 0 /\ MatchedList(Find(nodes[2], SubSeq(c.path, 1, k - 1)))}
Shown(n) == <<IF n.type = "Memo" THEN MemoArm(n).value.text ELSE LeafValue(n)>>
ResolvesAt(c, path) ==
  /\ c.op # "added" => ~IsNil(Find(nodes[1], path)) /\ c.before = Shown(Find(nodes[1], path))
  /\ c.op # "removed" => ~IsNil(Find(nodes[2], c.path)) /\ c.after = Shown(Find(nodes[2], c.path))
Below(c, k) == {d \in ToSet(Walked) : Len(d.path) > k /\ SubSeq(d.path, 1, k) = SubSeq(c.path, 1, k)}
ChangesResolve ==
  Done /\ ~options.unordered => \A c \in ToSet(Walked) :
    CASE c.op = "reordered" ->
           /\ c.after = <<ToString(Last(c.path).index)>>
           /\ \E i \in DOMAIN Find(nodes[1], Front(c.path)).children :
                /\ c.before = <<ToString(i - 1)>>
                /\ Find(nodes[1], Front(c.path)).children[i] = Find(nodes[2], c.path)
      [] c.op # "reordered" /\ (\E k \in ElementOf(c) : k < Len(c.path)) ->
           \A k \in ElementOf(c) :
             \E i \in DOMAIN Find(nodes[1], SubSeq(c.path, 1, k - 1)).children :
               \A d \in Below(c, k) : ResolvesAt(d, [d.path EXCEPT ![k] = Index(i - 1)])
      [] OTHER -> ResolvesAt(c, c.path)

\* Which side is the left one makes no difference to whether they are equal.
EqualIsSymmetric ==
  pass = "filter" => (changes = << >>) = (DiffNodes(nodes[2], nodes[1], << >>, options) = << >>)

\* diff.go 155-158: a mask takes away the differences at and below the paths it
\* names, and no other.  (Reordered operations, the headers of ledger entries
\* and the signing power are not subject to it.)
MaskOnlyRemoves ==
  pass = "filter" /\ options.mask # NoFilter /\ options.mask.excludes = {} =>
    LET unmasked == DiffNodes(nodes[1], nodes[2], << >>, [options EXCEPT !.mask = NoFilter])
        kept(c) == ~\E p \in options.mask.includes : MatchSegments(p, c.path)
        walked(cs) == SelectSeq(cs, LAMBDA c : c.op # "reordered" /\ ~IsHeader(c))
    IN  walked(changes) = SelectSeq(walked(unmasked), kept)

\* diff_redact.go 11-24: after redaction no change shows a redacted text, and
\* differences that remain are reported as they would be without.
RECURSIVE Secrets(_)
Secrets(n) ==
  IF PlaceholderFor(options.redaction, n) # {} THEN {n.value.text}
  ELSE UNION {Secrets(n.children[i]) : i \in DOMAIN n.children}
RedactionHides ==
  Done /\ Enabled(options.redaction) =>
    LET secrets == (Secrets(left.node) \cup Secrets(right.node)) \ {NoValue.text}
    IN  /\ \A i \in DOMAIN changes : Texts(changes[i]) \cap secrets = {}
        /\ left.node.kind = "struct" /\ ByPlace =>
             \A i \in DOMAIN left.node.children :
               LET l == left.node.children[i] r == Child(right.node, l.name)
               IN  l.kind = "scalar" /\ r.kind = "scalar" /\ l.type = r.type /\ l.value.text # r.value.text /\ l.value.hex = {}
                   => (PlaceholderFor(options.redaction, l) = {}) =
                      (\E k \in DOMAIN changes : changes[k].path = <<Field(l.name)>>)

\* diff.go 1266-1268: an operation that is on both sides is never reported as
\* removed and added, and operations that only changed places are reported as
\* just that.
OperationsOf(v) == Child(v.node, "Operations").children
OperationsMatched ==
  Done /\ OperationsOf(left) # << >> /\ options = NoOptions =>
    LET l == OperationsOf(left) r == OperationsOf(right)
        count(list, x) == Cardinality({i \in DOMAIN list : list[i] = x})
        reordered == {i \in DOMAIN changes : changes[i].op = "reordered"}
        whole(c) == Len(c.path) = 2 /\ c.op \in {"added", "removed"}
        at(list, c) == list[Last(c.path).index + 1]
    IN  /\ (changes = << >>) = (l = r)
        /\ (\A x \in ToSet(l) \cup ToSet(r) : count(l, x) = count(r, x)) => reordered = DOMAIN changes
        /\ \A i \in DOMAIN changes : whole(changes[i]) =>
             IF changes[i].op = "added"
               THEN count(r, at(r, changes[i])) > count(l, at(r, changes[i]))
               ELSE count(l, at(l, changes[i])) > count(r, at(l, changes[i]))

\* diff.go 131-134: an aligned comparison keeps as many elements as any
\* alignment could, so an insertion is reported as one.
CommonSubsequences(l, r) ==
  {k \in SUBSET ((DOMAIN l) \X (DOMAIN r)) :
     /\ \A p \in k : SameNode(l[p[1]], r[p[2]], options)
     /\ \A p, q \in k : p = q \/ (p[1] < q[1] /\ p[2] < q[2]) \/ (q[1] < p[1] /\ q[2] < p[2])}
AlignmentKeepsMost ==
  Done /\ options.align /\ left.node.kind = "list" /\ right.node.kind = "list" =>
    LET l == left.node.children r == right.node.children
    IN  l # << >> /\ r # << >> /\ Len(l) * Len(r) <= MaxAlignmentCells =>
          \A k \in CommonSubsequences(l, r) : Len(changes) <= Len(l) + Len(r) - 2 * Cardinality(k)

\* diff.go 1474-1476: events are paired by contract and topics: logs without
\* changes hold the same events, and an event that is reported as gone has no
\* counterpart left among those reported as new.
EventsOf(v) == v.node.children
EventsMatched ==
  Done /\ left.type = "Events" =>
    LET l == EventsOf(left) r == EventsOf(right)
        count(list, x) == Cardinality({i \in DOMAIN list : list[i] = x})
        at(list, c) == list[Last(c.path).index + 1]
    IN  /\ changes = << >> => \A x \in ToSet(l) \cup ToSet(r) : count(l, x) = count(r, x)
        /\ \A i, j \in DOMAIN changes :
             Len(changes[i].path) = 1 /\ changes[i].op = "removed" /\ Len(changes[j].path) = 1 /\ changes[j].op = "added"
             => Emitter(at(l, changes[i])) # Emitter(at(r, changes[j]))
                \/ Topics(at(l, changes[i])) # Topics(at(r, changes[j]))
        /\ Len(SelectSeq(changes, LAMBDA c : Len(c.path) = 1 /\ c.op = "added")) + Len(l)
             = Len(SelectSeq(changes, LAMBDA c : Len(c.path) = 1 /\ c.op = "removed")) + Len(r)

\* signer_diff.go 14-19: with UnorderedSigners the order of signers and
\* signatures means nothing, and how often each occurs does.
SignersAsBags ==
  Done /\ options.unordered /\ HasChild(left.node, "Signers") /\ HasChild(right.node, "Signers") =>
    LET l == [i \in DOMAIN Child(left.node, "Signers").children |-> CanonicalNodeKey(Child(left.node, "Signers").children[i])]
        r == [i \in DOMAIN Child(right.node, "Signers").children |-> CanonicalNodeKey(Child(right.node, "Signers").children[i])]
        count(list, x) == Cardinality({i \in DOMAIN list : list[i] = x})
        surplus(a, b, x) == IF count(a, x) > count(b, x) THEN count(a, x) - count(b, x) ELSE 0
        reported(op) == Len(SelectSeq(changes, LAMBDA c : c.path = <<Field("Signers")>> /\ c.op = op))
        total(a, b) == FoldSet(LAMBDA x, sum : sum + surplus(a, b, x), 0, ToSet(a) \cup ToSet(b))
    IN  reported("removed") = total(l, r) /\ reported("added") = total(r, l)

\* diff.go 1623-1642: when no mask keeps it out of the comparison, a difference in
\* what an account's signers can weigh together is reported, last and whatever the
\* filter, and a threshold is called out of reach exactly when they cannot reach it.
\* Weights are added as words: sums that differ by a multiple of the word are the
\* exception, and a sum beyond it may seem too small.  Accounts that compare equal
\* have no such difference.
AccountNodes(v) ==
  IF v.type = "LedgerEntry" THEN {c \in {Child(Child(v.node, "Data"), "Account")} : ~IsNil(c)}
  ELSE {n \in {v.node} : v.type = "AccountEntry"}
TrueWeight(v) == SumOf(SetToSeq({AccountOf(n).thresholds[1] + SumOf(AccountOf(n).weights) : n \in AccountNodes(v)}))
PowerChangesReported ==
  Done /\ AccountNodes(left) \cup AccountNodes(right) # {} /\ options.mask = NoFilter =>
    LET l == TrueWeight(left) r == TrueWeight(right)
        reported == {i \in DOMAIN changes : changes[i].path = PowerPath}
    IN  /\ reported = IF l = r \/ Distance(l, r) % WeightModulus = 0 THEN {} ELSE {Len(changes)}
        /\ options.filter = NoFilter /\ reported # {} => Len(changes) > 1
        /\ r < WeightModulus => \A n \in AccountNodes(right), level \in {"medium", "high"} :
             (level \in warnings) = (r < AccountOf(n).thresholds[IF level = "medium" THEN 3 ELSE 4])

\* semantic_diff.go 10-13, scval_diff.go 10-11: integers of several words
\* compare and read as the integers they are, maps by key.
RECURSIVE Power(_)
Power(n) == IF n = 0 THEN 1 ELSE LimbBase * Power(n - 1)
Meaning(v) ==
  LET n == Len(v.limbs)
      sum == FoldLeft(LAMBDA acc, i : acc + v.limbs[i] * Power(n - i), 0, [i \in 1..n |-> i])
  IN  IF v.type \in {"I128", "I256"} /\ sum >= Power(n) \div 2 THEN sum - Power(n) ELSE sum
EntriesOf(v) == {<<v.entries[i].key, v.entries[i].val>> : i \in DOMAIN v.entries}
SemanticsExact ==
  Done /\ options.semantic /\ left.scval # {} /\ right.scval # {} =>
    \A l \in left.scval, r \in right.scval :
      /\ l.type = r.type /\ l.type \in WideTypes =>
           changes = IF Meaning(l) = Meaning(r) THEN << >>
                     ELSE <<Change(<<Field(l.type)>>, "modified", <<ToString(Meaning(l))>>, <<ToString(Meaning(r))>>)>>
      /\ l.type = "Map" /\ r.type = "Map" => (changes = << >>) = (EntriesOf(l) = EntriesOf(r))

\* The summary line and the statistics count the same changes, although a
\* reordering is of its own kind in one and a modification in the other; each
\* change is in one section, and none is deeper than the deepest.
SummariesAgree ==
  Done =>
    LET summary == Summary(changes) stats == SummarizeChanges(changes)
        sum(key) == FoldLeft(LAMBDA acc, s : acc + s.counts[key], 0, stats.sections)
    IN  /\ summary.changed + summary.reordered = stats.counts.modified + stats.counts.typeChanged
        /\ \A key \in DOMAIN stats.counts : sum(key) = stats.counts[key]
        /\ stats.counts.total = stats.counts.modified + stats.counts.added + stats.counts.removed + stats.counts.typeChanged
        /\ \A i \in DOMAIN changes : \E d \in stats.deepest : PathDepth(changes[i].path) <= PathDepth(d)

\* json_patch.go 15-22: applied to the left value as JSON, the patch makes the
\* right one, where list elements keep their places and at most one goes.
PatchedLeft == ApplyPatch(ConvertNode(left.node), Patch(right.node, changes))
RECURSIVE Shrinks(_, _)
Shrinks(a, b) ==
  \/ a.kind = "list" /\ b.kind = "list" /\ Len(a.children) > Len(b.children) + 1
  \/ \E i \in DOMAIN a.children :
       LET other == IF a.kind = "list" THEN IF i <= Len(b.children) THEN b.children[i] ELSE NoNode
                    ELSE Child(b, a.children[i].name)
       IN  Shrinks(a.children[i], other)
PatchAppliesInPlace ==
  Done /\ options = NoOptions /\ ByPlace /\ left.type = "Tree" /\ right.type = "Tree" /\ ~Shrinks(left.node, right.node) =>
    \E doc \in PatchedLeft : SameJSON(doc, ConvertNode(right.node))

\* diff.go 80-92, 881, 1063: the changes are the differences.  Each difference is
\* at a change, each change has the two values' texts at its path, and no change
\* means equal, whichever value comes first.
ChangesExact ==
  DiffTypeOK /\ EveryDifferenceLocated /\ ChangesResolve /\ EqualIsSymmetric

\* diff_filter.go 141 and diff_redact.go 157: masks and redactions take changes
\* away and put none in, and no text that a policy covers is in the report.
RulesOnlyHide ==
  MaskOnlyRemoves /\ RedactionHides

\* diff.go 841, 1246, 1460 and signer_diff.go 151: the elements of collections
\* are compared with their counterparts, and each is used once.
CollectionsMatched ==
  OperationsMatched /\ AlignmentKeepsMost /\ EventsMatched /\ SignersAsBags

\* diff_stats.go 69 and format/json_patch.go 107: the summary, the statistics
\* and the JSON patch tell of the same changes.
ReportsAgree ==
  SummariesAgree /\ PatchAppliesInPlace
=============================================================================
